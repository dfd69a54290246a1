------------------------ MODULE EvidencePipelineProofs ------------------------
(***************************************************************************)
(* Proofs about EvidencePipeline, for any number of files and workers and   *)
(* any choice of faults: type correctness, that a file's events are stored   *)
(* once, that what a commit stored outlives later failures, and that a       *)
(* file's status is earned.                                                  *)
(***************************************************************************)
EXTENDS EvidencePipeline, SequenceTheorems, TLAPS

(***************************************************************************)
(* What each step makes of the worker that takes it. The provers do not     *)
(* take several fields of a record being replaced at once: each proof        *)
(* replaces them one after another.                                          *)
(***************************************************************************)

\* An idle worker holds a task, if only the empty one.
LEMMA IdleTask == Idle \in Tasks /\ Idle.pc = "idle"
<1>1. NoEvents \in Seq(RecordTypes)
  BY DEF NoEvents
<1>2. Idle.retries \in 0..MaxRetries /\ Idle.attempt \in 0..GroundedMaxAttempts
  BY DEF Idle, MaxRetries, GroundedMaxAttempts
<1> QED
  BY <1>1, <1>2 DEF Idle, Tasks, Steps, Statuses

\* A worker that has loaded a file's row is at the step given, with no events
\* and no attempt of its own.
LEMMA LoadingTask ==
    ASSUME TypeOK, NEW pc \in Steps, NEW f \in Files, NEW r \in 0..MaxRetries,
           NEW saw \in BOOLEAN
    PROVE  /\ Loading(pc, f, r, saw) \in Tasks
           /\ Loading(pc, f, r, saw).pc = pc
           /\ Loading(pc, f, r, saw).file = f
           /\ Loading(pc, f, r, saw).saw = saw
           /\ Loading(pc, f, r, saw).error = "none"
<1> DEFINE a == [Idle EXCEPT !.pc = pc]
           b == [a EXCEPT !.file = f]
           c == [b EXCEPT !.retries = r]
           d == [c EXCEPT !.seen = row[f].status]
           e == [d EXCEPT !.saw = saw]
<1>0. row[f].status \in Statuses
  BY DEF TypeOK
<1>1. a \in Tasks /\ a.pc = pc /\ a.error = "none"
  BY IdleTask DEF Tasks, Idle
<1>9. Loading(pc, f, r, saw) = e
  BY DEF Loading
<1> HIDE DEF a
<1>2. b \in Tasks /\ b.pc = pc /\ b.error = "none" /\ b.file = f
  BY <1>1 DEF Tasks
<1> HIDE DEF b
<1>3. c \in Tasks /\ c.pc = pc /\ c.error = "none" /\ c.file = f
  BY <1>2 DEF Tasks
<1> HIDE DEF c
<1>4. d \in Tasks /\ d.pc = pc /\ d.error = "none" /\ d.file = f
  BY <1>3, <1>0 DEF Tasks
<1> HIDE DEF d
<1>5. e \in Tasks /\ e.pc = pc /\ e.error = "none" /\ e.file = f /\ e.saw = saw
  BY <1>4 DEF Tasks
<1> HIDE DEF e
<1> QED
  BY <1>5, <1>9

\* A worker whose transaction was rolled back keeps its file.
LEMMA FailingTask ==
    ASSUME TypeOK, NEW t \in Tasks, t.file \in Files, NEW error \in {"os", "other"}
    PROVE  /\ Failing(t, error) \in Tasks
           /\ Failing(t, error).pc = "failing"
           /\ Failing(t, error).file = t.file
           /\ Failing(t, error).told = row[t.file].reason
<1> DEFINE known == runs[t.file]["parse"] # "none"
           a == Loading("failing", t.file, t.retries, known)
<1>1. t.retries \in 0..MaxRetries /\ known \in BOOLEAN /\ "failing" \in Steps
  BY DEF Tasks, Steps
<1> DEFINE b == [a EXCEPT !.error = error]
<1>3. Failing(t, error) = [b EXCEPT !.told = row[t.file].reason]
  BY DEF Failing
<1> HIDE DEF known
<1>2. a \in Tasks /\ a.pc = "failing" /\ a.file = t.file
  BY <1>1, LoadingTask
<1> HIDE DEF a
<1>4. b \in Tasks /\ b.pc = "failing" /\ b.file = t.file
  BY <1>2 DEF Tasks
<1>5. row[t.file].reason \in Reasons \cup {"none"}
  BY DEF TypeOK
<1> HIDE DEF b
<1> QED
  BY <1>3, <1>4, <1>5 DEF Tasks

LEMMA ParsedTask ==
    ASSUME NEW t \in Tasks, NEW fresh \in BOOLEAN, NEW seen \in Statuses \cup {"expired"}
    PROVE  /\ Parsed(t, fresh, seen) \in Tasks
           /\ Parsed(t, fresh, seen).pc = "parsed"
           /\ Parsed(t, fresh, seen).file = t.file
<1> DEFINE a == [t EXCEPT !.pc = "parsed"]
           b == [a EXCEPT !.fresh = fresh]
           c == [b EXCEPT !.seen = seen]
<1>1. a \in Tasks /\ a.pc = "parsed" /\ a.file = t.file
  BY DEF Tasks, Steps
<1>2. Parsed(t, fresh, seen) = c
  BY DEF Parsed
<1> HIDE DEF a
<1>3. b \in Tasks /\ b.pc = "parsed" /\ b.file = t.file
  BY <1>1 DEF Tasks
<1> HIDE DEF b
<1> QED
  BY <1>2, <1>3 DEF Tasks

LEMMA ExtractingTask ==
    ASSUME NEW t \in Tasks, NEW pc \in Steps, NEW saw \in BOOLEAN,
           NEW batch \in Seq(RecordTypes)
    PROVE  /\ Extracting(t, pc, saw, batch) \in Tasks
           /\ Extracting(t, pc, saw, batch).pc = pc
           /\ Extracting(t, pc, saw, batch).file = t.file
           /\ Extracting(t, pc, saw, batch).saw = saw
           /\ Extracting(t, pc, saw, batch).batch = batch
<1> DEFINE a == [t EXCEPT !.pc = pc]
           b == [a EXCEPT !.saw = saw]
           c == [b EXCEPT !.batch = batch]
<1>1. a \in Tasks /\ a.pc = pc /\ a.file = t.file
  BY DEF Tasks
<1>2. Extracting(t, pc, saw, batch) = c
  BY DEF Extracting
<1> HIDE DEF a
<1>3. b \in Tasks /\ b.pc = pc /\ b.file = t.file /\ b.saw = saw
  BY <1>1 DEF Tasks
<1> HIDE DEF b
<1> QED
  BY <1>2, <1>3 DEF Tasks

LEMMA EvaluatedTask ==
    ASSUME NEW t \in Tasks, NEW raised \in SUBSET Leads
    PROVE  /\ Evaluated(t, raised) \in Tasks
           /\ Evaluated(t, raised).pc = "evaluated"
           /\ Evaluated(t, raised).file = t.file
           /\ Evaluated(t, raised).saw = t.saw
           /\ Evaluated(t, raised).batch = t.batch
<1> DEFINE a == [t EXCEPT !.pc = "evaluated"]
<1>1. /\ a \in Tasks /\ a.pc = "evaluated" /\ a.file = t.file
      /\ a.saw = t.saw /\ a.batch = t.batch
  BY DEF Tasks, Steps
<1>2. Evaluated(t, raised) = [a EXCEPT !.leads = raised]
  BY DEF Evaluated
<1> HIDE DEF a
<1> QED
  BY <1>1, <1>2 DEF Tasks

LEMMA GroundingTask ==
    ASSUME NEW t \in Tasks
    PROVE  /\ Grounding(t) \in Tasks
           /\ Grounding(t).pc = "grounding"
           /\ Grounding(t).file = t.file
<1> DEFINE a == [Idle EXCEPT !.pc = "grounding"]
           b == [a EXCEPT !.file = t.file]
           c == [b EXCEPT !.retries = t.retries]
           d == [c EXCEPT !.seen = "normalizing"]
           e == [d EXCEPT !.attempt = 1]
<1>0. /\ t.file \in Files \cup {"none"} /\ t.retries \in 0..MaxRetries
      /\ "normalizing" \in Statuses /\ 1 \in 0..GroundedMaxAttempts
  BY DEF Tasks, Statuses, GroundedMaxAttempts
<1>1. a \in Tasks /\ a.pc = "grounding"
  BY IdleTask DEF Tasks, Steps
<1>9. Grounding(t) = e
  BY DEF Grounding
<1> HIDE DEF a
<1>2. b \in Tasks /\ b.pc = "grounding" /\ b.file = t.file
  BY <1>0, <1>1 DEF Tasks
<1> HIDE DEF b
<1>3. c \in Tasks /\ c.pc = "grounding" /\ c.file = t.file
  BY <1>0, <1>2 DEF Tasks
<1> HIDE DEF c
<1>4. d \in Tasks /\ d.pc = "grounding" /\ d.file = t.file
  BY <1>0, <1>3 DEF Tasks
<1> HIDE DEF d
<1> QED
  BY <1>0, <1>4, <1>9 DEF Tasks

LEMMA TryingAgainTask ==
    ASSUME TypeOK, NEW t \in Tasks, t.file \in Files, t.attempt < GroundedMaxAttempts
    PROVE  /\ TryingAgain(t) \in Tasks
           /\ TryingAgain(t).pc = t.pc
           /\ TryingAgain(t).file = t.file
<1> DEFINE a == [t EXCEPT !.attempt = @ + 1]
<1>1. row[t.file].status \in Statuses
  BY DEF TypeOK
<1>2. a \in Tasks /\ a.pc = t.pc /\ a.file = t.file
  BY DEF Tasks, GroundedMaxAttempts
<1>3. TryingAgain(t) = [a EXCEPT !.seen = row[t.file].status]
  BY DEF TryingAgain
<1> HIDE DEF a
<1> QED
  BY <1>1, <1>2, <1>3 DEF Tasks

LEMMA FinishingTask ==
    ASSUME NEW t \in Tasks, NEW seen \in Statuses \cup {"expired"}
    PROVE  /\ Finishing(t, seen) \in Tasks
           /\ Finishing(t, seen).pc = "finishing"
           /\ Finishing(t, seen).file = t.file
<1> DEFINE a == [t EXCEPT !.pc = "finishing"]
<1>1. a \in Tasks /\ a.pc = "finishing" /\ a.file = t.file
  BY DEF Tasks, Steps
<1>2. Finishing(t, seen) = [a EXCEPT !.seen = seen]
  BY DEF Finishing
<1> HIDE DEF a
<1> QED
  BY <1>1, <1>2 DEF Tasks

\* Putting a task into the queue, or taking one out, leaves it a queue.
LEMMA QueueType ==
    ASSUME TypeOK, NEW f \in Files, NEW n \in 0..MaxRetries
    PROVE  /\ [queue EXCEPT ![f][n] = @ + 1] \in [Files -> [0..MaxRetries -> Nat]]
           /\ queue[f][n] > 0 =>
                 [queue EXCEPT ![f][n] = @ - 1] \in [Files -> [0..MaxRetries -> Nat]]
<1>1. queue[f] \in [0..MaxRetries -> Nat] /\ queue[f][n] \in Nat
  BY DEF TypeOK
<1>2. [queue[f] EXCEPT ![n] = queue[f][n] + 1] \in [0..MaxRetries -> Nat]
  BY <1>1
<1>3. queue[f][n] > 0 => [queue[f] EXCEPT ![n] = queue[f][n] - 1] \in [0..MaxRetries -> Nat]
  BY <1>1
<1> QED
  BY <1>2, <1>3 DEF TypeOK

(***************************************************************************)
(* What each action does to the workers.                                    *)
(***************************************************************************)

\* What TypeOK says of the workers.
WorkersTyped ==
    /\ work \in [Workers -> Tasks]
    /\ \A w \in Workers : Busy(w) => work[w].file \in Files

\* A step of worker w leaves the others where they are.
OthersWait(w) == \A v \in Workers \ {w} : work'[v] = work[v]

\* A step that ends in the failure handler has looked at the row just now.
LooksAtRow(w) == work'[w].pc = "failing" => work'[w].told = row[work'[w].file].reason

LEMMA OneWorker ==
    ASSUME TypeOK, NEW w \in Workers, NEW t \in Tasks,
           t.pc = "idle" \/ t.file \in Files,
           work' = [work EXCEPT ![w] = t]
    PROVE  WorkersTyped' /\ OthersWait(w) /\ work'[w] = t
  BY DEF TypeOK, WorkersTyped, Busy, OthersWait

\* A worker at a step other than "idle" has a task and a file.
LEMMA BusyTask ==
    ASSUME TypeOK, NEW w \in Workers, work[w].pc # "idle"
    PROVE  work[w] \in Tasks /\ work[w].file \in Files
  BY DEF TypeOK, Busy

LEMMA RaiseStep ==
    ASSUME TypeOK, NEW w \in Workers, work[w].pc # "idle", NEW error \in {"os", "other"},
           Raise(w, error)
    PROVE  WorkersTyped' /\ OthersWait(w) /\ work'[w].pc = "failing" /\ LooksAtRow(w)
<1> DEFINE t == Failing(work[w], error)
<1>1. work[w] \in Tasks /\ work[w].file \in Files
  BY BusyTask
<1>2. t \in Tasks /\ t.pc = "failing" /\ t.file \in Files /\ t.told = row[t.file].reason
  BY <1>1, FailingTask
<1>3. work' = [work EXCEPT ![w] = t]
  BY DEF Raise
<1> HIDE DEF t
<1> QED
  BY <1>2, <1>3, OneWorker DEF LooksAtRow

LEMMA StopStep ==
    ASSUME TypeOK, NEW w \in Workers, work' = [work EXCEPT ![w] = Idle]
    PROVE  WorkersTyped' /\ OthersWait(w) /\ work'[w].pc = "idle"
  BY IdleTask, OneWorker

LEMMA TakeStep ==
    ASSUME TypeOK, NEW w \in Workers, Take(w)
    PROVE  /\ WorkersTyped' /\ OthersWait(w)
           /\ work'[w].pc \in {"insert_parse", "parse", "replay"}
           /\ work'[w].pc = "replay" => text[work'[w].file]
           /\ queue' \in [Files -> [0..MaxRetries -> Nat]]
<1>1. PICK f \in Files, r \in 0..MaxRetries :
         LET known == runs[f]["parse"] # "none"
         IN  /\ queue[f][r] > 0
             /\ queue' = [queue EXCEPT ![f][r] = @ - 1]
             /\ work' = [work EXCEPT ![w] =
                   Loading(IF known THEN RecordsPc(f) ELSE "insert_parse", f, r, known)]
  BY DEF Take
<1>2. queue' \in [Files -> [0..MaxRetries -> Nat]]
  BY <1>1, QueueType
<1> DEFINE known == runs[f]["parse"] # "none"
           pc == IF known THEN RecordsPc(f) ELSE "insert_parse"
           t == Loading(pc, f, r, known)
<1>3. /\ pc \in Steps /\ known \in BOOLEAN
      /\ pc \in {"insert_parse", "parse", "replay"}
      /\ pc = "replay" => text[f]
  BY DEF RecordsPc, Steps
<1>4. work' = [work EXCEPT ![w] = t]
  BY <1>1
<1> HIDE DEF pc, known
<1>5. t \in Tasks /\ t.file = f /\ t.pc = pc
  BY <1>3, LoadingTask
<1> HIDE DEF t
<1>6. WorkersTyped' /\ OthersWait(w) /\ work'[w] = t
  BY <1>4, <1>5, OneWorker
<1> QED
  BY <1>2, <1>3, <1>5, <1>6

LEMMA InsertParseStep ==
    ASSUME TypeOK, NEW w \in Workers, InsertParse(w)
    PROVE  /\ WorkersTyped' /\ OthersWait(w) /\ LooksAtRow(w)
           /\ work'[w].pc \in {"failing", "parse", "replay"}
           /\ work'[w].pc = "replay" => text[work'[w].file]
<1>1. work[w].pc # "idle" /\ work[w] \in Tasks /\ work[w].file \in Files
  BY BusyTask DEF InsertParse
<1>2. CASE Raise(w, "other")
  BY <1>1, <1>2, RaiseStep
<1>3. CASE work' = [work EXCEPT ![w] = [@ EXCEPT !.pc = RecordsPc(work[w].file)]]
  <2> DEFINE t == [work[w] EXCEPT !.pc = RecordsPc(work[w].file)]
  <2>1. /\ t \in Tasks /\ t.file = work[w].file
        /\ t.pc \in {"parse", "replay"}
        /\ t.pc = "replay" => text[work[w].file]
    BY <1>1 DEF Tasks, Steps, RecordsPc
  <2>2. work' = [work EXCEPT ![w] = t]
    BY <1>3
  <2> HIDE DEF t
  <2>3. WorkersTyped' /\ OthersWait(w) /\ work'[w] = t
    BY <1>1, <2>1, <2>2, OneWorker
  <2> QED
    BY <2>1, <2>3 DEF LooksAtRow
<1> QED
  BY <1>2, <1>3 DEF InsertParse

LEMMA CommitReplayStep ==
    ASSUME TypeOK, NEW w \in Workers, CommitReplay(w)
    PROVE  /\ WorkersTyped' /\ OthersWait(w)
           /\ work'[w].pc = "parsed" /\ work'[w].file = work[w].file
<1> DEFINE t == Parsed(work[w], FALSE, work[w].seen)
<1>1. work[w] \in Tasks /\ work[w].file \in Files
  BY BusyTask DEF CommitReplay
<1>2. work[w].seen \in Statuses \cup {"expired"}
  BY <1>1 DEF Tasks
<1>3. t \in Tasks /\ t.pc = "parsed" /\ t.file = work[w].file
  BY <1>1, <1>2, ParsedTask
<1>4. work' = [work EXCEPT ![w] = t]
  BY DEF CommitReplay
<1> HIDE DEF t
<1> QED
  BY <1>1, <1>3, <1>4, OneWorker

LEMMA CommitParseStep ==
    ASSUME TypeOK, NEW w \in Workers, CommitParse(w)
    PROVE  /\ WorkersTyped' /\ OthersWait(w) /\ LooksAtRow(w)
           /\ \/ work'[w].pc = "failing" /\ UNCHANGED <<row, runs, text>>
              \/ /\ work'[w].pc = "parsed" /\ work'[w].file = work[w].file
                 /\ text' = [text EXCEPT ![work[w].file] = TRUE]
                 /\ runs' = [runs EXCEPT ![work[w].file]["parse"] = "succeeded"]
                 /\ row' = [row EXCEPT ![work[w].file].status =
                               Assigned(row[work[w].file].status, work[w].seen, "processing")]
<1>1. work[w].pc # "idle" /\ work[w] \in Tasks /\ work[w].file \in Files
  BY BusyTask DEF CommitParse
<1>2. CASE Raise(w, "other") /\ UNCHANGED <<row, runs, text>>
  BY <1>1, <1>2, RaiseStep
<1>3. CASE ~text[work[w].file]
  <2> DEFINE t == Parsed(work[w], TRUE, "processing")
             s == Assigned(row[work[w].file].status, work[w].seen, "processing")
  <2>1. /\ text' = [text EXCEPT ![work[w].file] = TRUE]
        /\ runs' = [runs EXCEPT ![work[w].file]["parse"] = "succeeded"]
        /\ row' = [row EXCEPT ![work[w].file].status = s]
        /\ work' = [work EXCEPT ![w] = t]
    BY <1>3 DEF CommitParse
  <2>2. t \in Tasks /\ t.pc = "parsed" /\ t.file = work[w].file
    BY <1>1, ParsedTask DEF Statuses
  <2> HIDE DEF t, s
  <2>3. WorkersTyped' /\ OthersWait(w) /\ work'[w] = t
    BY <1>1, <2>1, <2>2, OneWorker
  <2> QED
    BY <2>1, <2>2, <2>3 DEF s, LooksAtRow
<1> QED
  BY <1>2, <1>3 DEF CommitParse

\* The events a run adds to its file are of the known types.
LEMMA BatchType ==
    ASSUME TypeOK, NEW w \in Workers, work[w].file \in Files
    PROVE  Batch(w) \in Seq(RecordTypes)
<1> DEFINE kind == IF work[w].fresh THEN Kind[work[w].file] ELSE Replayed(Kind[work[w].file])
<1>1. kind \in RecordTypes
  BY PipelineAssumption DEF Replayed, RecordTypes
<1>2. Batch(w) = NoEvents \/ Batch(w) = <<kind>>
  BY DEF Batch
<1>3. NoEvents \in Seq(RecordTypes)
  BY DEF NoEvents
<1> HIDE DEF kind
<1>4. <<kind>> \in Seq(RecordTypes)
  BY <1>1
<1> QED
  BY <1>2, <1>3, <1>4

\* A status, as the session writes it.
LEMMA StatusType ==
    ASSUME TypeOK, NEW f \in Files, NEW loaded, NEW status \in Statuses
    PROVE  Assigned(row[f].status, loaded, status) \in Statuses
  BY DEF Assigned, TypeOK

\* What the failure handler's commit leaves of a row: the status is "failed" or
\* stays, and a reason is given unless the one loaded was.
LEMMA FailedRow ==
    ASSUME TypeOK, NEW f \in Files, NEW t \in Tasks, NEW said \in Reasons
    PROVE  /\ Failed(row[f], t, said) \in [status : Statuses, reason : Reasons \cup {"none"}]
           /\ Failed(row[f], t, said).status \in {"failed", row[f].status}
           /\ \/ Failed(row[f], t, said).reason \in Reasons
              \/ t.told \in Reasons /\ Failed(row[f], t, said).reason = row[f].reason
<1>1. row[f] \in [status : Statuses, reason : Reasons \cup {"none"}] /\ "failed" \in Statuses
  BY DEF TypeOK, Statuses
<1> QED
  BY <1>1 DEF Failed, Assigned

\* Writing a status, or the state of a run, leaves the tables well formed.
LEMMA RowType ==
    ASSUME TypeOK, NEW f \in Files, NEW s \in Statuses
    PROVE  [row EXCEPT ![f].status = s] \in [Files -> [status : Statuses, reason : Reasons \cup {"none"}]]
  BY DEF TypeOK

LEMMA RunsType ==
    ASSUME TypeOK, NEW f \in Files, NEW stage \in Stages,
           NEW state \in {"succeeded", "failed"}
    PROVE  [runs EXCEPT ![f][stage] = state]
               \in [Files -> [Stages -> {"none", "succeeded", "failed"}]]
  BY DEF TypeOK

LEMMA FindExtractStep ==
    ASSUME TypeOK, NEW w \in Workers, FindExtract(w)
    PROVE  /\ WorkersTyped' /\ OthersWait(w)
           /\ work'[w].file = work[w].file
           /\ \/ /\ runs[work[w].file]["extract"] = "none"
                 /\ work'[w].pc = "insert_extract" /\ work'[w].saw = FALSE
              \/ /\ runs[work[w].file]["extract"] # "none"
                 /\ work'[w].pc = "extracted" /\ work'[w].saw = TRUE
                 /\ work'[w].batch = Batch(w)
<1> DEFINE known == runs[work[w].file]["extract"] # "none"
           pc == IF known THEN "extracted" ELSE "insert_extract"
           batch == IF known THEN Batch(w) ELSE NoEvents
           t == Extracting(work[w], pc, known, batch)
<1>1. work[w] \in Tasks /\ work[w].file \in Files
  BY BusyTask DEF FindExtract
<1>2. known \in BOOLEAN /\ pc \in Steps
  BY DEF Steps
<1>3. batch \in Seq(RecordTypes)
  BY <1>1, BatchType DEF NoEvents
<1>4. work' = [work EXCEPT ![w] = t]
  BY Zenon DEF FindExtract
<1>a. /\ known => pc = "extracted" /\ batch = Batch(w)
      /\ ~known => pc = "insert_extract"
  OBVIOUS
<1> HIDE DEF known, pc, batch
<1>5. /\ t \in Tasks /\ t.file = work[w].file
      /\ t.pc = pc /\ t.saw = known /\ t.batch = batch
  BY <1>1, <1>2, <1>3, ExtractingTask
<1> HIDE DEF t
<1>6. WorkersTyped' /\ OthersWait(w) /\ work'[w] = t
  BY <1>1, <1>4, <1>5, OneWorker
<1>7. known <=> runs[work[w].file]["extract"] # "none"
  BY DEF known
<1>8. CASE known
  BY <1>a, <1>5, <1>6, <1>7, <1>8
<1>9. CASE ~known
  BY <1>2, <1>a, <1>5, <1>6, <1>7, <1>9
<1> QED
  BY <1>8, <1>9

LEMMA InsertExtractStep ==
    ASSUME TypeOK, NEW w \in Workers, InsertExtract(w)
    PROVE  /\ WorkersTyped' /\ OthersWait(w) /\ LooksAtRow(w)
           /\ \/ work'[w].pc = "failing"
              \/ /\ runs[work[w].file]["extract"] = "none"
                 /\ work'[w].pc = "extracted" /\ work'[w].file = work[w].file
                 /\ work'[w].saw = work[w].saw /\ work'[w].batch = Batch(w)
<1>1. work[w].pc # "idle" /\ work[w] \in Tasks /\ work[w].file \in Files
  BY BusyTask DEF InsertExtract
<1>2. CASE Raise(w, "other")
  BY <1>1, <1>2, RaiseStep
<1>3. CASE runs[work[w].file]["extract"] = "none"
  <2> DEFINE t == Extracting(work[w], "extracted", work[w].saw, Batch(w))
  <2>1. "extracted" \in Steps /\ work[w].saw \in BOOLEAN
    BY <1>1 DEF Steps, Tasks
  <2>2. Batch(w) \in Seq(RecordTypes)
    BY <1>1, BatchType
  <2>3. /\ t \in Tasks /\ t.file = work[w].file /\ t.pc = "extracted"
        /\ t.saw = work[w].saw /\ t.batch = Batch(w)
    BY <1>1, <2>1, <2>2, ExtractingTask
  <2>4. work' = [work EXCEPT ![w] = t]
    BY <1>3 DEF InsertExtract
  <2> HIDE DEF t
  <2>5. WorkersTyped' /\ OthersWait(w) /\ work'[w] = t
    BY <1>1, <2>3, <2>4, OneWorker
  <2> QED
    BY <1>3, <2>3, <2>5 DEF LooksAtRow
<1> QED
  BY <1>2, <1>3 DEF InsertExtract

LEMMA EvaluateStep ==
    ASSUME TypeOK, NEW w \in Workers, Evaluate(w)
    PROVE  /\ WorkersTyped' /\ OthersWait(w)
           /\ work'[w].pc = "evaluated" /\ work'[w].file = work[w].file
           /\ work'[w].saw = work[w].saw /\ work'[w].batch = work[w].batch
<1>1. work[w] \in Tasks /\ work[w].file \in Files
  BY BusyTask DEF Evaluate
<1>2. PICK visible : work' = [work EXCEPT ![w] = Evaluated(@, Raised(visible) \ alerts)]
  BY Zenon DEF Evaluate
<1> DEFINE t == Evaluated(work[w], Raised(visible) \ alerts)
<1>3. Raised(visible) \ alerts \in SUBSET Leads
  BY DEF Raised
<1>4. /\ t \in Tasks /\ t.file = work[w].file /\ t.pc = "evaluated"
      /\ t.saw = work[w].saw /\ t.batch = work[w].batch
  BY <1>1, <1>3, EvaluatedTask
<1>5. work' = [work EXCEPT ![w] = t]
  BY <1>2
<1> HIDE DEF t
<1> QED
  BY <1>1, <1>4, <1>5, OneWorker

LEMMA CommitEventsStep ==
    ASSUME TypeOK, NEW w \in Workers, CommitEvents(w)
    PROVE  /\ WorkersTyped' /\ OthersWait(w) /\ LooksAtRow(w)
           /\ \/ work'[w].pc = "failing" /\ UNCHANGED <<row, runs, events, alerts>>
              \/ /\ work'[w].pc = "grounding" /\ work'[w].file = work[w].file
                 /\ \E s \in (Statuses \ {"completed", "failed"}) \cup {row[work[w].file].status} :
                       row' = [row EXCEPT ![work[w].file].status = s]
                 /\ runs' = [runs EXCEPT ![work[w].file]["extract"] = "succeeded"]
                 /\ events' = [events EXCEPT ![work[w].file] = @ \o work[w].batch]
                 /\ alerts' = alerts \cup work[w].leads
<1>1. work[w].pc # "idle" /\ work[w] \in Tasks /\ work[w].file \in Files
  BY BusyTask DEF CommitEvents
<1>2. CASE Raise(w, "other") /\ UNCHANGED <<row, runs, events, alerts>>
  BY <1>1, <1>2, RaiseStep
<1>3. CASE work[w].leads \cap alerts = {}
  <2> DEFINE t == Grounding(work[w])
             s == IF work[w].batch # NoEvents THEN "normalizing"
                  ELSE Assigned(row[work[w].file].status, work[w].seen, "normalizing")
  <2>1. /\ row' = [row EXCEPT ![work[w].file].status = s]
        /\ runs' = [runs EXCEPT ![work[w].file]["extract"] = "succeeded"]
        /\ events' = [events EXCEPT ![work[w].file] = @ \o work[w].batch]
        /\ alerts' = alerts \cup work[w].leads
        /\ work' = [work EXCEPT ![w] = t]
    BY <1>3 DEF CommitEvents
  <2>2. t \in Tasks /\ t.file = work[w].file /\ t.pc = "grounding"
    BY <1>1, GroundingTask
  <2>3. s \in (Statuses \ {"completed", "failed"}) \cup {row[work[w].file].status}
    BY DEF Assigned, Statuses
  <2> HIDE DEF t, s
  <2>4. WorkersTyped' /\ OthersWait(w) /\ work'[w] = t
    BY <1>1, <2>1, <2>2, OneWorker
  <2>5. \E r \in (Statuses \ {"completed", "failed"}) \cup {row[work[w].file].status} :
           row' = [row EXCEPT ![work[w].file].status = r]
    BY <2>1, <2>3, Zenon
  <2>6. work'[w].pc = "grounding" /\ work'[w].file = work[w].file
    BY <2>2, <2>4
  <2>7. LooksAtRow(w)
    BY <2>6 DEF LooksAtRow
  <2> QED
    BY <2>1, <2>4, <2>5, <2>6, <2>7, Zenon
<1> QED
  BY <1>2, <1>3 DEF CommitEvents

LEMMA GroundedSucceedsStep ==
    ASSUME TypeOK, NEW w \in Workers, GroundedSucceeds(w)
    PROVE  /\ WorkersTyped' /\ OthersWait(w)
           /\ work'[w].pc = "finishing" /\ work'[w].file = work[w].file
<1>1. work[w] \in Tasks /\ work[w].file \in Files
  BY BusyTask DEF GroundedSucceeds
<1>2. work[w].seen \in Statuses \cup {"expired"}
  BY <1>1 DEF Tasks
<1>3. PICK seen \in Statuses \cup {"expired"} :
         work' = [work EXCEPT ![w] = Finishing(@, seen)]
  BY <1>2 DEF GroundedSucceeds
<1> DEFINE t == Finishing(work[w], seen)
<1>4. t \in Tasks /\ t.file = work[w].file /\ t.pc = "finishing"
  BY <1>1, FinishingTask
<1>5. work' = [work EXCEPT ![w] = t]
  BY <1>3
<1> HIDE DEF t
<1> QED
  BY <1>1, <1>4, <1>5, OneWorker

LEMMA GroundedFailsStep ==
    ASSUME TypeOK, NEW w \in Workers, GroundedFails(w)
    PROVE  /\ WorkersTyped' /\ OthersWait(w)
           /\ work'[w].pc \in {"grounding", "finishing"}
           /\ work'[w].file = work[w].file
<1>1. /\ work[w].pc = "grounding"
      /\ work[w] \in Tasks /\ work[w].file \in Files
  BY BusyTask DEF GroundedFails
<1>2. CASE /\ work[w].attempt < GroundedMaxAttempts
           /\ work' = [work EXCEPT ![w] = TryingAgain(@)]
  <2> DEFINE t == TryingAgain(work[w])
  <2>1. t \in Tasks /\ t.file = work[w].file /\ t.pc = "grounding"
    BY <1>1, <1>2, TryingAgainTask
  <2>2. work' = [work EXCEPT ![w] = t]
    BY <1>2
  <2> HIDE DEF t
  <2> QED
    BY <1>1, <2>1, <2>2, OneWorker
<1>3. CASE work' = [work EXCEPT ![w] = Finishing(@, "expired")]
  <2> DEFINE t == Finishing(work[w], "expired")
  <2>1. t \in Tasks /\ t.file = work[w].file /\ t.pc = "finishing"
    BY <1>1, FinishingTask
  <2>2. work' = [work EXCEPT ![w] = t]
    BY <1>3
  <2> HIDE DEF t
  <2> QED
    BY <1>1, <2>1, <2>2, OneWorker
<1> QED
  BY <1>2, <1>3 DEF GroundedFails

(***************************************************************************)
(* Type correctness.                                                       *)
(***************************************************************************)

\* TypeOK holds of every run: whatever files, workers and faults there are,
\* the tables and the workers hold what the code can put there, and neither
\* Celery's retries nor the model pass's attempts exceed their limit.
THEOREM TypeCorrect == Spec => []TypeOK
<1> USE PipelineAssumption
<1>1. Init => TypeOK
  <2> SUFFICES ASSUME Init PROVE TypeOK
    OBVIOUS
  <2>1. WorkersTyped
    BY IdleTask DEF Init, WorkersTyped, Busy
  <2>2. row \in [Files -> [status : Statuses, reason : Reasons \cup {"none"}]]
    BY DEF Init, Statuses
  <2>3. queue \in [Files -> [0..MaxRetries -> Nat]]
    BY DEF Init
  <2>4. events \in [Files -> Seq(RecordTypes)]
    BY DEF Init, NoEvents
  <2> QED
    BY <2>1, <2>2, <2>3, <2>4 DEF Init, TypeOK, WorkersTyped
<1>2. TypeOK /\ [Next]_vars => TypeOK'
  <2> SUFFICES ASSUME TypeOK, [Next]_vars PROVE TypeOK'
    OBVIOUS
  <2> USE DEF database, broker
  <2>1. ASSUME NEW f \in Files, Upload(f) PROVE TypeOK'
    <3>1. row' \in [Files -> [status : Statuses, reason : Reasons \cup {"none"}]]
      BY <2>1, RowType DEF Upload, Statuses
    <3>2. posting' \in [Files -> Nat]
      BY <2>1 DEF Upload, TypeOK
    <3> QED
      BY <2>1, <3>1, <3>2 DEF Upload, TypeOK, Busy
  <2>2. ASSUME NEW f \in Files, Requeue(f) PROVE TypeOK'
    BY <2>2 DEF Requeue, Clear, TypeOK, Statuses, Busy
  <2>3. ASSUME NEW f \in Files, Post(f) PROVE TypeOK'
    <3>1. queue' \in [Files -> [0..MaxRetries -> Nat]]
      BY <2>3, QueueType DEF Post, MaxRetries
    <3>2. posting' \in [Files -> Nat]
      BY <2>3 DEF Post, TypeOK
    <3> QED
      BY <2>3, <3>1, <3>2 DEF Post, TypeOK, Busy
  <2>4. ASSUME NEW f \in Files, BrokerDown(f) PROVE TypeOK'
    BY <2>4 DEF BrokerDown, TypeOK, Busy
  <2>5. ASSUME NEW w \in Workers, Take(w) PROVE TypeOK'
    <3>1. WorkersTyped' /\ queue' \in [Files -> [0..MaxRetries -> Nat]]
      BY <2>5, TakeStep
    <3> QED
      BY <2>5, <3>1 DEF Take, TypeOK, WorkersTyped
  <2>6. ASSUME NEW w \in Workers, InsertParse(w) PROVE TypeOK'
    BY <2>6, InsertParseStep DEF InsertParse, TypeOK, WorkersTyped
  <2>7. ASSUME NEW w \in Workers, CommitReplay(w) PROVE TypeOK'
    BY <2>7, CommitReplayStep, BusyTask DEF CommitReplay, TypeOK, WorkersTyped, Stages
  <2>8. ASSUME NEW w \in Workers, CommitParse(w) PROVE TypeOK'
    <3> DEFINE s == Assigned(row[work[w].file].status, work[w].seen, "processing")
    <3>1. work[w].file \in Files
      BY <2>8, BusyTask DEF CommitParse
    <3>2. WorkersTyped' /\ UNCHANGED <<events, artifacts, alerts, posting, queue, requeues, cleared>>
      BY <2>8, CommitParseStep DEF CommitParse
    <3>3. s \in Statuses
      BY <3>1, StatusType DEF Statuses
    <3>4. CASE UNCHANGED <<row, runs, text>>
      BY <3>2, <3>4 DEF TypeOK, WorkersTyped
    <3>5. CASE /\ text' = [text EXCEPT ![work[w].file] = TRUE]
               /\ runs' = [runs EXCEPT ![work[w].file]["parse"] = "succeeded"]
               /\ row' = [row EXCEPT ![work[w].file].status = s]
      <4> HIDE DEF s
      <4>1. row' \in [Files -> [status : Statuses, reason : Reasons \cup {"none"}]]
        BY <3>1, <3>3, <3>5, RowType
      <4>2. runs' \in [Files -> [Stages -> {"none", "succeeded", "failed"}]]
        BY <3>1, <3>5, RunsType DEF Stages
      <4> QED
        BY <3>1, <3>2, <3>5, <4>1, <4>2 DEF TypeOK, WorkersTyped
    <3> QED
      BY <2>8, <3>4, <3>5, CommitParseStep
  <2>9. ASSUME NEW w \in Workers, ParseFails(w) PROVE TypeOK'
    BY <2>9, RaiseStep, SMTT(30) DEF ParseFails, TypeOK, WorkersTyped
  <2>10. ASSUME NEW w \in Workers, FindExtract(w) PROVE TypeOK'
    BY <2>10, FindExtractStep DEF FindExtract, TypeOK, WorkersTyped
  <2>11. ASSUME NEW w \in Workers, InsertExtract(w) PROVE TypeOK'
    BY <2>11, InsertExtractStep DEF InsertExtract, TypeOK, WorkersTyped
  <2>12. ASSUME NEW w \in Workers, ExtractFails(w) PROVE TypeOK'
    BY <2>12, RaiseStep DEF ExtractFails, TypeOK, WorkersTyped
  <2>13. ASSUME NEW w \in Workers, Evaluate(w) PROVE TypeOK'
    BY <2>13, EvaluateStep DEF Evaluate, TypeOK, WorkersTyped
  <2>14. ASSUME NEW w \in Workers, CommitEvents(w) PROVE TypeOK'
    <3> DEFINE f == work[w].file
    <3>1. work[w] \in Tasks /\ f \in Files
      BY <2>14, BusyTask DEF CommitEvents
    <3>2. WorkersTyped' /\ UNCHANGED <<text, artifacts, posting, queue, requeues, cleared>>
      BY <2>14, CommitEventsStep DEF CommitEvents
    <3>3. CASE UNCHANGED <<row, runs, events, alerts>>
      BY <3>2, <3>3 DEF TypeOK, WorkersTyped
    <3>4. CASE /\ \E s \in (Statuses \ {"completed", "failed"}) \cup {row[f].status} :
                     row' = [row EXCEPT ![f].status = s]
               /\ runs' = [runs EXCEPT ![f]["extract"] = "succeeded"]
               /\ events' = [events EXCEPT ![f] = @ \o work[w].batch]
               /\ alerts' = alerts \cup work[w].leads
      <4>0. row[f].status \in Statuses
        BY <3>1 DEF TypeOK
      <4>1. row' \in [Files -> [status : Statuses, reason : Reasons \cup {"none"}]]
        BY <3>1, <3>4, <4>0, RowType
      <4>2. runs' \in [Files -> [Stages -> {"none", "succeeded", "failed"}]]
        BY <3>1, <3>4, RunsType DEF Stages
      <4>3. events' \in [Files -> Seq(RecordTypes)]
        <5>1. work[w].batch \in Seq(RecordTypes) /\ events[f] \in Seq(RecordTypes)
          BY <3>1 DEF Tasks, TypeOK
        <5>2. events[f] \o work[w].batch \in Seq(RecordTypes)
          BY <5>1
        <5> QED
          BY <3>4, <5>2 DEF TypeOK
      <4>4. alerts' \subseteq Leads
        BY <3>1, <3>4 DEF TypeOK, Tasks
      <4> QED
        BY <3>2, <4>1, <4>2, <4>3, <4>4 DEF TypeOK, WorkersTyped
    <3> QED
      BY <2>14, <3>3, <3>4, CommitEventsStep
  <2>15. ASSUME NEW w \in Workers, GroundedSucceeds(w) PROVE TypeOK'
    <3>1. WorkersTyped' /\ work[w].file \in Files
      BY <2>15, GroundedSucceedsStep, BusyTask DEF GroundedSucceeds
    <3> QED
      BY <2>15, <3>1 DEF GroundedSucceeds, TypeOK, WorkersTyped
  <2>16. ASSUME NEW w \in Workers, GroundedFails(w) PROVE TypeOK'
    <3>1. WorkersTyped' /\ work[w].file \in Files
      BY <2>16, GroundedFailsStep, BusyTask DEF GroundedFails
    <3> QED
      BY <2>16, <3>1 DEF GroundedFails, TypeOK, WorkersTyped
  <2>17. ASSUME NEW w \in Workers, Finish(w) PROVE TypeOK'
    <3> DEFINE f == work[w].file
               local == IF work[w].seen = "expired" THEN row[f].status ELSE work[w].seen
               s == Assigned(row[f].status, local, "completed")
    <3>1. WorkersTyped' /\ f \in Files
      BY <2>17, StopStep, BusyTask DEF Finish
    <3>2. s \in Statuses
      BY <3>1, StatusType DEF Statuses
    <3>3. row' = row \/ row' = [row EXCEPT ![f].status = s]
      BY <2>17 DEF Finish
    <3> HIDE DEF s, f
    <3>4. CASE row' = row
      BY <2>17, <3>1, <3>4 DEF Finish, TypeOK, WorkersTyped
    <3>5. CASE row' = [row EXCEPT ![f].status = s]
      <4>1. row' \in [Files -> [status : Statuses, reason : Reasons \cup {"none"}]]
        BY <3>1, <3>2, <3>5, RowType
      <4> QED
        BY <2>17, <3>1, <4>1 DEF Finish, TypeOK, WorkersTyped
    <3> QED
      BY <3>3, <3>4, <3>5
  <2>18. ASSUME NEW w \in Workers, Settle(w) PROVE TypeOK'
    <3> DEFINE f == work[w].file
    <3>1. work[w] \in Tasks /\ f \in Files
      BY <2>18, BusyTask DEF Settle
    <3>2. WorkersTyped'
      BY <2>18, StopStep DEF Settle
    <3>3. CASE UNCHANGED <<row, runs, queue>>
      BY <2>18, <3>2, <3>3 DEF Settle, TypeOK, WorkersTyped
    <3>4. CASE /\ \E said \in Reasons : row' = [row EXCEPT ![f] = Failed(@, work[w], said)]
               /\ runs' = [runs EXCEPT ![f]["parse"] = "failed"]
               /\ queue' = IF work[w].error = "os" /\ work[w].retries < MaxRetries
                           THEN [queue EXCEPT ![f][work[w].retries + 1] = @ + 1]
                           ELSE queue
      <4>1. row' \in [Files -> [status : Statuses, reason : Reasons \cup {"none"}]]
        <5>1. PICK said \in Reasons : row' = [row EXCEPT ![f] = Failed(@, work[w], said)]
          BY <3>4
        <5>2. Failed(row[f], work[w], said) \in [status : Statuses, reason : Reasons \cup {"none"}]
          BY <3>1, FailedRow
        <5> QED
          BY <3>1, <5>1, <5>2 DEF TypeOK
      <4>2. runs' \in [Files -> [Stages -> {"none", "succeeded", "failed"}]]
        BY <3>1, <3>4, RunsType DEF Stages
      <4>3. queue' \in [Files -> [0..MaxRetries -> Nat]]
        <5>1. work[w].retries < MaxRetries => work[w].retries + 1 \in 0..MaxRetries
          BY <3>1 DEF Tasks, MaxRetries
        <5> QED
          BY <3>1, <3>4, <5>1, QueueType DEF TypeOK
      <4> QED
        BY <2>18, <3>2, <4>1, <4>2, <4>3 DEF Settle, TypeOK, WorkersTyped
    <3> QED
      BY <2>18, <3>3, <3>4 DEF Settle
  <2>19. ASSUME NEW w \in Workers, Crash(w) PROVE TypeOK'
    BY <2>19, StopStep DEF Crash, TypeOK, WorkersTyped
  <2>20. CASE UNCHANGED vars
    BY <2>20 DEF vars, TypeOK, Busy
  <2> QED
    BY <2>1, <2>2, <2>3, <2>4, <2>5, <2>6, <2>7, <2>8, <2>9, <2>10, <2>11, <2>12,
       <2>13, <2>14, <2>15, <2>16, <2>17, <2>18, <2>19, <2>20 DEF Next, Process
<1> QED
  BY <1>1, <1>2, PTL DEF Spec

(***************************************************************************)
(* A file's events are stored once.                                         *)
(*                                                                         *)
(* The file's extraction run and its events appear together, in the one      *)
(* commit that adds both; until then at most one worker has inserted the     *)
(* run, and only that worker has events to add.                              *)
(***************************************************************************)

\* Worker w has its extraction run, and may have events to commit.
Adding(w) == work[w].pc \in {"extracted", "evaluated"}

RunMeansEvents ==
    \A f \in Files :
        /\ Len(events[f]) <= 1
        /\ runs[f]["extract"] = "none" <=> Len(events[f]) = 0

InserterHasBatch ==
    \A w \in Workers :
        /\ work[w].pc = "insert_extract" => work[w].saw = FALSE
        /\ Adding(w) =>
              IF work[w].saw = FALSE
              THEN runs[work[w].file]["extract"] = "none" /\ Len(work[w].batch) = 1
              ELSE runs[work[w].file]["extract"] # "none" /\ Len(work[w].batch) = 0

OneInserter ==
    \A v, w \in Workers :
        Inserting(v, work[w].file, "extract") /\ Inserting(w, work[w].file, "extract")
            => v = w

EventsInv == RunMeansEvents /\ InserterHasBatch /\ OneInserter

\* A run adds events exactly when the file has none.
LEMMA BatchLength ==
    ASSUME TypeOK, NEW w \in Workers, work[w].file \in Files
    PROVE  IF Len(events[work[w].file]) = 0 THEN Len(Batch(w)) = 1 ELSE Len(Batch(w)) = 0
<1>1. events[work[w].file] \in Seq(RecordTypes)
  BY DEF TypeOK
<1>2. events[work[w].file] = NoEvents <=> Len(events[work[w].file]) = 0
  BY <1>1 DEF NoEvents
<1> QED
  BY <1>2 DEF Batch, NoEvents

\* Finishing a parse run leaves the extraction runs alone.
LEMMA ExtractUntouched ==
    ASSUME TypeOK, NEW f \in Files, NEW state,
           runs' = [runs EXCEPT ![f]["parse"] = state]
    PROVE  \A g \in Files : runs'[g]["extract"] = runs[g]["extract"]
  BY DEF TypeOK, Stages

\* A worker that has no extraction run after its step, and has committed
\* none, disturbs nothing.
LEMMA EventsFrame ==
    ASSUME TypeOK, EventsInv, NEW w \in Workers, OthersWait(w),
           work'[w].pc \notin {"insert_extract", "extracted", "evaluated"},
           events' = events,
           \A f \in Files : runs'[f]["extract"] = runs[f]["extract"]
    PROVE  EventsInv'
<1>1. \A v \in Workers : Adding(v) => work[v].file \in Files
  BY BusyTask DEF Adding
<1>2. RunMeansEvents'
  BY DEF EventsInv, RunMeansEvents
<1>3. InserterHasBatch'
  BY <1>1 DEF EventsInv, InserterHasBatch, OthersWait, Adding
<1>4. OneInserter'
  BY DEF EventsInv, OneInserter, Inserting, OthersWait
<1> QED
  BY <1>2, <1>3, <1>4 DEF EventsInv

\* The extraction run, the events and the one worker that may add them stay
\* in step, whatever the workers do (_run, _events, uq_processing_stage_version).
LEMMA ExtractedOnce == Spec => []EventsInv
<1>1. Init => EventsInv
  BY DEF Init, EventsInv, RunMeansEvents, InserterHasBatch, OneInserter, Inserting,
         Adding, Idle, NoEvents, Stages
<1>2. TypeOK /\ EventsInv /\ [Next]_vars => EventsInv'
  <2> SUFFICES ASSUME TypeOK, EventsInv, [Next]_vars PROVE EventsInv'
    OBVIOUS
  <2> USE DEF database, broker
  <2>1. ASSUME UNCHANGED <<work, runs, events>> PROVE EventsInv'
    BY <2>1 DEF EventsInv, RunMeansEvents, InserterHasBatch, OneInserter, Inserting, Adding
  <2>2. ASSUME NEW f \in Files, Upload(f) \/ Requeue(f) \/ Post(f) \/ BrokerDown(f)
        PROVE EventsInv'
    BY <2>1, <2>2 DEF Upload, Requeue, Post, BrokerDown
  <2>3. ASSUME NEW w \in Workers, Take(w) PROVE EventsInv'
    <3>1. OthersWait(w) /\ work'[w].pc \in {"insert_parse", "parse", "replay"}
      BY <2>3, TakeStep
    <3> QED
      BY <2>3, <3>1, EventsFrame DEF Take
  <2>4. ASSUME NEW w \in Workers, InsertParse(w) PROVE EventsInv'
    <3>1. OthersWait(w) /\ work'[w].pc \in {"failing", "parse", "replay"}
      BY <2>4, InsertParseStep
    <3> QED
      BY <2>4, <3>1, EventsFrame DEF InsertParse
  <2>5. ASSUME NEW w \in Workers, CommitReplay(w) PROVE EventsInv'
    <3>1. OthersWait(w) /\ work'[w].pc = "parsed" /\ work[w].file \in Files
      BY <2>5, CommitReplayStep, BusyTask DEF CommitReplay
    <3>2. \A f \in Files : runs'[f]["extract"] = runs[f]["extract"]
      BY <2>5, <3>1, ExtractUntouched DEF CommitReplay
    <3> QED
      BY <2>5, <3>1, <3>2, EventsFrame DEF CommitReplay
  <2>6. ASSUME NEW w \in Workers, CommitParse(w) PROVE EventsInv'
    <3>1. OthersWait(w) /\ work'[w].pc \in {"parsed", "failing"} /\ work[w].file \in Files
      BY <2>6, CommitParseStep, BusyTask DEF CommitParse
    <3>2. runs' = runs \/ runs' = [runs EXCEPT ![work[w].file]["parse"] = "succeeded"]
      BY <2>6, CommitParseStep
    <3>3. \A f \in Files : runs'[f]["extract"] = runs[f]["extract"]
      BY <3>1, <3>2, ExtractUntouched
    <3> QED
      BY <2>6, <3>1, <3>3, EventsFrame DEF CommitParse
  <2>7. ASSUME NEW w \in Workers, ParseFails(w) \/ ExtractFails(w) PROVE EventsInv'
    <3>1. OthersWait(w) /\ work'[w].pc = "failing"
      BY <2>7, RaiseStep DEF ParseFails, ExtractFails
    <3> QED
      BY <2>7, <3>1, EventsFrame DEF ParseFails, ExtractFails
  <2>8. ASSUME NEW w \in Workers, FindExtract(w) PROVE EventsInv'
    <3> DEFINE f == work[w].file
    <3>1. f \in Files /\ UNCHANGED <<runs, events>>
      BY <2>8, BusyTask DEF FindExtract
    <3>2. /\ OthersWait(w) /\ work'[w].file = f
          /\ \/ work'[w].pc = "insert_extract" /\ work'[w].saw = FALSE
             \/ /\ runs[f]["extract"] # "none"
                /\ work'[w].pc = "extracted" /\ work'[w].saw = TRUE
                /\ work'[w].batch = Batch(w)
      BY <2>8, FindExtractStep
    <3>3. runs[f]["extract"] # "none" => Len(Batch(w)) = 0
      BY <3>1, BatchLength DEF EventsInv, RunMeansEvents
    <3> HIDE DEF f
    <3>4. RunMeansEvents'
      BY <3>1 DEF EventsInv, RunMeansEvents
    <3>5. InserterHasBatch'
      BY <3>1, <3>2, <3>3 DEF EventsInv, InserterHasBatch, OthersWait, Adding
    <3>6. OneInserter'
      BY <3>2 DEF EventsInv, OneInserter, Inserting, OthersWait
    <3> QED
      BY <3>4, <3>5, <3>6 DEF EventsInv
  <2>9. ASSUME NEW w \in Workers, InsertExtract(w) PROVE EventsInv'
    <3> DEFINE f == work[w].file
    <3>1. /\ f \in Files /\ UNCHANGED <<runs, events>> /\ OthersWait(w)
          /\ work[w].saw = FALSE
          /\ \A v \in Workers \ {w} : ~Inserting(v, f, "extract")
      BY <2>9, BusyTask, InsertExtractStep
         DEF InsertExtract, FreeToInsert, EventsInv, InserterHasBatch
    <3>2. CASE work'[w].pc = "failing"
      BY <3>1, <3>2, EventsFrame
    <3>3. CASE /\ runs[f]["extract"] = "none"
               /\ work'[w].pc = "extracted" /\ work'[w].file = f
               /\ work'[w].saw = work[w].saw /\ work'[w].batch = Batch(w)
      <4>1. Len(Batch(w)) = 1
        BY <3>1, <3>3, BatchLength DEF EventsInv, RunMeansEvents
      <4> HIDE DEF f
      <4>2. RunMeansEvents'
        BY <3>1 DEF EventsInv, RunMeansEvents
      <4>3. InserterHasBatch'
        BY <3>1, <3>3, <4>1 DEF EventsInv, InserterHasBatch, OthersWait, Adding
      <4>4. OneInserter'
        BY <3>1, <3>3 DEF EventsInv, OneInserter, Inserting, OthersWait
      <4> QED
        BY <4>2, <4>3, <4>4 DEF EventsInv
    <3> QED
      BY <2>9, <3>2, <3>3, InsertExtractStep
  <2>10. ASSUME NEW w \in Workers, Evaluate(w) PROVE EventsInv'
    <3>1. /\ OthersWait(w) /\ work[w].pc = "extracted"
          /\ work'[w].pc = "evaluated" /\ work'[w].file = work[w].file
          /\ work'[w].saw = work[w].saw /\ work'[w].batch = work[w].batch
          /\ UNCHANGED <<runs, events>>
      BY <2>10, EvaluateStep DEF Evaluate
    <3>2. RunMeansEvents'
      BY <3>1 DEF EventsInv, RunMeansEvents
    <3>3. InserterHasBatch'
      BY <3>1 DEF EventsInv, InserterHasBatch, OthersWait, Adding
    <3>4. OneInserter'
      BY <3>1 DEF EventsInv, OneInserter, Inserting, OthersWait
    <3> QED
      BY <3>2, <3>3, <3>4 DEF EventsInv
  <2>11. ASSUME NEW w \in Workers, CommitEvents(w) PROVE EventsInv'
    <3> DEFINE f == work[w].file
    <3>1. f \in Files /\ work[w] \in Tasks /\ OthersWait(w) /\ Adding(w)
      BY <2>11, BusyTask, CommitEventsStep DEF CommitEvents, Adding
    <3>2. CASE work'[w].pc = "failing" /\ UNCHANGED <<runs, events>>
      BY <3>1, <3>2, EventsFrame
    <3>3. CASE /\ work'[w].pc = "grounding"
               /\ runs' = [runs EXCEPT ![f]["extract"] = "succeeded"]
               /\ events' = [events EXCEPT ![f] = @ \o work[w].batch]
      <4>1. Len(events'[f]) = Len(events[f]) + Len(work[w].batch)
        <5>1. events[f] \in Seq(RecordTypes) /\ work[w].batch \in Seq(RecordTypes)
          BY <3>1 DEF TypeOK, Tasks
        <5> QED
          BY <3>1, <3>3, <5>1, ConcatProperties DEF TypeOK
      <4>2. Len(events'[f]) = 1
        <5> DEFINE stored == Len(events[f])
                   added == Len(work[w].batch)
                   mine == work[w].saw = FALSE
                   unrun == runs[f]["extract"] = "none"
        <5>1. stored \in Nat /\ stored <= 1 /\ (unrun <=> stored = 0)
          BY <3>1 DEF TypeOK, EventsInv, RunMeansEvents
        <5>2. (mine => unrun /\ added = 1) /\ (~mine => ~unrun /\ added = 0)
          BY <3>1 DEF EventsInv, InserterHasBatch
        <5>3. Len(events'[f]) = stored + added
          BY <4>1
        <5> HIDE DEF stored, added, mine, unrun
        <5>4. stored + added = 1
          BY <5>1, <5>2
        <5> QED
          BY <5>3, <5>4
      <4>3. /\ runs'[f]["extract"] = "succeeded"
            /\ \A g \in Files \ {f} : runs'[g] = runs[g] /\ events'[g] = events[g]
        BY <3>1, <3>3 DEF TypeOK, Stages
      <4>4. \A v \in Workers \ {w} : Adding(v) /\ work[v].file = f => ~(work[v].saw = FALSE)
        <5> SUFFICES ASSUME NEW v \in Workers \ {w}, Adding(v), work[v].file = f,
                            work[v].saw = FALSE
                     PROVE  FALSE
          OBVIOUS
        <5>1. runs[f]["extract"] = "none"
          BY DEF EventsInv, InserterHasBatch
        <5>2. work[w].saw = FALSE
          BY <3>1, <5>1 DEF EventsInv, InserterHasBatch
        <5> QED
          BY <3>1, <5>2 DEF EventsInv, OneInserter, Inserting, Adding
      <4>5. \A v \in Workers : Adding(v) => work[v].file \in Files
        BY BusyTask DEF Adding
      <4> HIDE DEF f
      <4>6. RunMeansEvents'
        <5> SUFFICES ASSUME NEW g \in Files
                     PROVE  /\ Len(events'[g]) <= 1
                            /\ runs'[g]["extract"] = "none" <=> Len(events'[g]) = 0
          BY DEF RunMeansEvents
        <5>1. CASE g = f
          <6>1. runs'[f]["extract"] # "none" /\ Len(events'[f]) # 0 /\ Len(events'[f]) <= 1
            BY <4>2, <4>3
          <6> QED
            BY <5>1, <6>1
        <5>2. CASE g # f
          BY <4>3, <5>2 DEF EventsInv, RunMeansEvents
        <5> QED
          BY <5>1, <5>2
      <4>7. InserterHasBatch'
        BY <3>1, <3>3, <4>3, <4>4, <4>5 DEF EventsInv, InserterHasBatch, OthersWait, Adding
      <4>8. OneInserter'
        BY <3>1, <3>3 DEF EventsInv, OneInserter, Inserting, OthersWait
      <4> QED
        BY <4>6, <4>7, <4>8 DEF EventsInv
    <3> QED
      BY <2>11, <3>2, <3>3, CommitEventsStep
  <2>12. ASSUME NEW w \in Workers, GroundedSucceeds(w) \/ GroundedFails(w)
         PROVE  EventsInv'
    <3>1. OthersWait(w) /\ work'[w].pc \in {"grounding", "finishing"}
      BY <2>12, GroundedSucceedsStep, GroundedFailsStep
    <3> QED
      BY <2>12, <3>1, EventsFrame DEF GroundedSucceeds, GroundedFails
  <2>13. ASSUME NEW w \in Workers, Finish(w) \/ Crash(w) PROVE EventsInv'
    <3>1. OthersWait(w) /\ work'[w].pc = "idle"
      BY <2>13, StopStep DEF Finish, Crash
    <3> QED
      BY <2>13, <3>1, EventsFrame DEF Finish, Crash
  <2>14. ASSUME NEW w \in Workers, Settle(w) PROVE EventsInv'
    <3>1. OthersWait(w) /\ work'[w].pc = "idle" /\ work[w].file \in Files
      BY <2>14, StopStep, BusyTask DEF Settle
    <3>2. runs' = runs \/ runs' = [runs EXCEPT ![work[w].file]["parse"] = "failed"]
      BY <2>14 DEF Settle
    <3>3. \A f \in Files : runs'[f]["extract"] = runs[f]["extract"]
      BY <3>1, <3>2, ExtractUntouched
    <3> QED
      BY <2>14, <3>1, <3>3, EventsFrame DEF Settle
  <2>15. CASE UNCHANGED vars
    BY <2>1, <2>15 DEF vars
  <2> QED
    BY <2>2, <2>3, <2>4, <2>5, <2>6, <2>7, <2>8, <2>9, <2>10, <2>11, <2>12, <2>13,
       <2>14, <2>15 DEF Next, Process
<1> QED
  BY <1>1, <1>2, TypeCorrect, PTL DEF Spec

\* However many workers take up the same files, and whatever fails, crashes
\* or is requeued, a file's deterministic events are stored once: EventsOnce
\* holds of every run.
THEOREM EventsStoredOnce == Spec => []EventsOnce
<1>1. EventsInv => EventsOnce
  BY DEF EventsInv, RunMeansEvents, EventsOnce
<1> QED
  BY <1>1, ExtractedOnce, PTL

(***************************************************************************)
(* What a commit stored outlives whatever fails afterwards.                  *)
(***************************************************************************)

\* No step takes back a file's text or its events.
Grows ==
    \A f \in Files :
        /\ text[f] => text'[f]
        /\ events[f] # NoEvents => events'[f] # NoEvents

\* A committed extraction run comes with events.
LEMMA CommittedEvents ==
    ASSUME TypeOK, TypeOK', EventsInv', NEW w \in Workers, work[w].file \in Files,
           runs' = [runs EXCEPT ![work[w].file]["extract"] = "succeeded"]
    PROVE  events'[work[w].file] # NoEvents
<1>1. runs'[work[w].file]["extract"] = "succeeded"
  BY DEF TypeOK, Stages
<1>2. Len(events'[work[w].file]) # 0
  BY <1>1 DEF EventsInv, RunMeansEvents
<1>3. Len(NoEvents) = 0
  BY DEF NoEvents
<1> QED
  BY <1>2, <1>3

\* No step of any actor loses what was stored, be it a rollback, a retry, a
\* requeue or the death of a worker.
LEMMA NothingLost ==
    ASSUME TypeOK, TypeOK', EventsInv', [Next]_vars
    PROVE  Grows
<1> USE DEF database, broker
<1>1. ASSUME UNCHANGED <<text, events>> PROVE Grows
  BY <1>1 DEF Grows
<1>2. ASSUME NEW f \in Files, Upload(f) \/ Requeue(f) \/ Post(f) \/ BrokerDown(f)
      PROVE  Grows
  BY <1>1, <1>2 DEF Upload, Requeue, Post, BrokerDown
<1>3. ASSUME NEW w \in Workers,
             \/ Take(w) \/ InsertParse(w) \/ CommitReplay(w) \/ ParseFails(w)
             \/ FindExtract(w) \/ InsertExtract(w) \/ ExtractFails(w) \/ Evaluate(w)
      PROVE  Grows
  BY <1>1, <1>3 DEF Take, InsertParse, CommitReplay, ParseFails, FindExtract,
                    InsertExtract, ExtractFails, Evaluate
<1>4. ASSUME NEW w \in Workers,
             GroundedSucceeds(w) \/ GroundedFails(w) \/ Finish(w) \/ Settle(w) \/ Crash(w)
      PROVE  Grows
  BY <1>1, <1>4 DEF GroundedSucceeds, GroundedFails, Finish, Settle, Crash
<1>5. ASSUME NEW w \in Workers, CommitParse(w) PROVE Grows
  <2>1. events' = events
    BY <1>5 DEF CommitParse
  <2>2. text' = text \/ text' = [text EXCEPT ![work[w].file] = TRUE]
    BY <1>5, CommitParseStep
  <2> QED
    BY <2>1, <2>2 DEF Grows, TypeOK
<1>6. ASSUME NEW w \in Workers, CommitEvents(w) PROVE Grows
  <2> DEFINE f == work[w].file
  <2>1. f \in Files /\ text' = text
    BY <1>6, BusyTask DEF CommitEvents
  <2>2. CASE events' = events
    BY <2>1, <2>2 DEF Grows
  <2>3. CASE /\ runs' = [runs EXCEPT ![f]["extract"] = "succeeded"]
             /\ events' = [events EXCEPT ![f] = @ \o work[w].batch]
    <3>1. events'[f] # NoEvents
      BY <2>1, <2>3, CommittedEvents
    <3>2. \A g \in Files \ {f} : events'[g] = events[g]
      BY <2>3 DEF TypeOK
    <3> QED
      BY <2>1, <3>1, <3>2 DEF Grows
  <2> QED
    BY <1>6, <2>2, <2>3, CommitEventsStep
<1>7. CASE UNCHANGED vars
  BY <1>1, <1>7 DEF vars
<1> QED
  BY <1>2, <1>3, <1>4, <1>5, <1>6, <1>7 DEF Next, Process

\* Past the first commit a file's text is stored, and a worker that replays it
\* has seen it stored; past the second its events are.
TextStored(w) ==
    work[w].pc \in {"replay", "parsed", "insert_extract", "extracted", "evaluated",
                    "grounding", "finishing"} => text[work[w].file]
EventsStored(w) ==
    work[w].pc \in {"grounding", "finishing"} => events[work[w].file] # NoEvents

DurableInv == \A w \in Workers : TextStored(w) /\ EventsStored(w)

\* It is enough to look at the worker that takes the step.
LEMMA DurableFrame ==
    ASSUME TypeOK, DurableInv, Grows, NEW w \in Workers, OthersWait(w),
           TextStored(w)', EventsStored(w)'
    PROVE  DurableInv'
<1> SUFFICES ASSUME NEW v \in Workers \ {w} PROVE TextStored(v)' /\ EventsStored(v)'
  BY DEF DurableInv
<1>1. work'[v] = work[v]
  BY DEF OthersWait
<1>2. work[v].pc # "idle" => work[v].file \in Files
  BY BusyTask
<1>3. TextStored(v)'
  BY <1>1, <1>2 DEF DurableInv, TextStored, Grows
<1>4. EventsStored(v)'
  BY <1>1, <1>2 DEF DurableInv, EventsStored, Grows
<1> QED
  BY <1>3, <1>4

\* A step that keeps the file, from one step past the first commit to another.
LEMMA DurableStep ==
    ASSUME TypeOK, DurableInv, Grows, NEW w \in Workers, OthersWait(w),
           work'[w].file = work[w].file,
           work[w].pc \in {"replay", "parsed", "insert_extract", "extracted", "evaluated",
                           "grounding", "finishing"},
           EventsStored(w)'
    PROVE  DurableInv'
<1>1. work[w].file \in Files /\ text[work[w].file]
  BY BusyTask DEF DurableInv, TextStored
<1>2. TextStored(w)'
  BY <1>1 DEF TextStored, Grows
<1> QED
  BY <1>2, DurableFrame

LEMMA StoredForGood == Spec => []DurableInv
<1>1. Init => DurableInv
  BY DEF Init, DurableInv, TextStored, EventsStored, Idle
<1>2. TypeOK /\ TypeOK' /\ EventsInv' /\ DurableInv /\ [Next]_vars => DurableInv'
  <2> SUFFICES ASSUME TypeOK, TypeOK', EventsInv', DurableInv, [Next]_vars
               PROVE  DurableInv'
    OBVIOUS
  <2> USE DEF database, broker
  <2>g. Grows
    BY NothingLost
  <2>1. ASSUME UNCHANGED <<work, text, events>> PROVE DurableInv'
    BY <2>1 DEF DurableInv, TextStored, EventsStored
  <2>2. ASSUME NEW f \in Files, Upload(f) \/ Requeue(f) \/ Post(f) \/ BrokerDown(f)
        PROVE  DurableInv'
    BY <2>1, <2>2 DEF Upload, Requeue, Post, BrokerDown
  <2>3. ASSUME NEW w \in Workers, Take(w) PROVE DurableInv'
    <3>1. /\ OthersWait(w) /\ text' = text
          /\ work'[w].pc \in {"insert_parse", "parse", "replay"}
          /\ work'[w].pc = "replay" => text[work'[w].file]
      BY <2>3, TakeStep DEF Take
    <3>2. TextStored(w)' /\ EventsStored(w)'
      BY <3>1 DEF TextStored, EventsStored
    <3> QED
      BY <2>g, <3>1, <3>2, DurableFrame
  <2>4. ASSUME NEW w \in Workers, InsertParse(w) PROVE DurableInv'
    <3>1. /\ OthersWait(w) /\ text' = text
          /\ work'[w].pc \in {"failing", "parse", "replay"}
          /\ work'[w].pc = "replay" => text[work'[w].file]
      BY <2>4, InsertParseStep DEF InsertParse
    <3>2. TextStored(w)' /\ EventsStored(w)'
      BY <3>1 DEF TextStored, EventsStored
    <3> QED
      BY <2>g, <3>1, <3>2, DurableFrame
  <2>5. ASSUME NEW w \in Workers, CommitReplay(w) PROVE DurableInv'
    <3>1. /\ OthersWait(w) /\ work[w].pc = "replay"
          /\ work'[w].pc = "parsed" /\ work'[w].file = work[w].file
      BY <2>5, CommitReplayStep DEF CommitReplay
    <3> QED
      BY <2>g, <3>1, DurableStep DEF EventsStored
  <2>6. ASSUME NEW w \in Workers, CommitParse(w) PROVE DurableInv'
    <3>1. OthersWait(w) /\ work[w].file \in Files
      BY <2>6, CommitParseStep, BusyTask DEF CommitParse
    <3>2. CASE work'[w].pc = "failing"
      BY <2>g, <3>1, <3>2, DurableFrame DEF TextStored, EventsStored
    <3>3. CASE /\ work'[w].pc = "parsed" /\ work'[w].file = work[w].file
               /\ text' = [text EXCEPT ![work[w].file] = TRUE]
      <4>1. text'[work'[w].file]
        BY <3>1, <3>3 DEF TypeOK
      <4>2. TextStored(w)' /\ EventsStored(w)'
        BY <3>3, <4>1 DEF TextStored, EventsStored
      <4> QED
        BY <2>g, <3>1, <4>2, DurableFrame
    <3> QED
      BY <2>6, <3>2, <3>3, CommitParseStep
  <2>7. ASSUME NEW w \in Workers, ParseFails(w) \/ ExtractFails(w) PROVE DurableInv'
    <3>1. OthersWait(w) /\ work'[w].pc = "failing"
      BY <2>7, RaiseStep DEF ParseFails, ExtractFails
    <3> QED
      BY <2>g, <3>1, DurableFrame DEF TextStored, EventsStored
  <2>8. ASSUME NEW w \in Workers, FindExtract(w) PROVE DurableInv'
    <3>1. /\ OthersWait(w) /\ work[w].pc = "parsed" /\ work'[w].file = work[w].file
          /\ work'[w].pc \in {"insert_extract", "extracted"}
      BY <2>8, FindExtractStep DEF FindExtract
    <3> QED
      BY <2>g, <3>1, DurableStep, SMTT(30) DEF EventsStored
  <2>9. ASSUME NEW w \in Workers, InsertExtract(w) PROVE DurableInv'
    <3>1. OthersWait(w) /\ work[w].pc = "insert_extract"
      BY <2>9, InsertExtractStep DEF InsertExtract
    <3>2. CASE work'[w].pc = "failing"
      BY <2>g, <3>1, <3>2, DurableFrame DEF TextStored, EventsStored
    <3>3. CASE work'[w].pc = "extracted" /\ work'[w].file = work[w].file
      BY <2>g, <3>1, <3>3, DurableStep DEF EventsStored
    <3> QED
      BY <2>9, <3>2, <3>3, InsertExtractStep
  <2>10. ASSUME NEW w \in Workers, Evaluate(w) PROVE DurableInv'
    <3>1. /\ OthersWait(w) /\ work[w].pc = "extracted"
          /\ work'[w].pc = "evaluated" /\ work'[w].file = work[w].file
      BY <2>10, EvaluateStep DEF Evaluate
    <3> QED
      BY <2>g, <3>1, DurableStep DEF EventsStored
  <2>11. ASSUME NEW w \in Workers, CommitEvents(w) PROVE DurableInv'
    <3>1. OthersWait(w) /\ work[w].pc = "evaluated" /\ work[w].file \in Files
      BY <2>11, CommitEventsStep, BusyTask DEF CommitEvents
    <3>2. CASE work'[w].pc = "failing"
      BY <2>g, <3>1, <3>2, DurableFrame DEF TextStored, EventsStored
    <3>3. CASE /\ work'[w].pc = "grounding" /\ work'[w].file = work[w].file
               /\ runs' = [runs EXCEPT ![work[w].file]["extract"] = "succeeded"]
      <4>1. events'[work'[w].file] # NoEvents
        BY <3>1, <3>3, CommittedEvents
      <4> QED
        BY <2>g, <3>1, <3>3, <4>1, DurableStep DEF EventsStored
    <3> QED
      BY <2>11, <3>2, <3>3, CommitEventsStep
  <2>12. ASSUME NEW w \in Workers, GroundedSucceeds(w) \/ GroundedFails(w)
         PROVE  DurableInv'
    <3>1. /\ OthersWait(w) /\ work[w].pc = "grounding" /\ work'[w].file = work[w].file
          /\ events' = events
      BY <2>12, GroundedSucceedsStep, GroundedFailsStep DEF GroundedSucceeds, GroundedFails
    <3>2. EventsStored(w)'
      BY <3>1 DEF DurableInv, EventsStored
    <3> QED
      BY <2>g, <3>1, <3>2, DurableStep
  <2>13. ASSUME NEW w \in Workers, Finish(w) \/ Settle(w) \/ Crash(w) PROVE DurableInv'
    <3>1. OthersWait(w) /\ work'[w].pc = "idle"
      BY <2>13, StopStep DEF Finish, Settle, Crash
    <3> QED
      BY <2>g, <3>1, DurableFrame DEF TextStored, EventsStored
  <2>14. CASE UNCHANGED vars
    BY <2>1, <2>14 DEF vars
  <2> QED
    BY <2>2, <2>3, <2>4, <2>5, <2>6, <2>7, <2>8, <2>9, <2>10, <2>11, <2>12, <2>13,
       <2>14 DEF Next, Process
<1> QED
  BY <1>1, <1>2, TypeCorrect, ExtractedOnce, PTL DEF Spec

\* ExtractionDurable holds of every run: a worker past the first commit has
\* its file's text stored, one past the second its events, though another
\* worker may fail, roll back, crash or start the same file over meanwhile.
THEOREM ExtractionStaysDurable == Spec => []ExtractionDurable
<1>1. DurableInv => ExtractionDurable
  BY DEF DurableInv, TextStored, EventsStored, ExtractionDurable
<1> QED
  BY <1>1, StoredForGood, PTL

(***************************************************************************)
(* A file's status is earned.                                               *)
(***************************************************************************)

\* Writing a status other than the two final ones, or the one that is there,
\* claims nothing new.
LEMMA HarmlessStatus ==
    ASSUME TypeOK, StatusIsEarned, Grows, NEW f \in Files, NEW s,
           s \notin {"completed", "failed"} \/ s = row[f].status, cleared' = cleared,
           row' = [row EXCEPT ![f].status = s]
    PROVE  StatusIsEarned'
<1>1. \A g \in Files \ {f} : row'[g] = row[g]
  BY DEF TypeOK
<1>2. row'[f].status = s /\ row'[f].reason = row[f].reason
  BY DEF TypeOK
<1>3. \A g \in Files : row'[g].status \in {"completed", "failed"}
                          => row[g].status = row'[g].status /\ row[g].reason = row'[g].reason
  BY <1>1, <1>2
<1>4. ASSUME NEW g \in Files
      PROVE  /\ row'[g].status = "completed" => text'[g] /\ events'[g] # NoEvents
             /\ row'[g].status = "failed" => row'[g].reason # "none" \/ g \in cleared'
  <2>1. ASSUME row'[g].status = "completed" PROVE text'[g] /\ events'[g] # NoEvents
    <3>1. row[g].status = "completed"
      BY <2>1, <1>3
    <3>2. text[g] /\ events[g] # NoEvents
      BY <3>1 DEF StatusIsEarned
    <3> QED
      BY <3>2 DEF Grows
  <2>2. ASSUME row'[g].status = "failed" PROVE row'[g].reason # "none" \/ g \in cleared'
    <3>1. row[g].status = "failed" /\ row[g].reason = row'[g].reason
      BY <2>2, <1>3
    <3>2. row[g].reason # "none" \/ g \in cleared
      BY <3>1 DEF StatusIsEarned
    <3> QED
      BY <3>1, <3>2
  <2> QED
    BY <2>1, <2>2
<1> QED
  BY <1>4, Zenon DEF StatusIsEarned

\* A failure handler that has loaded a reason finds one in the row, or the file
\* was requeued while it was at work.
HandlersKnow ==
    \A w \in Workers :
        work[w].pc = "failing" =>
            \/ work[w].told = "none"
            \/ row[work[w].file].reason # "none"
            \/ work[w].file \in cleared

\* A worker's step takes no reason away, and if it ends in the handler, the
\* handler has just looked at the row.
LEMMA HandlersFrame ==
    ASSUME TypeOK, HandlersKnow, NEW w \in Workers, OthersWait(w), cleared' = cleared,
           \A f \in Files : row[f].reason # "none" => row'[f].reason # "none",
           work'[w].pc = "failing" => LooksAtRow(w) /\ row' = row
    PROVE  HandlersKnow'
<1> SUFFICES ASSUME NEW v \in Workers, work'[v].pc = "failing"
             PROVE  \/ work'[v].told = "none"
                    \/ row'[work'[v].file].reason # "none"
                    \/ work'[v].file \in cleared'
  BY DEF HandlersKnow
<1>1. CASE v = w
  BY <1>1 DEF LooksAtRow
<1>2. CASE v # w
  <2>1. work'[v] = work[v] /\ work[v].pc = "failing"
    BY <1>2 DEF OthersWait
  <2>2. work[v].file \in Files
    BY <2>1, BusyTask
  <2> QED
    BY <2>1, <2>2 DEF HandlersKnow
<1> QED
  BY <1>1, <1>2

EarnedInv == StatusIsEarned /\ HandlersKnow

\* StatusIsEarned holds of every run: a file is shown as completed only with
\* text and events stored, whichever of several overlapping runs wrote the
\* status last, and as failed only with a reason unless it was requeued under a
\* failure handler's hands.
THEOREM StatusEarned == Spec => []StatusIsEarned
<1>1. Init => EarnedInv
  <2> SUFFICES ASSUME Init PROVE EarnedInv
    OBVIOUS
  <2>1. \A f \in Files : row[f].status = "none"
    BY DEF Init
  <2>2. \A w \in Workers : work[w].pc = "idle"
    BY DEF Init, Idle
  <2> QED
    BY <2>1, <2>2 DEF EarnedInv, StatusIsEarned, HandlersKnow
<1>2. TypeOK /\ TypeOK' /\ EventsInv' /\ DurableInv /\ EarnedInv /\ [Next]_vars => EarnedInv'
  <2> SUFFICES ASSUME TypeOK, TypeOK', EventsInv', DurableInv, EarnedInv, [Next]_vars
               PROVE  EarnedInv'
    OBVIOUS
  <2> USE DEF database, broker
  <2>g. Grows /\ StatusIsEarned /\ HandlersKnow
    BY NothingLost DEF EarnedInv
  <2>1. ASSUME row' = row, cleared' = cleared PROVE StatusIsEarned'
    BY <2>1, <2>g DEF StatusIsEarned, Grows
  <2>h. ASSUME NEW w \in Workers, OthersWait(w), work'[w].pc # "failing", cleared' = cleared,
               row' = row \/ \E s : row' = [row EXCEPT ![work[w].file].status = s]
        PROVE  HandlersKnow'
    <3>1. \A f \in Files : row[f].reason # "none" => row'[f].reason # "none"
      <4>1. CASE row' = row
        BY <4>1
      <4>2. CASE \E s : row' = [row EXCEPT ![work[w].file].status = s]
        BY <4>2 DEF TypeOK
      <4> QED
        BY <2>h, <4>1, <4>2
    <3> QED
      BY <2>g, <2>h, <3>1, HandlersFrame
  <2>2. ASSUME NEW f \in Files, Upload(f) \/ Requeue(f) PROVE EarnedInv'
    <3>1. work' = work
      BY <2>2 DEF Upload, Requeue
    <3>2. row'[f].status = "queued" /\ \A g \in Files \ {f} : row'[g] = row[g]
      BY <2>2 DEF Upload, Requeue, TypeOK
    <3>3. \A g \in Files \ {f} : g \in cleared => g \in cleared'
      BY <2>2 DEF Upload, Requeue, Clear
    <3>4. StatusIsEarned'
      BY <2>g, <3>2, <3>3 DEF StatusIsEarned, Grows
    <3>5. ASSUME NEW w \in Workers, work'[w].pc = "failing"
          PROVE  \/ work'[w].told = "none"
                 \/ row'[work'[w].file].reason # "none"
                 \/ work'[w].file \in cleared'
      <4>1. work[w].file \in Files /\ work[w].pc = "failing" /\ work'[w] = work[w]
        BY <3>1, <3>5, BusyTask
      <4>2. CASE work[w].file # f
        BY <2>g, <3>2, <3>3, <4>1, <4>2 DEF HandlersKnow
      <4>3. CASE work[w].file = f /\ Requeue(f)
        BY <4>1, <4>3 DEF Requeue, Clear
      <4>4. CASE work[w].file = f /\ Upload(f)
        <5>1. row'[f].reason = row[f].reason /\ cleared' = cleared
          BY <4>4 DEF Upload, TypeOK
        <5> QED
          BY <2>g, <4>1, <4>4, <5>1 DEF HandlersKnow
      <4> QED
        BY <2>2, <4>2, <4>3, <4>4
    <3> QED
      BY <3>4, <3>5 DEF EarnedInv, HandlersKnow
  <2>3. ASSUME NEW f \in Files, Post(f) \/ BrokerDown(f) PROVE EarnedInv'
    BY <2>1, <2>3, <2>g DEF Post, BrokerDown, EarnedInv, HandlersKnow
  <2>4. ASSUME NEW w \in Workers,
               \/ Take(w) \/ InsertParse(w) \/ CommitReplay(w) \/ ParseFails(w)
               \/ FindExtract(w) \/ InsertExtract(w) \/ ExtractFails(w) \/ Evaluate(w)
               \/ GroundedSucceeds(w) \/ GroundedFails(w) \/ Crash(w)
        PROVE  EarnedInv'
    <3>1. row' = row /\ cleared' = cleared
      BY <2>4 DEF Take, InsertParse, CommitReplay, ParseFails, FindExtract,
                  InsertExtract, ExtractFails, Evaluate, GroundedSucceeds,
                  GroundedFails, Crash
    <3>2. OthersWait(w) /\ (work'[w].pc = "failing" => LooksAtRow(w))
      <4>1. CASE Take(w) \/ CommitReplay(w) \/ FindExtract(w) \/ Evaluate(w)
        BY <4>1, TakeStep, CommitReplayStep, FindExtractStep, EvaluateStep
      <4>2. CASE InsertParse(w) \/ InsertExtract(w)
        BY <4>2, InsertParseStep, InsertExtractStep
      <4>3. CASE ParseFails(w)
        BY <4>3, RaiseStep DEF ParseFails
      <4>4. CASE ExtractFails(w)
        BY <4>4, RaiseStep DEF ExtractFails
      <4>5. CASE GroundedSucceeds(w) \/ GroundedFails(w)
        BY <4>5, GroundedSucceedsStep, GroundedFailsStep
      <4>6. CASE Crash(w)
        BY <4>6, StopStep DEF Crash
      <4> QED
        BY <2>4, <4>1, <4>2, <4>3, <4>4, <4>5, <4>6
    <3>3. HandlersKnow'
      BY <2>g, <3>1, <3>2, HandlersFrame
    <3> QED
      BY <2>1, <3>1, <3>3 DEF EarnedInv
  <2>5. ASSUME NEW w \in Workers, CommitParse(w) PROVE EarnedInv'
    <3> DEFINE s == Assigned(row[work[w].file].status, work[w].seen, "processing")
    <3>1. work[w].file \in Files
      BY <2>5, BusyTask DEF CommitParse
    <3>2. s \notin {"completed", "failed"} \/ s = row[work[w].file].status
      BY DEF Assigned
    <3>3. row' = row \/ row' = [row EXCEPT ![work[w].file].status = s]
      BY <2>5, CommitParseStep
    <3>4. /\ OthersWait(w) /\ cleared' = cleared /\ LooksAtRow(w)
          /\ work'[w].pc = "failing" => row' = row
      BY <2>5, CommitParseStep DEF CommitParse
    <3> HIDE DEF s
    <3>5. StatusIsEarned'
      BY <2>1, <2>g, <3>1, <3>2, <3>3, <3>4, HarmlessStatus
    <3>6. HandlersKnow'
      BY <2>g, <2>h, <3>3, <3>4, HandlersFrame
    <3> QED
      BY <3>5, <3>6 DEF EarnedInv
  <2>6. ASSUME NEW w \in Workers, CommitEvents(w) PROVE EarnedInv'
    <3>1. work[w].file \in Files
      BY <2>6, BusyTask DEF CommitEvents
    <3>4. OthersWait(w) /\ cleared' = cleared /\ LooksAtRow(w)
      BY <2>6, CommitEventsStep DEF CommitEvents
    <3>2. CASE work'[w].pc = "failing" /\ row' = row
      <4>1. HandlersKnow'
        BY <2>g, <3>2, <3>4, HandlersFrame
      <4> QED
        BY <2>1, <3>2, <3>4, <4>1 DEF EarnedInv
    <3>3. CASE /\ work'[w].pc = "grounding"
               /\ \E s \in (Statuses \ {"completed", "failed"}) \cup {row[work[w].file].status} :
                     row' = [row EXCEPT ![work[w].file].status = s]
      <4>1. PICK s \in (Statuses \ {"completed", "failed"}) \cup {row[work[w].file].status} :
               row' = [row EXCEPT ![work[w].file].status = s]
        BY <3>3
      <4>2. StatusIsEarned'
        BY <2>g, <3>1, <3>4, <4>1, HarmlessStatus
      <4>3. HandlersKnow'
        BY <2>h, <3>3, <3>4, <4>1
      <4> QED
        BY <4>2, <4>3 DEF EarnedInv
    <3> QED
      BY <2>6, <3>2, <3>3, CommitEventsStep
  <2>7. ASSUME NEW w \in Workers, Finish(w) PROVE EarnedInv'
    <3> DEFINE f == work[w].file
               local == IF work[w].seen = "expired" THEN row[f].status ELSE work[w].seen
               s == Assigned(row[f].status, local, "completed")
    <3>1. f \in Files /\ text[f] /\ events[f] # NoEvents
      BY <2>7, BusyTask DEF Finish, DurableInv, TextStored, EventsStored
    <3>2. s \in {"completed", row[f].status}
      BY DEF Assigned
    <3>3. row' = row \/ row' = [row EXCEPT ![f].status = s]
      BY <2>7 DEF Finish
    <3>6. OthersWait(w) /\ cleared' = cleared /\ work'[w].pc = "idle"
      BY <2>7, StopStep DEF Finish
    <3>7. HandlersKnow'
      BY <2>h, <3>3, <3>6
    <3> HIDE DEF s, f
    <3>4. CASE s = row[f].status /\ row' = [row EXCEPT ![f].status = s]
      BY <2>g, <3>1, <3>4, <3>6, <3>7, HarmlessStatus DEF EarnedInv
    <3>5. CASE s = "completed" /\ row' = [row EXCEPT ![f].status = s]
      <4>1. \A g \in Files \ {f} : row'[g] = row[g]
        BY <3>5 DEF TypeOK
      <4>2. row'[f].status = "completed"
        BY <3>1, <3>5 DEF TypeOK
      <4> QED
        BY <2>g, <3>1, <3>6, <3>7, <4>1, <4>2 DEF EarnedInv, StatusIsEarned, Grows
    <3> QED
      BY <2>1, <3>2, <3>3, <3>4, <3>5, <3>6, <3>7 DEF EarnedInv
  <2>8. ASSUME NEW w \in Workers, Settle(w) PROVE EarnedInv'
    <3> DEFINE f == work[w].file
    <3>1. f \in Files /\ work[w] \in Tasks /\ work[w].pc = "failing"
      BY <2>8, BusyTask DEF Settle
    <3>2. OthersWait(w) /\ cleared' = cleared /\ work'[w].pc = "idle"
      BY <2>8, StopStep DEF Settle
    <3>3. CASE row' = row
      BY <2>1, <2>h, <3>2, <3>3 DEF EarnedInv
    <3>4. CASE \E said \in Reasons : row' = [row EXCEPT ![f] = Failed(@, work[w], said)]
      <4>1. PICK said \in Reasons : row' = [row EXCEPT ![f] = Failed(@, work[w], said)]
        BY <3>4
      <4> DEFINE r == Failed(row[f], work[w], said)
      <4>2. /\ r.status \in {"failed", row[f].status}
            /\ r.reason \in Reasons \/ (work[w].told \in Reasons /\ r.reason = row[f].reason)
        BY <3>1, FailedRow
      <4> HIDE DEF r
      <4>3. row'[f] = r /\ \A g \in Files \ {f} : row'[g] = row[g]
        BY <3>1, <4>1 DEF TypeOK, r
      <4>4. "none" \notin Reasons
        BY DEF Reasons
      <4>5. row'[f].reason # "none" \/ f \in cleared'
        BY <2>g, <3>1, <3>2, <4>2, <4>3, <4>4 DEF HandlersKnow
      <4>6. \A g \in Files : row[g].reason # "none" => row'[g].reason # "none"
        BY <4>2, <4>3, <4>4
      <4>7. HandlersKnow'
        BY <2>g, <3>2, <4>6, HandlersFrame
      <4>8. ASSUME NEW g \in Files
            PROVE  /\ row'[g].status = "completed" => text'[g] /\ events'[g] # NoEvents
                   /\ row'[g].status = "failed" => row'[g].reason # "none" \/ g \in cleared'
        <5>1. row'[g].status = "completed" => row[g].status = "completed"
          BY <4>2, <4>3
        <5> QED
          BY <2>g, <3>2, <4>3, <4>5, <5>1 DEF StatusIsEarned, Grows
      <4> QED
        BY <4>7, <4>8, Zenon DEF EarnedInv, StatusIsEarned
    <3> QED
      BY <2>8, <3>3, <3>4 DEF Settle
  <2>9. CASE UNCHANGED vars
    BY <2>1, <2>9, <2>g DEF vars, EarnedInv, HandlersKnow
  <2> QED
    BY <2>2, <2>3, <2>4, <2>5, <2>6, <2>7, <2>8, <2>9 DEF Next, Process
<1>3. EarnedInv => StatusIsEarned
  BY DEF EarnedInv
<1> QED
  BY <1>1, <1>2, <1>3, TypeCorrect, ExtractedOnce, StoredForGood, PTL DEF Spec

(***************************************************************************)
(* A picture stays one document.                                            *)
(***************************************************************************)

\* Events of this file, if it is a picture, are those of one document.
OneDocument(f, batch) ==
    Kind[f] = OCR_RECORD_TYPE => \A i \in DOMAIN batch : batch[i] = OCR_RECORD_TYPE

\* So are the events a worker has flushed for it and not committed.
PicturesInv ==
    /\ PictureStaysOneDocument
    /\ \A w \in Workers : Adding(w) => OneDocument(work[w].file, work[w].batch)

\* Two lists of one value, put together, are a list of that value.
LEMMA JoinedAlike ==
    \A a, b \in Seq(RecordTypes) : \A v \in RecordTypes :
        (\A j \in DOMAIN a : a[j] = v) /\ (\A j \in DOMAIN b : b[j] = v)
            => \A i \in DOMAIN (a \o b) : (a \o b)[i] = v
<1> SUFFICES ASSUME NEW a \in Seq(RecordTypes), NEW b \in Seq(RecordTypes),
                    NEW v \in RecordTypes, NEW i \in DOMAIN (a \o b),
                    \A j \in DOMAIN a : a[j] = v, \A j \in DOMAIN b : b[j] = v
             PROVE  (a \o b)[i] = v
  OBVIOUS
<1> DEFINE n == Len(a)
           m == Len(b)
<1>1. n \in Nat /\ m \in Nat /\ DOMAIN a = 1..n /\ DOMAIN b = 1..m
  BY LenProperties
<1>2. a \o b \in Seq(RecordTypes) /\ Len(a \o b) = n + m
  BY ConcatProperties
<1>3. i \in 1..(n + m)
  BY <1>2, LenProperties
<1>4. (a \o b)[i] = IF i <= n THEN a[i] ELSE b[i - n]
  BY <1>2, <1>3, ConcatProperties
<1> HIDE DEF n, m
<1>5. CASE i <= n
  BY <1>1, <1>3, <1>4, <1>5
<1>6. CASE i > n
  <2>1. i - n \in 1..m
    BY <1>1, <1>3, <1>6
  <2>2. ~(i <= n)
    BY <1>1, <1>3, <1>6
  <2> QED
    BY <1>1, <1>4, <2>1, <2>2
<1> QED
  BY <1>1, <1>3, <1>5, <1>6

\* Stored text that is read back is known for a picture's.
LEMMA BatchOfAPicture ==
    ASSUME NEW w \in Workers
    PROVE  OneDocument(work[w].file, Batch(w))
<1> SUFFICES ASSUME Kind[work[w].file] = OCR_RECORD_TYPE, NEW i \in DOMAIN Batch(w)
             PROVE  Batch(w)[i] = OCR_RECORD_TYPE
  BY DEF OneDocument
<1>1. Replayed(Kind[work[w].file]) = OCR_RECORD_TYPE
  BY DEF Replayed
<1>2. Batch(w) = <<>> \/ Batch(w) = <<OCR_RECORD_TYPE>>
  BY <1>1 DEF Batch, NoEvents
<1>3. DOMAIN <<>> = {} /\ DOMAIN <<OCR_RECORD_TYPE>> = {1}
  OBVIOUS
<1> QED
  BY <1>2, <1>3

\* A step that adds no events, and after which its worker has none to add.
LEMMA PicturesFrame ==
    ASSUME TypeOK, PicturesInv, NEW w \in Workers, OthersWait(w), events' = events,
           Adding(w)' => OneDocument(work[w].file, work[w].batch)'
    PROVE  PicturesInv'
<1>1. PictureStaysOneDocument'
  BY DEF PicturesInv, PictureStaysOneDocument
<1>2. ASSUME NEW v \in Workers, Adding(v)' PROVE OneDocument(work[v].file, work[v].batch)'
  <2>1. CASE v = w
    BY <1>2, <2>1
  <2>2. CASE v # w
    <3>1. work'[v] = work[v]
      BY <2>2 DEF OthersWait
    <3>2. Adding(v)
      BY <1>2, <3>1 DEF Adding
    <3> QED
      BY <3>1, <3>2 DEF PicturesInv, OneDocument
  <2> QED
    BY <2>1, <2>2
<1> QED
  BY <1>1, <1>2 DEF PicturesInv

LEMMA PicturesHold == Spec => []PicturesInv
<1>1. Init => PicturesInv
  BY DEF Init, PicturesInv, PictureStaysOneDocument, Adding, Idle, NoEvents
<1>2. TypeOK /\ PicturesInv /\ [Next]_vars => PicturesInv'
  <2> SUFFICES ASSUME TypeOK, PicturesInv, [Next]_vars PROVE PicturesInv'
    OBVIOUS
  <2> USE DEF database, broker
  <2>1. ASSUME UNCHANGED <<work, events>> PROVE PicturesInv'
    BY <2>1 DEF PicturesInv, PictureStaysOneDocument, Adding, OneDocument
  <2>2. ASSUME NEW f \in Files, Upload(f) \/ Requeue(f) \/ Post(f) \/ BrokerDown(f)
        PROVE  PicturesInv'
    BY <2>1, <2>2 DEF Upload, Requeue, Post, BrokerDown
  <2>3. ASSUME NEW w \in Workers,
               \/ Take(w) \/ InsertParse(w) \/ CommitReplay(w) \/ CommitParse(w)
               \/ ParseFails(w) \/ ExtractFails(w)
               \/ GroundedSucceeds(w) \/ GroundedFails(w)
               \/ Finish(w) \/ Settle(w) \/ Crash(w)
        PROVE  PicturesInv'
    <3>1. OthersWait(w) /\ ~Adding(w)'
      <4>1. CASE Take(w)
        BY <4>1, TakeStep DEF Adding
      <4>2. CASE InsertParse(w) \/ CommitReplay(w) \/ CommitParse(w)
        BY <4>2, InsertParseStep, CommitReplayStep, CommitParseStep DEF Adding
      <4>3. CASE ParseFails(w) \/ ExtractFails(w)
        BY <4>3, RaiseStep DEF ParseFails, ExtractFails, Adding
      <4>4. CASE GroundedSucceeds(w) \/ GroundedFails(w)
        BY <4>4, GroundedSucceedsStep, GroundedFailsStep DEF Adding
      <4>5. CASE Finish(w) \/ Settle(w) \/ Crash(w)
        BY <4>5, StopStep DEF Finish, Settle, Crash, Adding
      <4> QED
        BY <2>3, <4>1, <4>2, <4>3, <4>4, <4>5
    <3>2. events' = events
      BY <2>3 DEF Take, InsertParse, CommitReplay, CommitParse, ParseFails, ExtractFails,
                  GroundedSucceeds, GroundedFails, Finish, Settle, Crash
    <3> QED
      BY <3>1, <3>2, PicturesFrame
  <2>4. ASSUME NEW w \in Workers, FindExtract(w) \/ InsertExtract(w) PROVE PicturesInv'
    <3>1. /\ OthersWait(w) /\ events' = events
          /\ Adding(w)' => work'[w].file = work[w].file /\ work'[w].batch = Batch(w)
      BY <2>4, FindExtractStep, InsertExtractStep DEF FindExtract, InsertExtract, Adding
    <3>2. Adding(w)' => OneDocument(work[w].file, work[w].batch)'
      BY <3>1, BatchOfAPicture DEF OneDocument
    <3> QED
      BY <3>1, <3>2, PicturesFrame
  <2>5. ASSUME NEW w \in Workers, Evaluate(w) PROVE PicturesInv'
    <3>1. /\ OthersWait(w) /\ events' = events /\ Adding(w)
          /\ work'[w].file = work[w].file /\ work'[w].batch = work[w].batch
      BY <2>5, EvaluateStep DEF Evaluate, Adding
    <3>2. OneDocument(work[w].file, work[w].batch)'
      BY <3>1 DEF PicturesInv, OneDocument
    <3> QED
      BY <3>1, <3>2, PicturesFrame
  <2>6. ASSUME NEW w \in Workers, CommitEvents(w) PROVE PicturesInv'
    <3> DEFINE f == work[w].file
    <3>1. f \in Files /\ work[w] \in Tasks /\ Adding(w) /\ OthersWait(w)
      BY <2>6, BusyTask, CommitEventsStep DEF CommitEvents, Adding
    <3>2. CASE work'[w].pc = "failing" /\ events' = events
      BY <3>1, <3>2, PicturesFrame DEF Adding
    <3>3. CASE /\ work'[w].pc = "grounding"
               /\ events' = [events EXCEPT ![f] = @ \o work[w].batch]
      <4>1. PictureStaysOneDocument'
        <5> SUFFICES ASSUME NEW g \in Files, Kind[g] = OCR_RECORD_TYPE,
                            NEW i \in DOMAIN events'[g]
                     PROVE  events'[g][i] = OCR_RECORD_TYPE
          BY DEF PictureStaysOneDocument
        <5>1. CASE g # f
          BY <3>3, <5>1 DEF TypeOK, PicturesInv, PictureStaysOneDocument
        <5>2. CASE g = f
          <6> PICK old : old = events[f]
            OBVIOUS
          <6> PICK new : new = work[w].batch
            OBVIOUS
          <6>0. OCR_RECORD_TYPE \in RecordTypes
            BY DEF RecordTypes
          <6>1. old \in Seq(RecordTypes) /\ new \in Seq(RecordTypes)
            BY <3>1 DEF TypeOK, Tasks
          <6>2. events'[g] = old \o new
            BY <3>1, <3>3, <5>2 DEF TypeOK
          <6>3. /\ \A j \in DOMAIN old : old[j] = OCR_RECORD_TYPE
                /\ \A j \in DOMAIN new : new[j] = OCR_RECORD_TYPE
            BY <3>1, <5>2, <6>1 DEF PicturesInv, PictureStaysOneDocument, OneDocument
          <6> HIDE DEF f
          <6>4. \A v \in RecordTypes :
                   (\A j \in DOMAIN old : old[j] = v) /\ (\A j \in DOMAIN new : new[j] = v)
                       => \A j \in DOMAIN (old \o new) : (old \o new)[j] = v
            BY <6>1, JoinedAlike
          <6>5. \A j \in DOMAIN (old \o new) : (old \o new)[j] = OCR_RECORD_TYPE
            BY <6>0, <6>3, <6>4, Zenon
          <6> QED
            BY <5>2, <6>2, <6>5
        <5> QED
          BY <5>1, <5>2
      <4>2. \A v \in Workers : Adding(v)' => v # w /\ work'[v] = work[v] /\ Adding(v)
        BY <3>1, <3>3 DEF OthersWait, Adding
      <4>3. \A v \in Workers : Adding(v)' => OneDocument(work[v].file, work[v].batch)'
        BY <4>2 DEF PicturesInv, OneDocument
      <4> QED
        BY <4>1, <4>3 DEF PicturesInv
    <3> QED
      BY <2>6, <3>2, <3>3, CommitEventsStep
  <2>7. CASE UNCHANGED vars
    BY <2>1, <2>7 DEF vars
  <2> QED
    BY <2>2, <2>3, <2>4, <2>5, <2>6, <2>7 DEF Next, Process
<1> QED
  BY <1>1, <1>2, TypeCorrect, PTL DEF Spec

\* PictureStaysOneDocument holds of every run, for any number of workers: the
\* attempt that stores a picture's events may have parsed it or read its text
\* back after another attempt failed, and stores one document either way.
THEOREM PicturesStayWhole == Spec => []PictureStaysOneDocument
<1>1. PicturesInv => PictureStaysOneDocument
  BY DEF PicturesInv
<1> QED
  BY <1>1, PicturesHold, PTL

(***************************************************************************)
(* No lead is missed, if one worker processes the files. Two workers that    *)
(* commit the two files of a lead do not see each other's events, and        *)
(* neither raises it.                                                       *)
(***************************************************************************)

\* There is one worker at the most.
Alone == \A v \in Workers : \A w \in Workers : v = w

\* What the rules see when worker w looks: the committed events and its own.
Visible(w) == [events EXCEPT ![work[w].file] = @ \o work[w].batch]

\* Every lead the events support is stored; every lead they will support once
\* a worker commits is stored or about to be.
LeadsInv ==
    /\ Raised(events) \subseteq alerts
    /\ \A w \in Workers :
          work[w].pc = "evaluated" => Raised(Visible(w)) \subseteq alerts \cup work[w].leads

\* The leads a worker comes away with.
LEMMA LeadsFound ==
    ASSUME TypeOK, NEW w \in Workers, Evaluate(w)
    PROVE  work'[w].leads = Raised(Visible(w)) \ alerts
<1> DEFINE raised == Raised(Visible(w)) \ alerts
           a == [work[w] EXCEPT !.pc = "evaluated"]
           b == [a EXCEPT !.leads = raised]
<1>1. work[w] \in Tasks
  BY DEF TypeOK
<1>2. work' = [work EXCEPT ![w] = Evaluated(@, raised)]
  BY Zenon DEF Evaluate, Visible
<1> HIDE DEF raised
<1>3. work' = [work EXCEPT ![w] = b]
  BY <1>2 DEF Evaluated
<1>4. a \in Tasks
  BY <1>1 DEF Tasks, Steps
<1> HIDE DEF a
<1>5. b.leads = raised
  BY <1>4 DEF Tasks
<1> HIDE DEF b
<1>6. work'[w] = b
  BY <1>3 DEF TypeOK
<1> QED
  BY <1>5, <1>6 DEF raised

\* A step that stores no events and no leads, and after which its worker has
\* found none.
LEMMA LeadsFrame ==
    ASSUME Alone, LeadsInv, NEW w \in Workers, work'[w].pc # "evaluated",
           UNCHANGED <<events, alerts>>
    PROVE  LeadsInv'
<1>1. (Raised(events) \subseteq alerts)'
  BY DEF LeadsInv, Raised, Typed
<1>2. \A v \in Workers : work'[v].pc # "evaluated"
  BY DEF Alone
<1> QED
  BY <1>1, <1>2 DEF LeadsInv

LEMMA LeadsHold == Alone => (Spec => []LeadsInv)
<1> SUFFICES ASSUME Alone PROVE Spec => []LeadsInv
  OBVIOUS
<1>1. Init => LeadsInv
  <2> SUFFICES ASSUME Init PROVE LeadsInv
    OBVIOUS
  <2>1. \A w \in Workers : work[w].pc = "idle"
    BY DEF Init, Idle
  <2>2. Typed(events) = {}
    BY DEF Init, Typed, NoEvents
  <2>3. Raised(events) = {}
    <3> SUFFICES ASSUME NEW k \in Leads, NEW fs \in Basis[k], fs \subseteq Typed(events)
                 PROVE  FALSE
      BY DEF Raised
    <3>1. fs = {}
      BY <2>2
    <3> QED
      BY <3>1, PipelineAssumption
  <2> QED
    BY <2>1, <2>3 DEF LeadsInv
<1>2. TypeOK /\ LeadsInv /\ [Next]_vars => LeadsInv'
  <2> SUFFICES ASSUME TypeOK, LeadsInv, [Next]_vars PROVE LeadsInv'
    OBVIOUS
  <2> USE DEF database, broker
  <2>1. ASSUME UNCHANGED <<work, events, alerts>> PROVE LeadsInv'
    <3>1. \A w \in Workers : Visible(w)' = Visible(w) /\ work'[w] = work[w]
      BY <2>1 DEF Visible
    <3>2. \A w \in Workers : Raised(Visible(w))' = Raised(Visible(w))
      BY <3>1 DEF Raised, Typed
    <3>3. Raised(events)' = Raised(events)
      BY <2>1 DEF Raised, Typed
    <3> QED
      BY <2>1, <3>1, <3>2, <3>3 DEF LeadsInv
  <2>2. ASSUME NEW f \in Files, Upload(f) \/ Requeue(f) \/ Post(f) \/ BrokerDown(f)
        PROVE  LeadsInv'
    BY <2>1, <2>2 DEF Upload, Requeue, Post, BrokerDown
  <2>3. ASSUME NEW w \in Workers,
               \/ Take(w) \/ InsertParse(w) \/ CommitReplay(w) \/ CommitParse(w)
               \/ ParseFails(w) \/ FindExtract(w) \/ InsertExtract(w) \/ ExtractFails(w)
               \/ GroundedSucceeds(w) \/ GroundedFails(w)
               \/ Finish(w) \/ Settle(w) \/ Crash(w)
        PROVE  LeadsInv'
    <3>1. work'[w].pc # "evaluated"
      <4>1. CASE Take(w)
        BY <4>1, TakeStep
      <4>2. CASE InsertParse(w) \/ CommitReplay(w) \/ CommitParse(w)
        BY <4>2, InsertParseStep, CommitReplayStep, CommitParseStep
      <4>3. CASE ParseFails(w) \/ ExtractFails(w)
        BY <4>3, RaiseStep DEF ParseFails, ExtractFails
      <4>4. CASE FindExtract(w) \/ InsertExtract(w)
        BY <4>4, FindExtractStep, InsertExtractStep
      <4>5. CASE GroundedSucceeds(w) \/ GroundedFails(w)
        BY <4>5, GroundedSucceedsStep, GroundedFailsStep
      <4>6. CASE Finish(w) \/ Settle(w) \/ Crash(w)
        BY <4>6, StopStep DEF Finish, Settle, Crash
      <4> QED
        BY <2>3, <4>1, <4>2, <4>3, <4>4, <4>5, <4>6
    <3>2. UNCHANGED <<events, alerts>>
      BY <2>3 DEF Take, InsertParse, CommitReplay, CommitParse, ParseFails, FindExtract,
                  InsertExtract, ExtractFails, GroundedSucceeds, GroundedFails, Finish,
                  Settle, Crash
    <3> QED
      BY <3>1, <3>2, LeadsFrame
  <2>4. ASSUME NEW w \in Workers, Evaluate(w) PROVE LeadsInv'
    <3>1. /\ work'[w].file = work[w].file /\ work'[w].batch = work[w].batch
          /\ work'[w].leads = Raised(Visible(w)) \ alerts
          /\ UNCHANGED <<events, alerts>>
      BY <2>4, EvaluateStep, LeadsFound DEF Evaluate
    <3>2. Visible(w)' = Visible(w)
      BY <3>1 DEF Visible
    <3>3. Raised(Visible(w))' = Raised(Visible(w))
      BY <3>2 DEF Raised, Typed
    <3>4. (Raised(Visible(w)) \subseteq alerts \cup work[w].leads)'
      BY <3>1, <3>3
    <3>5. (Raised(events) \subseteq alerts)'
      BY <3>1 DEF LeadsInv, Raised, Typed
    <3>6. \A v \in Workers : v = w
      BY DEF Alone
    <3> QED
      BY <3>4, <3>5, <3>6 DEF LeadsInv
  <2>5. ASSUME NEW w \in Workers, CommitEvents(w) PROVE LeadsInv'
    <3>1. work[w].pc = "evaluated"
      BY <2>5 DEF CommitEvents
    <3>2. CASE work'[w].pc = "failing" /\ UNCHANGED <<events, alerts>>
      BY <3>2, LeadsFrame
    <3>3. CASE /\ work'[w].pc = "grounding"
               /\ events' = Visible(w) /\ alerts' = alerts \cup work[w].leads
      <4>1. Raised(Visible(w)) \subseteq alerts \cup work[w].leads
        BY <3>1 DEF LeadsInv
      <4>2. (Raised(events) \subseteq alerts)'
        BY <3>3, <4>1 DEF Raised, Typed
      <4>3. \A v \in Workers : work'[v].pc # "evaluated"
        BY <3>3 DEF Alone
      <4> QED
        BY <4>2, <4>3 DEF LeadsInv
    <3> QED
      BY <2>5, <3>2, <3>3, CommitEventsStep DEF Visible
  <2>6. CASE UNCHANGED vars
    BY <2>1, <2>6 DEF vars
  <2> QED
    BY <2>2, <2>3, <2>4, <2>5, <2>6 DEF Next, Process
<1> QED
  BY <1>1, <1>2, TypeCorrect, PTL DEF Spec

\* LeadsComplete holds of every run of one worker, whatever fails, crashes or
\* is requeued and whatever the rules rest their leads on: once processing is
\* over, every lead the stored events of the case support has been raised.
THEOREM LeadsAreRaised == Alone => (Spec => []LeadsComplete)
<1> SUFFICES ASSUME Alone PROVE Spec => []LeadsComplete
  OBVIOUS
<1>1. LeadsInv => LeadsComplete
  BY DEF LeadsInv, LeadsComplete
<1> QED
  BY <1>1, LeadsHold, PTL

===============================================================================
