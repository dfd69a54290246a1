----------------------------- MODULE EvidenceIntake -----------------------------
(* api/evidence.py with services/storage.py: an upload from its first byte to    *)
(* the task that will process it, in one or several API processes, and the       *)
(* queues of workers/celery_app.py the tasks travel on.                          *)
(*                                                                               *)
(* upload_evidence is a coroutine: it gives way only while it reads the body.    *)
(* What follows the last read runs to its end before any other coroutine of the  *)
(* same process, so the step that stores the object takes the process's event    *)
(* loop and the response gives it back. Requests of other processes, handlers    *)
(* that run in threads and workers go on in between.                             *)
(*                                                                               *)
(* An upload is known by the id drawn for its evidence row; a content stands for *)
(* its SHA-256. The case is fixed: keys and hashes are compared within a case.   *)

CONSTANTS
    Uploads,        \* ids of the uploads that will be made
    Contents,       \* contents that are accepted
    Refused,        \* bodies that are too large, empty or of no accepted type
    ProcessOf,      \* ProcessOf[u]: the API process that serves upload u
    Route,          \* task_routes: task -> queue, "celery" if none is given
    Consumed        \* queues the deployed worker consumes

ASSUME IntakeAssumption ==
    /\ Contents \cap Refused = {}
    /\ "nothing" \notin Contents
    /\ "nobody" \notin Uploads

VARIABLES
    upload,         \* upload[u]: [pc, content]
    loop,           \* loop[p]: the upload that holds p's event loop, or Nobody
    objects,        \* objects[u]: content stored under u's key, or Nothing
    rows,           \* rows[u]: content of the committed row, or Nothing
    tasks,          \* messages on the broker: <<task, upload>>
    taken,          \* tasks a worker has taken
    mishap,         \* ghost: a storing, a deletion, a commit or a process has failed
    refused         \* ghost: messages the broker refused

intakeVars == <<upload, loop, objects, rows, tasks, taken, mishap, refused>>

Nothing == "nothing"
Nobody == "nobody"
Processes == {ProcessOf[u] : u \in Uploads}
At(u, pc) == upload[u].pc = pc
Go(u, pc) == upload' = [upload EXCEPT ![u].pc = pc]
Holds(u) == loop[ProcessOf[u]] = u
Release(u) == loop' = [loop EXCEPT ![ProcessOf[u]] = Nobody]

Points == {"receiving", "stored", "duplicate", "new", "posting", "done"}

(* Type invariant: what is stored is of an accepted type.                        *)
IntakeTypeOK ==
    /\ upload \in [Uploads -> [pc : Points, content : Contents \cup Refused]]
    /\ \A u \in Uploads : upload[u].pc \notin {"receiving", "done"} => upload[u].content \in Contents
    /\ loop \in [Processes -> Uploads \cup {Nobody}]
    /\ objects \in [Uploads -> Contents \cup {Nothing}]
    /\ rows \in [Uploads -> Contents \cup {Nothing}]
    /\ mishap \in BOOLEAN

-------------------------------------------------------------------------------
IntakeInit ==
    /\ upload \in [Uploads -> [pc : {"receiving"}, content : Contents \cup Refused]]
    /\ loop = [p \in Processes |-> Nobody]
    /\ objects = [u \in Uploads |-> Nothing]
    /\ rows = [u \in Uploads |-> Nothing]
    /\ tasks = {} /\ taken = {} /\ refused = {}
    /\ mishap = FALSE

(* Mutant: what is read of the body is checked and stored later, when others     *)
(* have run.                                                                     *)
Store_Yielding(u) ==
    /\ At(u, "receiving")
    /\ Go(u, IF upload[u].content \in Refused THEN "done" ELSE "stored")
    /\ objects' = [objects EXCEPT ![u] = IF upload[u].content \in Refused THEN Nothing ELSE upload[u].content]
    /\ UNCHANGED <<loop, rows, tasks, taken, mishap, refused>>

(* persist_upload after the last chunk: a body that is not accepted leaves       *)
(* nothing, an accepted one is stored under the key of its own id.               *)
Store(u) ==
    /\ At(u, "receiving")
    /\ loop[ProcessOf[u]] = Nobody
    /\ IF upload[u].content \in Refused
       THEN Go(u, "done") /\ UNCHANGED <<loop, objects>>
       ELSE /\ Go(u, "stored")
            /\ objects' = [objects EXCEPT ![u] = upload[u].content]
            /\ loop' = [loop EXCEPT ![ProcessOf[u]] = u]
    /\ UNCHANGED <<rows, tasks, taken, mishap, refused>>

(* The object store answers with an error, or not at all, whether or not it kept  *)
(* the object; the request fails and nothing is cleaned up.                      *)
StoreFails(u, kept) ==
    /\ At(u, "receiving")
    /\ loop[ProcessOf[u]] = Nobody
    /\ upload[u].content \notin Refused
    /\ Go(u, "done")
    /\ objects' = IF kept THEN [objects EXCEPT ![u] = upload[u].content] ELSE objects
    /\ mishap' = TRUE
    /\ UNCHANGED <<loop, rows, tasks, taken, refused>>

Duplicates(u) == {d \in Uploads : rows[d] = upload[u].content}

(* The duplicate check of upload_evidence.                                       *)
Check(u) ==
    /\ At(u, "stored")
    /\ Go(u, IF Duplicates(u) = {} THEN "new" ELSE "duplicate")
    /\ UNCHANGED <<loop, objects, rows, tasks, taken, mishap, refused>>

(* A duplicate: delete_private_object, which may fail, and the refusal.          *)
Discard(u, works) ==
    /\ At(u, "duplicate")
    /\ objects' = IF works THEN [objects EXCEPT ![u] = Nothing] ELSE objects
    /\ mishap' = (mishap \/ ~works)
    /\ Go(u, "done") /\ Release(u)
    /\ UNCHANGED <<rows, tasks, taken, refused>>

(* The commit; uq_evidence_case_hash_version refuses a content the case already  *)
(* has. The object stays where it is.                                            *)
Commit(u, works) ==
    /\ At(u, "new")
    /\ IF works /\ Duplicates(u) = {}
       THEN /\ rows' = [rows EXCEPT ![u] = upload[u].content]
            /\ Go(u, "posting")
            /\ UNCHANGED loop
       ELSE Go(u, "done") /\ Release(u) /\ UNCHANGED rows
    /\ mishap' = (mishap \/ ~works)
    /\ UNCHANGED <<objects, tasks, taken, refused>>

(* process_evidence_task.delay: the broker takes the message or the request      *)
(* fails with its row committed.                                                 *)
Send(task, u, accepted) ==
    /\ tasks' = IF accepted THEN tasks \cup {<<task, u>>} ELSE tasks
    /\ refused' = IF accepted THEN refused ELSE refused \cup {<<task, u>>}

Post(u, accepted) ==
    /\ At(u, "posting")
    /\ Send("process", u, accepted)
    /\ Go(u, "done") /\ Release(u)
    /\ UNCHANGED <<objects, rows, taken, mishap>>

(* requeue_evidence runs in a thread: it needs the row and not the loop.         *)
Requeue(u, accepted) ==
    /\ rows[u] # Nothing
    /\ <<"process", u>> \notin tasks
    /\ Send("process", u, accepted)
    /\ UNCHANGED <<upload, loop, objects, rows, taken, mishap>>

(* reanalyze of api/grounded.py, likewise.                                       *)
Reanalyze(u, accepted) ==
    /\ rows[u] # Nothing
    /\ <<"reanalyze", u>> \notin tasks
    /\ Send("reanalyze", u, accepted)
    /\ UNCHANGED <<upload, loop, objects, rows, taken, mishap>>

(* The process dies with everything its requests held.                           *)
Crash(p) ==
    /\ \E u \in Uploads : ProcessOf[u] = p /\ upload[u].pc # "done"
    /\ upload' = [u \in Uploads |-> IF ProcessOf[u] = p THEN [upload[u] EXCEPT !.pc = "done"] ELSE upload[u]]
    /\ loop' = [loop EXCEPT ![p] = Nobody]
    /\ mishap' = TRUE
    /\ refused' = refused \cup {<<"process", u>> : u \in {v \in Uploads : ProcessOf[v] = p /\ upload[v].pc = "posting"}}
    /\ UNCHANGED <<objects, rows, tasks, taken>>

(* Mutant: tasks are looked for on the default queue.                            *)
Take_Default(message) ==
    /\ message \in tasks
    /\ Route[message[1]] \in {"celery"}
    /\ tasks' = tasks \ {message} /\ taken' = taken \cup {message}
    /\ UNCHANGED <<upload, loop, objects, rows, mishap, refused>>

(* A worker takes a message from a queue it consumes.                            *)
Take(message) ==
    /\ message \in tasks
    /\ Route[message[1]] \in Consumed
    /\ tasks' = tasks \ {message} /\ taken' = taken \cup {message}
    /\ UNCHANGED <<upload, loop, objects, rows, mishap, refused>>

Upload(u) ==
    \/ Store(u) \/ Check(u)
    \/ \E works \in BOOLEAN : StoreFails(u, works) \/ Discard(u, works) \/ Commit(u, works) \/ Post(u, works)

IntakeNext ==
    \/ \E u \in Uploads : Upload(u) \/ \E ok \in BOOLEAN : Requeue(u, ok) \/ Reanalyze(u, ok)
    \/ \E p \in Processes : Crash(p)
    \/ \E message \in tasks : Take(message)

IntakeSpec == IntakeInit /\ [][IntakeNext]_intakeVars

-------------------------------------------------------------------------------
(* Every evidence row has its object, with the content its hash was taken of:    *)
(* no refusal of another upload, failure or crash takes it away.                 *)
RowsKeepTheirObjects == \A u \in Uploads : rows[u] # Nothing => objects[u] = rows[u]

(* A content is evidence of the case once, though the check and the commit are   *)
(* two steps and other processes upload the same file.                           *)
ContentIsHeldOnce ==
    \A u, v \in Uploads : rows[u] # Nothing /\ rows[u] = rows[v] => u = v

(* An upload that was refused leaves no object behind, unless the store, a       *)
(* commit or a process failed, or another process stored the same content first: *)
(* of two uploads of one content that a process serves, the later always meets   *)
(* the row of the earlier. (From another process the index refuses it, and its   *)
(* object stays.)                                                                *)
RefusedLeaveNothing ==
    ~mishap => \A u \in Uploads :
        At(u, "done") /\ rows[u] = Nothing /\ objects[u] # Nothing =>
            \E v \in Uploads : ProcessOf[v] # ProcessOf[u] /\ rows[v] = objects[u]

(* What an upload leaves behind, however the uploads of a case race.             *)
IntakeKeepsEvidence == RowsKeepTheirObjects /\ ContentIsHeldOnce /\ RefusedLeaveNothing

(* Evidence does not wait for ever: what was committed is taken by a worker,     *)
(* unless the broker refused its message or the process died before it was sent. *)
EvidenceIsTaken ==
    \A u \in Uploads :
        rows[u] # Nothing ~> <<"process", u>> \in taken \cup refused

===============================================================================
