------------------------------ MODULE AuditChain ------------------------------
(***************************************************************************)
(* The hash-chained audit log of one deployment: the writer                *)
(* (services/audit.py), the verifier (services/integrity.py) and the        *)
(* verification endpoint (api/review.py), run by any number of database     *)
(* sessions at once.                                                        *)
(*                                                                         *)
(* A session is one request handler or worker with its own SQLAlchemy       *)
(* session: rows it has added stay private (pending) until it commits.      *)
(* audit() is not atomic. It reads the wall clock first and the newest      *)
(* stored row second, and the row becomes visible only at the commit, so    *)
(* there is a step for each.                                               *)
(***************************************************************************)
EXTENDS Naturals

CONSTANTS
    Sessions,    \* request handlers and workers holding a database session
    Cases,       \* cases, each with its own chain
    Contents,    \* actor, action, object, outcome and details of an entry
    Legacy,      \* cases that hold a row written before the chain existed
    Tampering,   \* which outside changes happen: a subset of {"alter", "lose"}
    MaxStamps,   \* bound: how many times audit() reads the clock
    None         \* NULL

INTACT    == "intact"
BROKEN    == "broken"
EMPTY     == "empty"
UNCHAINED == "unchained"
Statuses  == {INTACT, BROKEN, EMPTY, UNCHAINED}

ASSUME ConstantsAssumption ==
    /\ Legacy \subseteq Cases
    /\ Tampering \subseteq {"alter", "lose"}
    /\ MaxStamps \in Nat
    /\ None \notin Contents \cup Cases

VARIABLES
    log,       \* committed rows of audit_logs
    pending,   \* per session: rows added and not yet committed (db.new)
    doing,     \* per session: the audit() call or verification in progress
    clock,     \* the last wall-clock reading; every reading is a new one
    written,   \* ghost: every row ever committed, as it was committed
    raced,     \* ghost: cases on which two sessions' audits overlapped
    tampered,  \* ghost: cases whose rows were changed or lost from outside
    truncated  \* ghost: cases that lost a row while it was their newest

ghosts == <<raced, tampered, truncated>>

vars == <<log, pending, doing, clock, written, ghosts>>

(***************************************************************************)
(* Writing: chain_payload, chain_hash, _previous_hash, audit.               *)
(***************************************************************************)

\* Mutant: the hash does not cover what the entry says.
chain_payload_LinkOnly(row) ==
    [case |-> row.case, previous_hash |-> row.previous_hash,
     created_at |-> row.created_at]

\* The record a hash is taken over: every stored column but the row's own id
\* and hash.
chain_payload(row) ==
    [case |-> row.case, content |-> row.content,
     previous_hash |-> row.previous_hash, created_at |-> row.created_at]

\* SHA-256 of the canonical JSON, taken to be collision free: a hash is its
\* payload in a wrapper.
chain_hash(payload) == [sha256 |-> payload]

RowsOf(rows, c) == {r \in rows : r.case = c}

Newest(rows) == {r \in rows : \A q \in rows : q.created_at <= r.created_at}

\* Mutant: entries added earlier in the same transaction are not looked at.
PreviousHash_StoredOnly(s, c) ==
    IF RowsOf(log, c) = {} THEN {None}
    ELSE {r.event_hash : r \in Newest(RowsOf(log, c))}

\* What audit() may take as its predecessor's hash: that of the newest row
\* among the stored ones and the session's own pending ones.
PreviousHash(s, c) ==
    LET candidates == RowsOf(log \cup pending[s], c)
    IN  IF candidates = {} THEN {None}
        ELSE {r.event_hash : r \in Newest(candidates)}

Idle == [stage |-> "idle", case |-> None, content |-> None, created_at |-> 0]

\* Mutant: the entry is hashed for its case and stored without it.
AuditLogRow_NoCase(d, previous) ==
    [case |-> None, content |-> d.content, previous_hash |-> previous,
     event_hash |-> chain_hash([case |-> d.case, content |-> d.content,
                                previous_hash |-> previous,
                                created_at |-> d.created_at]),
     created_at |-> d.created_at]

AuditLogRow(d, previous) ==
    LET row == [case |-> d.case, content |-> d.content,
                previous_hash |-> previous, event_hash |-> None,
                created_at |-> d.created_at]
    IN  [row EXCEPT !.event_hash = chain_hash(chain_payload(row))]

\* Session t is between audit()'s clock reading and its commit on case c.
Auditing(t, c) ==
    \/ doing[t].stage = "stamped" /\ doing[t].case = c
    \/ RowsOf(pending[t], c) # {}

\* created_at = utcnow(), the first thing audit() does.
Stamp(s, c, x) ==
    /\ clock < MaxStamps
    /\ clock' = clock + 1
    /\ doing' = [doing EXCEPT ![s] = [stage |-> "stamped", case |-> c,
                                      content |-> x, created_at |-> clock + 1]]
    /\ raced' = IF \E t \in Sessions \ {s} : Auditing(t, c)
                THEN raced \cup {c} ELSE raced
    /\ UNCHANGED <<log, pending, written, tampered, truncated>>

\* A handler or worker records an action against a case; it may record
\* several before it commits.
CallAudit(s) ==
    /\ doing[s].stage = "idle"
    /\ \E c \in Cases, x \in Contents : Stamp(s, c, x)

\* The rest of audit(): read the predecessor, hash, db.add.
Link(s) ==
    /\ doing[s].stage = "stamped"
    /\ \E previous \in PreviousHash(s, doing[s].case) :
          pending' = [pending EXCEPT ![s] = @ \cup {AuditLogRow(doing[s], previous)}]
    /\ doing' = [doing EXCEPT ![s] = Idle]
    /\ UNCHANGED <<log, clock, written, ghosts>>

Commit(s) ==
    /\ doing[s].stage = "idle"
    /\ pending[s] # {}
    /\ log' = log \cup pending[s]
    /\ written' = written \cup pending[s]
    /\ pending' = [pending EXCEPT ![s] = {}]
    /\ UNCHANGED <<doing, clock, ghosts>>

\* An exception before the commit, or the death of the process.
Rollback(s) ==
    /\ doing[s] # Idle \/ pending[s] # {}
    /\ pending' = [pending EXCEPT ![s] = {}]
    /\ doing' = [doing EXCEPT ![s] = Idle]
    /\ UNCHANGED <<log, clock, written, ghosts>>

(***************************************************************************)
(* Verifying: verify_chain, and the endpoint that records its verdict.      *)
(***************************************************************************)

Entries(c) == RowsOf(log, c)

Hashed(row) == row.event_hash # None

\* The entry the loop visited just before this one, in created_at order.
Before(q, r) ==
    /\ q.created_at < r.created_at
    /\ \A p \in Entries(r.case) :
          p.created_at <= q.created_at \/ p.created_at >= r.created_at

ContentAltered(r) == Hashed(r) /\ r.event_hash # chain_hash(chain_payload(r))

\* Mutant: only the newest entry is checked to follow the one before it.
LinkBroken_NewestOnly(r) ==
    /\ r \in Newest(Entries(r.case))
    /\ Hashed(r)
    /\ \E q \in Entries(r.case) :
          Before(q, r) /\ Hashed(q) /\ r.previous_hash # q.event_hash

LinkBroken(r) ==
    /\ Hashed(r)
    /\ ~ContentAltered(r)
    /\ \E q \in Entries(r.case) :
          Before(q, r) /\ Hashed(q) /\ r.previous_hash # q.event_hash

Breaks(c) == {r \in Entries(c) : ContentAltered(r) \/ LinkBroken(r)}

\* Mutant: each entry's own hash is recomputed and its link is not checked.
verify_chain_HashesOnly(c) ==
    IF Entries(c) = {} THEN EMPTY
    ELSE IF \E r \in Entries(c) : ContentAltered(r) THEN BROKEN
    ELSE IF \E r \in Entries(c) : ~Hashed(r) THEN UNCHAINED
    ELSE INTACT

verify_chain(c) ==
    IF Entries(c) = {} THEN EMPTY
    ELSE IF Breaks(c) # {} THEN BROKEN
    ELSE IF \E r \in Entries(c) : ~Hashed(r) THEN UNCHAINED
    ELSE INTACT

\* verify_audit_chain: the verdict is read here ...
VerifyChain(s) ==
    /\ doing[s].stage = "idle"
    /\ pending[s] = {}
    /\ \E c \in Cases :
          doing' = [doing EXCEPT ![s] = [stage |-> "verdict", case |-> c,
                                         content |-> verify_chain(c), created_at |-> 0]]
    /\ UNCHANGED <<log, pending, clock, written, ghosts>>

\* ... and audited as the outcome of an entry of the chain it is about.
AuditVerdict(s) ==
    /\ doing[s].stage = "verdict"
    /\ Stamp(s, doing[s].case, doing[s].content)

(***************************************************************************)
(* What the chain is there to notice. Neither is an operation of the        *)
(* program: no code updates or deletes a row of audit_logs.                 *)
(***************************************************************************)

\* A stored row is edited in place and its hash is not recomputed.
Alter ==
    /\ "alter" \in Tampering
    /\ \E r \in log, x \in Contents :
          /\ x # r.content
          /\ log' = (log \ {r}) \cup {[r EXCEPT !.content = x]}
          /\ tampered' = tampered \cup {r.case}
    /\ UNCHANGED <<pending, doing, clock, written, raced, truncated>>

\* A stored row is gone: deleted, or missing from a restored backup.
Lose ==
    /\ "lose" \in Tampering
    /\ \E r \in log :
          /\ log' = log \ {r}
          /\ tampered' = tampered \cup {r.case}
          /\ truncated' = IF r \in Newest(Entries(r.case))
                          THEN truncated \cup {r.case} ELSE truncated
    /\ UNCHANGED <<pending, doing, clock, written, raced>>

Init ==
    /\ \E x \in Contents :
          log = {[case |-> c, content |-> x, previous_hash |-> None,
                  event_hash |-> None, created_at |-> 0] : c \in Legacy}
    /\ pending = [s \in Sessions |-> {}]
    /\ doing = [s \in Sessions |-> Idle]
    /\ clock = 0
    /\ written = log
    /\ raced = {}
    /\ tampered = {}
    /\ truncated = {}

Step(s) ==
    CallAudit(s) \/ Link(s) \/ Commit(s) \/ Rollback(s)
        \/ VerifyChain(s) \/ AuditVerdict(s)

Next == (\E s \in Sessions : Step(s)) \/ Alter \/ Lose

Spec == Init /\ [][Next]_vars

(***************************************************************************)
(* Properties.                                                             *)
(***************************************************************************)

\* A row of audit_logs stamped no later than the last clock reading.
IsRow(r) ==
    /\ r = [case |-> r.case, content |-> r.content, previous_hash |-> r.previous_hash,
            event_hash |-> r.event_hash, created_at |-> r.created_at]
    /\ r.case \in Cases
    /\ r.content \in Contents \cup Statuses
    /\ r.created_at \in 0..clock

\* What a session can be in the middle of.
Calls ==
    {Idle}
    \cup [stage : {"stamped"}, case : Cases, content : Contents \cup Statuses,
          created_at : 1..clock]
    \cup [stage : {"verdict"}, case : Cases, content : Statuses, created_at : {0}]

\* Every row, stored or pending, is a row of audit_logs stamped no later than
\* the last clock reading; a session's call in progress is one audit() or
\* verification.
TypeOK ==
    /\ clock \in 0..MaxStamps
    /\ \A r \in log \cup written : IsRow(r)
    /\ pending = [s \in Sessions |-> pending[s]]
    /\ \A s \in Sessions : \A r \in pending[s] : IsRow(r)
    /\ doing \in [Sessions -> Calls]
    /\ raced \subseteq Cases
    /\ tampered \subseteq Cases
    /\ truncated \subseteq Cases

\* A case whose actions were recorded one at a time, and whose rows nobody
\* touched, never reads as broken, however many actions a transaction
\* recorded and however many were rolled back (audit.py, _previous_hash).
SerialChainVerifies ==
    \A c \in Cases \ (raced \cup tampered) : verify_chain(c) # BROKEN

\* "content_altered" is reported at exactly the entries whose content is not
\* what was committed, overlapping writers or not (integrity.py).
FaultNamesAlteredEntry ==
    \A r \in log : Hashed(r) => (ContentAltered(r) <=> r \notin written)

\* What INTACT establishes for a serially written case: the entries that are
\* there are as committed and none is missing between two of them. The one
\* loss it cannot see is that of the newest entry, which the next one then
\* follows past; and it does not establish that the oldest are all there.
IntactMeansGapless ==
    \A c \in Cases \ (raced \cup truncated) :
        verify_chain(c) = INTACT =>
            /\ Entries(c) \subseteq written
            /\ \A w \in RowsOf(written, c), q, r \in Entries(c) :
                  q.created_at < w.created_at /\ w.created_at < r.created_at
                      => w \in Entries(c)

\* Commits alone never repair a broken chain: an entry that lands late
\* between two others cannot make a failed verification pass again.
BrokenStaysBroken ==
    [][log \subseteq log' =>
          \A c \in Cases : verify_chain(c) = BROKEN => verify_chain(c)' = BROKEN]_vars

\* What the code's tests and comments promise without the word "serially":
\* a chain nobody touched is not reported as broken.
UntouchedChainVerifies ==
    \A c \in Cases \ tampered : verify_chain(c) # BROKEN

===============================================================================
