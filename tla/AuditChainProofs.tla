--------------------------- MODULE AuditChainProofs ---------------------------
(***************************************************************************)
(* Proofs about AuditChain: type correctness, that a serially written and   *)
(* untouched chain verifies, that a content fault names exactly the entries *)
(* that were edited, that no entry is missing from a chain that reads as    *)
(* intact, and that no commit repairs a chain that reads as broken.         *)
(***************************************************************************)
EXTENDS AuditChain, WellFoundedInduction, TLAPS

\* What audit() builds is a row, sealed with the hash of its own payload.
LEMMA NewRow ==
    ASSUME NEW d, NEW previous
    PROVE  /\ AuditLogRow(d, previous).case = d.case
           /\ AuditLogRow(d, previous).content = d.content
           /\ AuditLogRow(d, previous).previous_hash = previous
           /\ AuditLogRow(d, previous).created_at = d.created_at
           /\ AuditLogRow(d, previous).event_hash
                 = chain_hash(chain_payload(AuditLogRow(d, previous)))
           /\ AuditLogRow(d, previous)
                 = [case |-> AuditLogRow(d, previous).case,
                    content |-> AuditLogRow(d, previous).content,
                    previous_hash |-> AuditLogRow(d, previous).previous_hash,
                    event_hash |-> AuditLogRow(d, previous).event_hash,
                    created_at |-> AuditLogRow(d, previous).created_at]
  BY DEF AuditLogRow, chain_payload

\* An edit of a row's content leaves a row with the other columns as they were.
LEMMA EditedRow ==
    ASSUME NEW r, IsRow(r), NEW x
    PROVE  [r EXCEPT !.content = x]
              = [case |-> r.case, content |-> x, previous_hash |-> r.previous_hash,
                 event_hash |-> r.event_hash, created_at |-> r.created_at]
  BY DEF IsRow

\* verify_chain returns one of its four statuses.
LEMMA VerdictType == \A c : verify_chain(c) \in Statuses
  BY DEF verify_chain, Statuses

\* A row stamped by some clock reading stays a row as the clock advances.
LEMMA RowsPersist ==
    ASSUME clock \in Nat, clock' \in Nat, clock <= clock', NEW r, IsRow(r)
    PROVE  IsRow(r)'
  BY DEF IsRow

\* TypeOK holds of every run, whatever the sessions, cases and contents: every
\* row of audit_logs, stored or pending, has a case, a content and a time no
\* later than the clock.
THEOREM TypeCorrect == Spec => []TypeOK
<1> USE ConstantsAssumption
<1>1. Init => TypeOK
  <2> SUFFICES ASSUME Init PROVE TypeOK
    OBVIOUS
  <2>1. \A r \in log \cup written : IsRow(r)
    BY DEF Init, IsRow
  <2>2. pending = [s \in Sessions |-> pending[s]]
    BY DEF Init
  <2>3. \A s \in Sessions : \A r \in pending[s] : IsRow(r)
    BY DEF Init
  <2>4. doing \in [Sessions -> Calls]
    BY DEF Init, Calls
  <2> QED
    BY <2>1, <2>2, <2>3, <2>4 DEF Init, TypeOK
<1>2. TypeOK /\ [Next]_vars => TypeOK'
  <2> SUFFICES ASSUME TypeOK, [Next]_vars PROVE TypeOK'
    OBVIOUS
  <2>a. ASSUME NEW s \in Sessions, NEW c \in Cases, NEW x \in Contents \cup Statuses,
               Stamp(s, c, x)
        PROVE  TypeOK'
    <3>1. clock \in Nat /\ clock' = clock + 1 /\ clock' \in 0..MaxStamps
      BY <2>a DEF TypeOK, Stamp
    <3>2. (\A r \in log \cup written : IsRow(r))'
      BY <2>a, <3>1, RowsPersist DEF TypeOK, Stamp
    <3>3. (\A t \in Sessions : \A r \in pending[t] : IsRow(r))'
      BY <2>a, <3>1, RowsPersist DEF TypeOK, Stamp
    <3>4. \A d \in Calls : d \in Calls'
      BY <3>1 DEF Calls, Idle
    <3>5. [stage |-> "stamped", case |-> c, content |-> x, created_at |-> clock + 1]
             \in Calls'
      BY <3>1 DEF Calls
    <3>6. doing' \in [Sessions -> Calls']
      BY <2>a, <3>4, <3>5 DEF TypeOK, Stamp
    <3> QED
      BY <2>a, <3>1, <3>2, <3>3, <3>6 DEF TypeOK, Stamp
  <2>1. ASSUME NEW s \in Sessions, CallAudit(s) PROVE TypeOK'
    BY <2>1, <2>a DEF CallAudit
  <2>2. ASSUME NEW s \in Sessions, Link(s) PROVE TypeOK'
    <3> DEFINE d == doing[s]
    <3>1. d.stage = "stamped" /\ d \in Calls
      BY <2>2 DEF TypeOK, Link
    <3>2. d \in [stage : {"stamped"}, case : Cases, content : Contents \cup Statuses,
                 created_at : 1..clock]
      BY <3>1 DEF Calls, Idle
    <3>3. \A previous : IsRow(AuditLogRow(d, previous))
      BY <3>2, NewRow DEF IsRow, TypeOK
    <3>4. \A t \in Sessions : \A r \in pending'[t] : IsRow(r)
      BY <2>2, <3>3 DEF TypeOK, Link
    <3>5. pending' = [t \in Sessions |-> pending'[t]]
      BY <2>2 DEF TypeOK, Link
    <3>6. doing' \in [Sessions -> Calls]
      BY <2>2 DEF TypeOK, Link, Calls
    <3>7. UNCHANGED <<log, clock, written, raced, tampered, truncated>>
      BY <2>2 DEF Link, ghosts
    <3> QED
      BY <3>4, <3>5, <3>6, <3>7 DEF TypeOK, IsRow, Calls
  <2>3. ASSUME NEW s \in Sessions, Commit(s) PROVE TypeOK'
    <3>1. UNCHANGED <<clock, doing, raced, tampered, truncated>>
      BY <2>3 DEF Commit, ghosts
    <3>2. \A r \in log' \cup written' : IsRow(r)
      BY <2>3 DEF TypeOK, Commit
    <3>3. \A t \in Sessions : \A r \in pending'[t] : IsRow(r)
      BY <2>3 DEF TypeOK, Commit
    <3>4. pending' = [t \in Sessions |-> pending'[t]]
      BY <2>3 DEF TypeOK, Commit
    <3> QED
      BY <3>1, <3>2, <3>3, <3>4 DEF TypeOK, IsRow, Calls
  <2>4. ASSUME NEW s \in Sessions, Rollback(s) PROVE TypeOK'
    <3>1. UNCHANGED <<log, written, clock, raced, tampered, truncated>>
      BY <2>4 DEF Rollback, ghosts
    <3>2. \A t \in Sessions : \A r \in pending'[t] : IsRow(r)
      BY <2>4 DEF TypeOK, Rollback
    <3>3. pending' = [t \in Sessions |-> pending'[t]]
      BY <2>4 DEF TypeOK, Rollback
    <3>4. doing' \in [Sessions -> Calls]
      BY <2>4 DEF TypeOK, Rollback, Calls
    <3> QED
      BY <3>1, <3>2, <3>3, <3>4 DEF TypeOK, IsRow, Calls
  <2>5. ASSUME NEW s \in Sessions, VerifyChain(s) PROVE TypeOK'
    <3>1. UNCHANGED <<log, pending, written, clock, raced, tampered, truncated>>
      BY <2>5 DEF VerifyChain, ghosts
    <3>2. PICK c \in Cases :
             doing' = [doing EXCEPT ![s] = [stage |-> "verdict", case |-> c,
                                            content |-> verify_chain(c), created_at |-> 0]]
      BY <2>5 DEF VerifyChain
    <3>3. [stage |-> "verdict", case |-> c, content |-> verify_chain(c), created_at |-> 0]
             \in Calls
      BY VerdictType DEF Calls
    <3>4. doing' \in [Sessions -> Calls]
      BY <3>2, <3>3 DEF TypeOK
    <3> QED
      BY <3>1, <3>4 DEF TypeOK, IsRow, Calls
  <2>6. ASSUME NEW s \in Sessions, AuditVerdict(s) PROVE TypeOK'
    <3>1. doing[s].case \in Cases /\ doing[s].content \in Statuses
      BY <2>6 DEF TypeOK, AuditVerdict, Calls, Idle
    <3> QED
      BY <2>6, <2>a, <3>1 DEF AuditVerdict
  <2>7. CASE Alter
    <3>1. PICK r \in log, x \in Contents :
             /\ log' = (log \ {r}) \cup {[r EXCEPT !.content = x]}
             /\ tampered' = tampered \cup {r.case}
      BY <2>7 DEF Alter
    <3>2. UNCHANGED <<pending, doing, clock, written, raced, truncated>>
      BY <2>7 DEF Alter
    <3>3. IsRow(r)
      BY DEF TypeOK
    <3>4. IsRow([r EXCEPT !.content = x])
      BY <3>3, EditedRow DEF IsRow
    <3>5. \A q \in log' \cup written' : IsRow(q)
      BY <3>1, <3>2, <3>4 DEF TypeOK
    <3>6. tampered' \subseteq Cases
      BY <3>1, <3>3 DEF TypeOK, IsRow
    <3> QED
      BY <3>2, <3>5, <3>6 DEF TypeOK, IsRow, Calls
  <2>8. CASE Lose
    <3>1. PICK r \in log :
             /\ log' = log \ {r}
             /\ tampered' = tampered \cup {r.case}
             /\ truncated' = IF r \in Newest(Entries(r.case))
                             THEN truncated \cup {r.case} ELSE truncated
      BY <2>8 DEF Lose
    <3>2. UNCHANGED <<pending, doing, clock, written, raced>>
      BY <2>8 DEF Lose
    <3>3. r.case \in Cases
      BY DEF TypeOK, IsRow
    <3>4. \A q \in log' \cup written' : IsRow(q)
      BY <3>1, <3>2 DEF TypeOK
    <3> QED
      BY <3>1, <3>2, <3>3, <3>4 DEF TypeOK, IsRow, Calls
  <2>9. CASE UNCHANGED vars
    BY <2>9 DEF vars, ghosts, TypeOK, IsRow, Calls
  <2> QED
    BY <2>1, <2>2, <2>3, <2>4, <2>5, <2>6, <2>7, <2>8, <2>9 DEF Next, Step
<1> QED
  BY <1>1, <1>2, PTL DEF Spec

(***************************************************************************)
(* A content fault names exactly the edited entries.                        *)
(***************************************************************************)

\* The row carries the hash of its own payload, or none.
Sealed(r) == Hashed(r) => r.event_hash = chain_hash(chain_payload(r))

\* Every stored row is one that was committed, in all but perhaps its content;
\* what is committed or about to be is sealed.
SealInv ==
    /\ \A w \in written : Sealed(w)
    /\ \A s \in Sessions : \A r \in pending[s] : Sealed(r)
    /\ \A r \in log : \E w \in written : r = [w EXCEPT !.content = r.content]

\* Two rows that differ in their content alone have different hashes.
LEMMA ContentIsHashed ==
    ASSUME NEW w, NEW r, IsRow(w), IsRow(r), r = [w EXCEPT !.content = r.content],
           chain_hash(chain_payload(w)) = chain_hash(chain_payload(r))
    PROVE  r = w
<1>1. chain_payload(w) = chain_payload(r)
  BY DEF chain_hash
<1>2. w.content = r.content
  BY <1>1 DEF chain_payload
<1> QED
  BY <1>2, EditedRow DEF IsRow

LEMMA SealInvariant == Spec => []SealInv
<1> USE ConstantsAssumption
<1>1. Init => SealInv
  <2> SUFFICES ASSUME Init PROVE SealInv
    OBVIOUS
  <2>1. \A r \in log : r.event_hash = None /\ r = [r EXCEPT !.content = r.content]
    BY DEF Init
  <2> QED
    BY <2>1 DEF Init, SealInv, Sealed, Hashed
<1>2. SealInv /\ TypeOK /\ [Next]_vars => SealInv'
  <2> SUFFICES ASSUME SealInv, TypeOK, [Next]_vars PROVE SealInv'
    OBVIOUS
  <2>a. ASSUME UNCHANGED <<log, written, pending>> PROVE SealInv'
    BY <2>a DEF SealInv
  <2>1. ASSUME NEW s \in Sessions, CallAudit(s) \/ VerifyChain(s) \/ AuditVerdict(s)
        PROVE  SealInv'
    BY <2>1, <2>a DEF CallAudit, VerifyChain, AuditVerdict, Stamp
  <2>2. ASSUME NEW s \in Sessions, Link(s) PROVE SealInv'
    <3>1. \A previous : Sealed(AuditLogRow(doing[s], previous))
      BY NewRow DEF Sealed
    <3>2. \A t \in Sessions : \A r \in pending'[t] : Sealed(r)
      BY <2>2, <3>1 DEF SealInv, Link, TypeOK
    <3>3. UNCHANGED <<log, written>>
      BY <2>2 DEF Link
    <3> QED
      BY <3>2, <3>3 DEF SealInv
  <2>3. ASSUME NEW s \in Sessions, Commit(s) PROVE SealInv'
    <3>1. \A t \in Sessions : pending'[t] \subseteq pending[t]
      BY <2>3 DEF Commit, TypeOK
    <3>2. \A r \in pending[s] : r = [r EXCEPT !.content = r.content]
      BY EditedRow DEF TypeOK, IsRow
    <3>3. written' = written \cup pending[s] /\ log' = log \cup pending[s]
      BY <2>3 DEF Commit
    <3>4. \A r \in log' : \E w \in written' : r = [w EXCEPT !.content = r.content]
      BY <3>2, <3>3 DEF SealInv
    <3> QED
      BY <3>1, <3>3, <3>4 DEF SealInv
  <2>4. ASSUME NEW s \in Sessions, Rollback(s) PROVE SealInv'
    <3>1. \A t \in Sessions : pending'[t] \subseteq pending[t]
      BY <2>4 DEF Rollback, TypeOK
    <3> QED
      BY <2>4, <3>1 DEF SealInv, Rollback
  <2>5. CASE Alter
    <3>1. PICK r \in log, x \in Contents :
             log' = (log \ {r}) \cup {[r EXCEPT !.content = x]}
      BY <2>5 DEF Alter
    <3>2. PICK w \in written : r = [w EXCEPT !.content = r.content]
      BY DEF SealInv
    <3>3. IsRow(w) /\ IsRow(r)
      BY DEF TypeOK
    <3>4. [r EXCEPT !.content = x] = [w EXCEPT !.content = x]
      BY <3>2, <3>3, EditedRow
    <3>5. [r EXCEPT !.content = x].content = x
      BY <3>3, EditedRow
    <3>6. UNCHANGED <<written, pending>>
      BY <2>5 DEF Alter
    <3>7. \A q \in log' : \E v \in written : q = [v EXCEPT !.content = q.content]
      BY <3>1, <3>4, <3>5 DEF SealInv
    <3> QED
      BY <3>6, <3>7 DEF SealInv
  <2>6. CASE Lose
    BY <2>6 DEF Lose, SealInv
  <2>7. CASE UNCHANGED vars
    BY <2>7, <2>a DEF vars
  <2> QED
    BY <2>1, <2>2, <2>3, <2>4, <2>5, <2>6, <2>7 DEF Next, Step
<1> QED
  BY <1>1, <1>2, TypeCorrect, PTL DEF Spec

\* Whoever wrote and however they overlapped, verify_chain reports
\* "content_altered" at an entry exactly when the entry is not what was
\* committed.
THEOREM FaultIsExact == Spec => []FaultNamesAlteredEntry
<1>1. TypeOK /\ SealInv => FaultNamesAlteredEntry
  <2> SUFFICES ASSUME TypeOK, SealInv, NEW r \in log, Hashed(r)
               PROVE  ContentAltered(r) <=> r \notin written
    BY DEF FaultNamesAlteredEntry
  <2>1. ASSUME r \in written PROVE ~ContentAltered(r)
    BY <2>1 DEF SealInv, Sealed, ContentAltered
  <2>2. ASSUME r \notin written PROVE ContentAltered(r)
    <3>1. PICK w \in written : r = [w EXCEPT !.content = r.content]
      BY DEF SealInv
    <3>2. IsRow(w) /\ IsRow(r)
      BY DEF TypeOK
    <3>3. r.event_hash = w.event_hash
      BY <3>1, <3>2, EditedRow
    <3>4. w.event_hash = chain_hash(chain_payload(w))
      BY <3>3 DEF SealInv, Sealed, Hashed
    <3>5. r # w
      BY <2>2
    <3> QED
      BY <3>1, <3>2, <3>3, <3>4, <3>5, ContentIsHashed DEF ContentAltered
  <2> QED
    BY <2>1, <2>2
<1> QED
  BY <1>1, TypeCorrect, SealInvariant, PTL

(***************************************************************************)
(* A serially written, untouched chain verifies.                            *)
(*                                                                         *)
(* SerialChainVerifies is not inductive: it says nothing of the rows a      *)
(* session has yet to commit. SerialInv adds them. On a case where no two   *)
(* audits overlapped and no row was touched, one session at most is         *)
(* auditing; what it has pending is newer than everything stored, its clock *)
(* reading is newer still, and the stored rows with or without the pending  *)
(* ones form a chain.                                                       *)
(***************************************************************************)

\* The rows of a case are in strict order of time, each hashed one follows the
\* hashed one just before it, and each is sealed.
Chained(rows) ==
    /\ \A r \in rows : Sealed(r)
    /\ \A q, r \in rows : q.created_at = r.created_at => q = r
    /\ \A q, r \in rows :
          /\ q.created_at < r.created_at
          /\ \A p \in rows : p.created_at <= q.created_at \/ p.created_at >= r.created_at
          /\ Hashed(q)
          /\ Hashed(r)
          => r.previous_hash = q.event_hash

SerialInv ==
    \A c \in Cases \ (raced \cup tampered) :
        /\ \A s, t \in Sessions : Auditing(s, c) /\ Auditing(t, c) => s = t
        /\ Chained(RowsOf(log, c))
        /\ \A s \in Sessions :
              /\ Chained(RowsOf(log \cup pending[s], c))
              /\ \A q \in RowsOf(log, c), r \in RowsOf(pending[s], c) :
                    q.created_at < r.created_at
              /\ doing[s].stage = "stamped" /\ doing[s].case = c =>
                    \A r \in RowsOf(log \cup pending[s], c) :
                        r.created_at < doing[s].created_at

LEMMA RowsOfUnion ==
    \A a, b, c : RowsOf(a \cup b, c) = RowsOf(a, c) \cup RowsOf(b, c)
  BY DEF RowsOf

\* A chain grows by a sealed row that is newer than all its rows and carries
\* the hash of a newest one.
LEMMA ChainExtends ==
    ASSUME NEW rows, NEW row, Chained(rows), Sealed(row),
           row.created_at \in Nat,
           \A r \in rows : r.created_at \in Nat /\ r.created_at < row.created_at,
           rows # {} => \E r \in Newest(rows) : row.previous_hash = r.event_hash
    PROVE  Chained(rows \cup {row})
<1> DEFINE grown == rows \cup {row}
<1>1. \A r \in grown : Sealed(r)
  BY DEF Chained
<1>2. \A q, r \in grown : q.created_at = r.created_at => q = r
  BY DEF Chained
<1>3. ASSUME NEW q \in grown, NEW r \in grown, q.created_at < r.created_at,
             \A p \in grown : p.created_at <= q.created_at \/ p.created_at >= r.created_at,
             Hashed(q), Hashed(r)
      PROVE  r.previous_hash = q.event_hash
  <2>1. q \in rows
    BY <1>3
  <2>2. CASE r \in rows
    BY <1>3, <2>1, <2>2 DEF Chained
  <2>3. CASE r \notin rows
    <3>1. r = row
      BY <2>3
    <3>2. PICK n \in Newest(rows) : row.previous_hash = n.event_hash
      BY <2>1
    <3>3. n \in rows /\ q.created_at <= n.created_at
      BY <2>1 DEF Newest
    <3>4. n.created_at <= q.created_at
      BY <1>3, <3>1, <3>3
    <3>5. n = q
      BY <2>1, <3>3, <3>4 DEF Chained
    <3> QED
      BY <3>1, <3>2, <3>5
  <2> QED
    BY <2>2, <2>3
<1> QED
  BY <1>1, <1>2, <1>3 DEF Chained

\* A call in progress that has read the clock is of a case and is stamped.
LEMMA StampedCall ==
    ASSUME TypeOK, NEW s \in Sessions, doing[s].stage = "stamped"
    PROVE  /\ doing[s].case \in Cases
           /\ doing[s].content \in Contents \cup Statuses
           /\ doing[s].created_at \in 1..clock
  BY DEF TypeOK, Calls, Idle

\* SerialInv is about the log, the pending rows and the calls in progress only.
LEMMA SerialInvDepends ==
    ASSUME SerialInv, UNCHANGED <<log, pending, doing, raced, tampered>>
    PROVE  SerialInv'
  BY DEF SerialInv, Auditing, RowsOf, Chained, Sealed, Hashed, chain_hash, chain_payload

\* Reading the clock: the new stamp is newer than every row there is.
LEMMA StampKeepsSerial ==
    ASSUME TypeOK, SerialInv, NEW s \in Sessions, NEW c \in Cases, NEW x,
           doing[s].stage # "stamped", Stamp(s, c, x)
    PROVE  SerialInv'
<1> USE ConstantsAssumption
<1> SUFFICES ASSUME NEW d \in Cases, d \notin raced' \cup tampered'
             PROVE  /\ \A t, u \in Sessions : Auditing(t, d)' /\ Auditing(u, d)' => t = u
                    /\ Chained(RowsOf(log, d))'
                    /\ \A t \in Sessions :
                         /\ Chained(RowsOf(log \cup pending[t], d))'
                         /\ \A q \in RowsOf(log, d)', r \in RowsOf(pending[t], d)' :
                               q.created_at < r.created_at
                         /\ doing'[t].stage = "stamped" /\ doing'[t].case = d =>
                               \A r \in RowsOf(log \cup pending[t], d)' :
                                   r.created_at < doing'[t].created_at
  BY DEF SerialInv
<1>1. d \notin raced \cup tampered
  BY DEF Stamp
<1>2. UNCHANGED <<log, pending>>
  BY DEF Stamp
<1>3. doing'[s] = [stage |-> "stamped", case |-> c, content |-> x, created_at |-> clock + 1]
      /\ \A t \in Sessions \ {s} : doing'[t] = doing[t]
  BY DEF Stamp, TypeOK
<1>5. \A t \in Sessions : t # s => (Auditing(t, d)' <=> Auditing(t, d))
  BY <1>2, <1>3 DEF Auditing, RowsOf
<1>6. c # d => (Auditing(s, d)' => Auditing(s, d))
  BY <1>2, <1>3 DEF Auditing, RowsOf
<1>7. c = d => \A t \in Sessions \ {s} : ~Auditing(t, d)
  BY DEF Stamp
<1>8. \A t, u \in Sessions : Auditing(t, d)' /\ Auditing(u, d)' => t = u
  BY <1>1, <1>5, <1>6, <1>7 DEF SerialInv
<1>9. \A r \in RowsOf(log \cup pending[s], d) : r.created_at < clock + 1
  BY DEF RowsOf, TypeOK, IsRow
<1>10. Chained(RowsOf(log, d))' /\ \A t \in Sessions : Chained(RowsOf(log \cup pending[t], d))'
  BY <1>1, <1>2 DEF SerialInv, Chained, RowsOf, Sealed, Hashed, chain_hash, chain_payload
<1>11. \A t \in Sessions : \A q \in RowsOf(log, d)', r \in RowsOf(pending[t], d)' :
          q.created_at < r.created_at
  BY <1>1, <1>2 DEF SerialInv, RowsOf
<1>12. ASSUME NEW t \in Sessions, doing'[t].stage = "stamped", doing'[t].case = d,
              NEW r \in RowsOf(log \cup pending[t], d)'
       PROVE  r.created_at < doing'[t].created_at
  <2>1. r \in RowsOf(log \cup pending[t], d)
    BY <1>2 DEF RowsOf
  <2>2. CASE t = s
    BY <1>3, <1>9, <2>1, <2>2
  <2>3. CASE t # s
    BY <1>1, <1>3, <1>12, <2>1, <2>3 DEF SerialInv
  <2> QED
    BY <2>2, <2>3
<1> QED
  BY <1>8, <1>10, <1>11, <1>12

\* The rest of audit(): the session's own rows grow by one, linked to the
\* newest of what it sees.
LEMMA LinkKeepsSerial ==
    ASSUME TypeOK, SerialInv, NEW s \in Sessions, Link(s)
    PROVE  SerialInv'
<1> USE ConstantsAssumption
<1> DEFINE k == doing[s].case
           before == RowsOf(log \cup pending[s], k)
<1>1. doing[s].stage = "stamped" /\ k \in Cases /\ doing[s].created_at \in 1..clock
  BY StampedCall DEF Link
<1>2. PICK previous \in PreviousHash(s, k) :
         pending' = [pending EXCEPT ![s] = @ \cup {AuditLogRow(doing[s], previous)}]
  BY DEF Link
<1> DEFINE row == AuditLogRow(doing[s], previous)
<1>3. /\ row.case = k
      /\ row.previous_hash = previous
      /\ row.created_at = doing[s].created_at
      /\ Sealed(row)
  BY NewRow DEF Sealed
<1>4. UNCHANGED <<log, raced, tampered>>
  BY DEF Link, ghosts
<1>5. /\ pending'[s] = pending[s] \cup {row}
      /\ \A t \in Sessions \ {s} : pending'[t] = pending[t]
  BY <1>2 DEF TypeOK
<1>6. /\ doing'[s].stage = "idle"
      /\ \A t \in Sessions \ {s} : doing'[t] = doing[t]
  BY DEF Link, TypeOK, Idle
<1>7. \A d : d # k => \A t \in Sessions : RowsOf(pending'[t], d) = RowsOf(pending[t], d)
  BY <1>3, <1>5 DEF RowsOf
<1>8. RowsOf(pending'[s], k) = RowsOf(pending[s], k) \cup {row}
  BY <1>3, <1>5 DEF RowsOf
<1>9. Auditing(s, k)
  BY <1>1 DEF Auditing
<1>10. ASSUME NEW d \in Cases, NEW t \in Sessions, Auditing(t, d)'
       PROVE  Auditing(t, d)
  <2>1. (doing'[t].stage = "stamped" /\ doing'[t].case = d) \/ RowsOf(pending'[t], d) # {}
    BY <1>10 DEF Auditing, RowsOf
  <2> QED
    BY <1>5, <1>6, <1>7, <1>9, <2>1 DEF Auditing
<1>11. ASSUME k \notin raced \cup tampered
       PROVE  Chained(RowsOf(log \cup pending'[s], k))
  <2>1. RowsOf(log \cup pending'[s], k) = before \cup {row}
    BY <1>3, <1>5 DEF RowsOf
  <2>2. Chained(before)
    BY <1>1, <1>11 DEF SerialInv
  <2>3. \A r \in before : r.created_at \in Nat /\ r.created_at < row.created_at
    <3>1. \A r \in before : r.created_at \in Nat
      BY DEF RowsOf, TypeOK, IsRow
    <3>2. \A r \in before : r.created_at < doing[s].created_at
      BY <1>1, <1>11 DEF SerialInv
    <3> QED
      BY <1>3, <3>1, <3>2
  <2>4. before # {} => \E r \in Newest(before) : row.previous_hash = r.event_hash
    BY <1>2, <1>3 DEF PreviousHash
  <2>5. row.created_at \in Nat
    BY <1>1, <1>3 DEF TypeOK
  <2>6. Sealed(row)
    BY <1>3
  <2> HIDE DEF row, before
  <2>7. Chained(before \cup {row})
    BY <2>2, <2>3, <2>4, <2>5, <2>6, ChainExtends
  <2> QED
    BY <2>1, <2>7
<1>12. ASSUME NEW d \in Cases, d \notin raced \cup tampered, NEW t \in Sessions
       PROVE  Chained(RowsOf(log \cup pending'[t], d))
  <2>1. CASE t = s /\ d = k
    BY <1>11, <1>12, <2>1
  <2>2. CASE ~(t = s /\ d = k)
    <3>1. RowsOf(pending'[t], d) = RowsOf(pending[t], d)
      BY <1>5, <1>7, <2>2
    <3>2. \A rows : RowsOf(log \cup rows, d) = RowsOf(log, d) \cup RowsOf(rows, d)
      BY DEF RowsOf
    <3>3. RowsOf(log \cup pending'[t], d) = RowsOf(log \cup pending[t], d)
      BY <3>1, <3>2
    <3> QED
      BY <1>12, <3>3 DEF SerialInv
  <2> QED
    BY <2>1, <2>2
<1>13. ASSUME NEW d \in Cases, d \notin raced \cup tampered, NEW t \in Sessions,
              NEW q \in RowsOf(log, d), NEW r \in RowsOf(pending'[t], d)
       PROVE  q.created_at < r.created_at
  <2>1. CASE r \in RowsOf(pending[t], d)
    BY <1>13, <2>1 DEF SerialInv
  <2>2. CASE r \notin RowsOf(pending[t], d)
    <3>1. t = s /\ d = k /\ r = row
      BY <1>5, <1>7, <1>8, <2>2
    <3>2. q \in before
      BY <3>1, RowsOfUnion
    <3> QED
      BY <1>1, <1>3, <1>13, <3>1, <3>2 DEF SerialInv
  <2> QED
    BY <2>1, <2>2
<1>14. ASSUME NEW d \in Cases, d \notin raced \cup tampered, NEW t \in Sessions,
              doing'[t].stage = "stamped", doing'[t].case = d,
              NEW r \in RowsOf(log \cup pending'[t], d)
       PROVE  r.created_at < doing'[t].created_at
  <2>1. t # s
    BY <1>6, <1>14
  <2>2. r \in RowsOf(log \cup pending[t], d)
    BY <1>5, <1>14, <2>1
  <2> QED
    BY <1>6, <1>14, <2>1, <2>2 DEF SerialInv
<1>15. \A d \in Cases \ (raced \cup tampered) : Chained(RowsOf(log, d))
  BY DEF SerialInv
<1>16. \A d \in Cases \ (raced \cup tampered) :
          \A t, u \in Sessions : Auditing(t, d)' /\ Auditing(u, d)' => t = u
  BY <1>10 DEF SerialInv
<1> HIDE DEF row, before, k
<1>17. \A d \in Cases \ (raced \cup tampered) :
          \A t \in Sessions :
              /\ Chained(RowsOf(log \cup pending'[t], d))
              /\ \A q \in RowsOf(log, d), r \in RowsOf(pending'[t], d) :
                    q.created_at < r.created_at
              /\ doing'[t].stage = "stamped" /\ doing'[t].case = d =>
                    \A r \in RowsOf(log \cup pending'[t], d) :
                        r.created_at < doing'[t].created_at
  BY <1>12, <1>13, <1>14
<1> QED
  BY <1>4, <1>15, <1>16, <1>17
     DEF SerialInv, Chained, RowsOf, Sealed, Hashed, chain_hash, chain_payload

\* A commit moves the session's rows to the log; the chain they form with it
\* was already one.
LEMMA CommitKeepsSerial ==
    ASSUME TypeOK, SerialInv, NEW s \in Sessions, Commit(s)
    PROVE  SerialInv'
<1>1. /\ log' = log \cup pending[s]
      /\ UNCHANGED <<doing, raced, tampered>>
      /\ doing[s].stage = "idle"
  BY DEF Commit, ghosts
<1>2. pending'[s] = {} /\ \A t \in Sessions \ {s} : pending'[t] = pending[t]
  BY DEF Commit, TypeOK
<1>3. ASSUME NEW d \in Cases, NEW t \in Sessions, Auditing(t, d)' PROVE Auditing(t, d)
  BY <1>1, <1>2, <1>3 DEF Auditing, RowsOf
<1> SUFFICES ASSUME NEW d \in Cases, d \notin raced \cup tampered
             PROVE  /\ \A t, u \in Sessions : Auditing(t, d)' /\ Auditing(u, d)' => t = u
                    /\ Chained(RowsOf(log', d))
                    /\ \A t \in Sessions :
                         /\ Chained(RowsOf(log' \cup pending'[t], d))
                         /\ \A q \in RowsOf(log', d), r \in RowsOf(pending'[t], d) :
                               q.created_at < r.created_at
                         /\ doing'[t].stage = "stamped" /\ doing'[t].case = d =>
                               \A r \in RowsOf(log' \cup pending'[t], d) :
                                   r.created_at < doing'[t].created_at
  BY <1>1 DEF SerialInv, Chained, RowsOf, Sealed, Hashed, chain_hash, chain_payload
<1>4. \A t, u \in Sessions : Auditing(t, d)' /\ Auditing(u, d)' => t = u
  BY <1>3 DEF SerialInv
<1>5. Chained(RowsOf(log', d))
  BY <1>1 DEF SerialInv
<1>6. CASE RowsOf(pending[s], d) = {}
  <2>1. RowsOf(log', d) = RowsOf(log, d)
    BY <1>1, <1>6 DEF RowsOf
  <2>2. \A t \in Sessions : RowsOf(pending'[t], d) = RowsOf(pending[t], d)
    BY <1>2, <1>6 DEF RowsOf
  <2>3. \A t \in Sessions : RowsOf(log' \cup pending'[t], d) = RowsOf(log \cup pending[t], d)
    BY <2>1, <2>2 DEF RowsOf
  <2> QED
    BY <1>1, <1>4, <1>5, <2>1, <2>2, <2>3 DEF SerialInv
<1>7. CASE RowsOf(pending[s], d) # {}
  <2>1. \A t \in Sessions \ {s} : ~Auditing(t, d)
    BY <1>7 DEF SerialInv, Auditing
  <2>2. \A t \in Sessions : RowsOf(pending'[t], d) = {}
    BY <1>2, <2>1 DEF Auditing, RowsOf
  <2>3. \A t \in Sessions : RowsOf(log' \cup pending'[t], d) = RowsOf(log', d)
    BY <2>2 DEF RowsOf
  <2>4. \A t \in Sessions : ~(doing'[t].stage = "stamped" /\ doing'[t].case = d)
    BY <1>1, <2>1 DEF Auditing
  <2> QED
    BY <1>4, <1>5, <2>2, <2>3, <2>4
<1> QED
  BY <1>6, <1>7

\* A rollback forgets rows nobody else has seen.
LEMMA RollbackKeepsSerial ==
    ASSUME TypeOK, SerialInv, NEW s \in Sessions, Rollback(s)
    PROVE  SerialInv'
<1>1. UNCHANGED <<log, raced, tampered>>
  BY DEF Rollback, ghosts
<1>2. pending'[s] = {} /\ \A t \in Sessions \ {s} : pending'[t] = pending[t]
  BY DEF Rollback, TypeOK
<1>3. doing'[s].stage = "idle" /\ \A t \in Sessions \ {s} : doing'[t] = doing[t]
  BY DEF Rollback, TypeOK, Idle
<1>4. ASSUME NEW d \in Cases, NEW t \in Sessions, Auditing(t, d)'
      PROVE  t # s /\ Auditing(t, d)
  BY <1>2, <1>3, <1>4 DEF Auditing, RowsOf
<1>5. ASSUME NEW d \in Cases, d \notin raced \cup tampered, NEW t \in Sessions
      PROVE  /\ Chained(RowsOf(log \cup pending'[t], d))
             /\ \A q \in RowsOf(log, d), r \in RowsOf(pending'[t], d) :
                   q.created_at < r.created_at
             /\ doing'[t].stage = "stamped" /\ doing'[t].case = d =>
                   \A r \in RowsOf(log \cup pending'[t], d) :
                       r.created_at < doing'[t].created_at
  <2>1. CASE t = s
    <3>1. RowsOf(pending'[t], d) = {} /\ RowsOf(log \cup pending'[t], d) = RowsOf(log, d)
      BY <1>2, <2>1 DEF RowsOf
    <3> QED
      BY <1>3, <1>5, <2>1, <3>1 DEF SerialInv
  <2>2. CASE t # s
    BY <1>2, <1>3, <1>5, <2>2 DEF SerialInv
  <2> QED
    BY <2>1, <2>2
<1>6. \A d \in Cases \ (raced \cup tampered) :
         /\ \A t, u \in Sessions : Auditing(t, d)' /\ Auditing(u, d)' => t = u
         /\ Chained(RowsOf(log, d))
  BY <1>4 DEF SerialInv
<1> QED
  BY <1>1, <1>5, <1>6
     DEF SerialInv, Chained, RowsOf, Sealed, Hashed, chain_hash, chain_payload

\* An outside change of a row concerns no untouched case.
LEMMA TamperingKeepsSerial ==
    ASSUME TypeOK, SerialInv, Alter \/ Lose
    PROVE  SerialInv'
<1>1. UNCHANGED <<pending, doing, raced>>
  BY DEF Alter, Lose
<1>2. PICK r \in log :
         /\ tampered' = tampered \cup {r.case}
         /\ \A q : q.case # r.case => (q \in log' <=> q \in log)
  <2>1. CASE Alter
    <3>1. PICK r \in log, x \in Contents :
             /\ log' = (log \ {r}) \cup {[r EXCEPT !.content = x]}
             /\ tampered' = tampered \cup {r.case}
      BY <2>1 DEF Alter
    <3>2. [r EXCEPT !.content = x].case = r.case
      BY EditedRow DEF TypeOK
    <3>3. \A q : q.case # r.case => (q \in log' <=> q \in log)
      BY <3>1, <3>2
    <3> QED
      BY <3>1, <3>3
  <2>2. CASE Lose
    <3>1. PICK r \in log : log' = log \ {r} /\ tampered' = tampered \cup {r.case}
      BY <2>2 DEF Lose
    <3> QED
      BY <3>1
  <2> QED
    BY <2>1, <2>2
<1>3. ASSUME NEW d \in Cases, d \notin raced' \cup tampered'
      PROVE  /\ d \notin raced \cup tampered
             /\ RowsOf(log', d) = RowsOf(log, d)
             /\ \A rows : RowsOf(log' \cup rows, d) = RowsOf(log \cup rows, d)
  BY <1>1, <1>2, <1>3 DEF RowsOf
<1>4. ASSUME NEW d \in Cases, d \notin raced' \cup tampered'
      PROVE  /\ \A t, u \in Sessions : Auditing(t, d)' /\ Auditing(u, d)' => t = u
             /\ Chained(RowsOf(log', d))
             /\ \A t \in Sessions :
                  /\ Chained(RowsOf(log' \cup pending'[t], d))
                  /\ \A q \in RowsOf(log', d), v \in RowsOf(pending'[t], d) :
                        q.created_at < v.created_at
                  /\ doing'[t].stage = "stamped" /\ doing'[t].case = d =>
                        \A v \in RowsOf(log' \cup pending'[t], d) :
                            v.created_at < doing'[t].created_at
  <2>1. d \notin raced \cup tampered
    BY <1>3, <1>4
  <2>2. \A t \in Sessions : Auditing(t, d)' <=> Auditing(t, d)
    BY <1>1 DEF Auditing, RowsOf
  <2>3. /\ RowsOf(log', d) = RowsOf(log, d)
        /\ \A t \in Sessions : RowsOf(log' \cup pending'[t], d) = RowsOf(log \cup pending[t], d)
    BY <1>1, <1>3, <1>4
  <2> QED
    BY <1>1, <2>1, <2>2, <2>3 DEF SerialInv
<1> QED
  BY <1>4 DEF SerialInv, Chained, RowsOf, Sealed, Hashed, chain_hash, chain_payload

LEMMA SerialInvariant == Spec => []SerialInv
<1> USE ConstantsAssumption
<1>1. Init => SerialInv
  <2> SUFFICES ASSUME Init, NEW c \in Cases
               PROVE  /\ \A s \in Sessions : ~Auditing(s, c)
                      /\ \A s \in Sessions : RowsOf(pending[s], c) = {}
                      /\ \A s \in Sessions : RowsOf(log \cup pending[s], c) = RowsOf(log, c)
                      /\ Chained(RowsOf(log, c))
                      /\ \A s \in Sessions : doing[s].stage # "stamped"
    BY DEF SerialInv
  <2>1. \A s \in Sessions : doing[s].stage = "idle" /\ pending[s] = {}
    BY DEF Init, Idle
  <2>2. \A q, r \in RowsOf(log, c) : q = r /\ q.created_at = 0 /\ ~Hashed(q)
    BY DEF Init, RowsOf, Hashed
  <2>3. Chained(RowsOf(log, c))
    BY <2>2 DEF Chained, Sealed
  <2> QED
    BY <2>1, <2>3 DEF Auditing, RowsOf
<1>2. SerialInv /\ TypeOK /\ [Next]_vars => SerialInv'
  <2> SUFFICES ASSUME SerialInv, TypeOK, [Next]_vars PROVE SerialInv'
    OBVIOUS
  <2>1. ASSUME NEW s \in Sessions, CallAudit(s) PROVE SerialInv'
    BY <2>1, StampKeepsSerial DEF CallAudit
  <2>2. ASSUME NEW s \in Sessions, Link(s) PROVE SerialInv'
    BY <2>2, LinkKeepsSerial
  <2>3. ASSUME NEW s \in Sessions, Commit(s) PROVE SerialInv'
    BY <2>3, CommitKeepsSerial
  <2>4. ASSUME NEW s \in Sessions, Rollback(s) PROVE SerialInv'
    BY <2>4, RollbackKeepsSerial
  <2>5. ASSUME NEW s \in Sessions, VerifyChain(s) PROVE SerialInv'
    <3>1. UNCHANGED <<log, pending, raced, tampered>>
      BY <2>5 DEF VerifyChain, ghosts
    <3>2. \A t \in Sessions : doing'[t].stage = "stamped" => doing'[t] = doing[t]
      BY <2>5 DEF VerifyChain, TypeOK
    <3>3. \A t \in Sessions, c \in Cases : Auditing(t, c)' => Auditing(t, c)
      BY <3>1, <3>2 DEF Auditing, RowsOf
    <3>4. ASSUME NEW c \in Cases \ (raced \cup tampered)
          PROVE  /\ \A t, u \in Sessions : Auditing(t, c)' /\ Auditing(u, c)' => t = u
                 /\ \A t \in Sessions :
                       doing'[t].stage = "stamped" /\ doing'[t].case = c =>
                           \A r \in RowsOf(log \cup pending[t], c) :
                               r.created_at < doing'[t].created_at
      BY <3>2, <3>3 DEF SerialInv
    <3> QED
      BY <3>1, <3>4
         DEF SerialInv, Chained, RowsOf, Sealed, Hashed, chain_hash, chain_payload
  <2>6. ASSUME NEW s \in Sessions, AuditVerdict(s) PROVE SerialInv'
    <3>1. doing[s].case \in Cases /\ doing[s].stage # "stamped"
      BY <2>6 DEF AuditVerdict, TypeOK, Calls, Idle
    <3> QED
      BY <2>6, <3>1, StampKeepsSerial DEF AuditVerdict
  <2>7. CASE Alter \/ Lose
    BY <2>7, TamperingKeepsSerial
  <2>8. CASE UNCHANGED vars
    BY <2>8, SerialInvDepends DEF vars, ghosts
  <2> QED
    BY <2>1, <2>2, <2>3, <2>4, <2>5, <2>6, <2>7, <2>8 DEF Next, Step
<1> QED
  BY <1>1, <1>2, TypeCorrect, PTL DEF Spec

\* For any number of sessions, cases and entries: a case whose actions were
\* recorded one transaction at a time and whose rows nobody touched is never
\* reported as broken (verify_chain over what audit() wrote).
THEOREM SerialWritingVerifies == Spec => []SerialChainVerifies
<1>1. SerialInv => SerialChainVerifies
  <2> SUFFICES ASSUME SerialInv, NEW c \in Cases \ (raced \cup tampered)
               PROVE  Breaks(c) = {}
    BY DEF SerialChainVerifies, verify_chain, EMPTY, BROKEN, UNCHAINED, INTACT
  <2>1. Chained(Entries(c))
    BY DEF SerialInv, Entries
  <2>2. \A r \in Entries(c) : r.case = c
    BY DEF Entries, RowsOf
  <2>3. \A r \in Entries(c) : ~ContentAltered(r)
    BY <2>1 DEF Chained, Sealed, ContentAltered
  <2>4. \A r \in Entries(c) : ~LinkBroken(r)
    BY <2>1, <2>2 DEF Chained, LinkBroken, Before
  <2> QED
    BY <2>3, <2>4 DEF Breaks
<1> QED
  BY <1>1, SerialInvariant, PTL

(***************************************************************************)
(* What an intact verdict establishes.                                      *)
(*                                                                         *)
(* SerialInv is of no use where rows were edited or lost, and that is what  *)
(* the verdict is about. GapInv is of what was committed instead of what    *)
(* is stored: on a case where no two audits overlapped and which never lost *)
(* its newest row, the rows ever committed form a chain, for the next       *)
(* writer always finds the newest of them, edited or not.                   *)
(***************************************************************************)

\* The rows are in strict order of time, each follows the one just before it,
\* and each is sealed.
Linked(rows) ==
    /\ \A r \in rows : Sealed(r)
    /\ \A q, r \in rows : q.created_at = r.created_at => q = r
    /\ \A q, r \in rows :
          /\ q.created_at < r.created_at
          /\ \A p \in rows : p.created_at <= q.created_at \/ p.created_at >= r.created_at
          => r.previous_hash = q.event_hash

\* One session at most is auditing; what it has pending is newer than all that
\* was committed, and its clock reading is newer still.
OneWriter ==
    \A c \in Cases \ raced :
        /\ \A s, t \in Sessions : Auditing(s, c) /\ Auditing(t, c) => s = t
        /\ \A s \in Sessions :
              /\ \A q \in RowsOf(written, c), r \in RowsOf(pending[s], c) :
                    q.created_at < r.created_at
              /\ doing[s].stage = "stamped" /\ doing[s].case = c =>
                    \A r \in RowsOf(written \cup pending[s], c) :
                        r.created_at < doing[s].created_at

\* Nothing that was committed is newer than all that is stored.
NewestKept ==
    \A c \in Cases \ truncated :
        \A w \in RowsOf(written, c) :
            \E r \in RowsOf(log, c) : w.created_at <= r.created_at

CommittedChain ==
    \A c \in Cases \ (raced \cup truncated) :
        /\ Linked(RowsOf(written, c))
        /\ \A s \in Sessions : Linked(RowsOf(written \cup pending[s], c))

GapInv == OneWriter /\ NewestKept /\ CommittedChain

\* Of the rows in a set one is the newest, and one the oldest.
LEMMA NewestAndOldest ==
    ASSUME NEW rows, rows # {}, NEW n \in Nat, \A r \in rows : r.created_at \in 0..n
    PROVE  /\ \E r \in rows : \A q \in rows : q.created_at <= r.created_at
           /\ \E r \in rows : \A q \in rows : r.created_at <= q.created_at
<1>1. \A T \in SUBSET Nat : T # {} => \E x \in T : \A y \in T : x <= y
  <2> SUFFICES ASSUME NEW T \in SUBSET Nat, T # {} PROVE \E x \in T : \A y \in T : x <= y
    OBVIOUS
  <2> DEFINE Less == OpToRel(<, Nat)
  <2>1. IsWellFoundedOn(Less, Nat)
    BY NatLessThanWellFounded, Zenon
  <2> HIDE DEF Less
  <2>2. PICK x \in T : \A y \in T : <<y, x>> \notin Less
    BY <2>1, WFMin
  <2>3. \A y \in T : ~(y < x)
    BY <2>2 DEF OpToRel, Less
  <2> QED
    BY <2>3
<1>2. \E r \in rows : \A q \in rows : r.created_at <= q.created_at
  <2>1. {r.created_at : r \in rows} \in SUBSET Nat /\ {r.created_at : r \in rows} # {}
    OBVIOUS
  <2>2. PICK x \in {r.created_at : r \in rows} : \A y \in {r.created_at : r \in rows} : x <= y
    BY <1>1, <2>1
  <2> QED
    BY <2>2
<1>3. \E r \in rows : \A q \in rows : q.created_at <= r.created_at
  <2> DEFINE age(r) == n - r.created_at
  <2>1. {age(r) : r \in rows} \in SUBSET Nat /\ {age(r) : r \in rows} # {}
    OBVIOUS
  <2>2. PICK x \in {age(r) : r \in rows} : \A y \in {age(r) : r \in rows} : x <= y
    BY <1>1, <2>1
  <2>3. PICK r \in rows : x = age(r)
    BY <2>2
  <2>4. ASSUME NEW q \in rows PROVE q.created_at <= r.created_at
    <3>1. age(r) <= age(q)
      BY <2>2, <2>3
    <3> QED
      BY <3>1
  <2> QED
    BY <2>4
<1> QED
  BY <1>2, <1>3

\* A chain grows by a sealed row that is newer than all its rows and carries
\* the hash of a newest one.
LEMMA LinkedExtends ==
    ASSUME NEW rows, NEW row, Linked(rows), Sealed(row),
           row.created_at \in Nat,
           \A r \in rows : r.created_at \in Nat /\ r.created_at < row.created_at,
           rows # {} => \E r \in Newest(rows) : row.previous_hash = r.event_hash
    PROVE  Linked(rows \cup {row})
<1> DEFINE grown == rows \cup {row}
<1>1. \A r \in grown : Sealed(r)
  BY DEF Linked
<1>2. \A q, r \in grown : q.created_at = r.created_at => q = r
  BY DEF Linked
<1>3. ASSUME NEW q \in grown, NEW r \in grown, q.created_at < r.created_at,
             \A p \in grown : p.created_at <= q.created_at \/ p.created_at >= r.created_at
      PROVE  r.previous_hash = q.event_hash
  <2>1. q \in rows
    BY <1>3
  <2>2. CASE r \in rows
    BY <1>3, <2>1, <2>2 DEF Linked
  <2>3. CASE r \notin rows
    <3>1. r = row
      BY <2>3
    <3>2. PICK n \in Newest(rows) : row.previous_hash = n.event_hash
      BY <2>1
    <3>3. n \in rows /\ q.created_at <= n.created_at
      BY <2>1 DEF Newest
    <3>4. n.created_at <= q.created_at
      BY <1>3, <3>1, <3>3
    <3>5. n.created_at = q.created_at
      BY <2>1, <3>3, <3>4
    <3>6. n = q
      BY <2>1, <3>3, <3>5, Zenon DEF Linked
    <3> QED
      BY <3>1, <3>2, <3>6
  <2> QED
    BY <2>2, <2>3
<1> QED
  BY <1>1, <1>2, <1>3 DEF Linked

\* What is linked is linked whatever becomes of the variables.
LEMMA LinkedIsRigid == \A rows : Linked(rows)' <=> Linked(rows)
  BY DEF Linked, Sealed, Hashed, chain_hash, chain_payload

\* Reading the clock: the new stamp is newer than every row there is.
LEMMA StampKeepsGap ==
    ASSUME TypeOK, GapInv, NEW s \in Sessions, NEW c \in Cases, NEW x,
           doing[s].stage # "stamped", Stamp(s, c, x)
    PROVE  GapInv'
<1> USE ConstantsAssumption
<1>1. /\ UNCHANGED <<log, pending, written, truncated>> /\ raced \subseteq raced'
      /\ doing'[s] = [stage |-> "stamped", case |-> c, content |-> x, created_at |-> clock + 1]
      /\ \A t \in Sessions \ {s} : doing'[t] = doing[t]
      /\ c \notin raced' => \A t \in Sessions \ {s} : ~Auditing(t, c)
  BY DEF Stamp, TypeOK
<1>2. \A r \in written \cup pending[s] : r.created_at < clock + 1
  BY DEF TypeOK, IsRow
<1>3. NewestKept'
  BY <1>1 DEF GapInv, NewestKept, RowsOf
<1>4. CommittedChain'
  BY <1>1, LinkedIsRigid DEF GapInv, CommittedChain, RowsOf
<1>5. ASSUME NEW d \in Cases, d \notin raced'
      PROVE  /\ \A t, u \in Sessions : Auditing(t, d)' /\ Auditing(u, d)' => t = u
             /\ \A t \in Sessions :
                  /\ \A q \in RowsOf(written, d), r \in RowsOf(pending[t], d) :
                        q.created_at < r.created_at
                  /\ doing'[t].stage = "stamped" /\ doing'[t].case = d =>
                        \A r \in RowsOf(written \cup pending[t], d) :
                            r.created_at < doing'[t].created_at
  <2>0. d \notin raced
    BY <1>1, <1>5
  <2>1. \A t \in Sessions : t # s => (Auditing(t, d)' <=> Auditing(t, d))
    BY <1>1 DEF Auditing, RowsOf
  <2>2. c # d => (Auditing(s, d)' => Auditing(s, d))
    BY <1>1 DEF Auditing, RowsOf
  <2>3. \A t, u \in Sessions : Auditing(t, d)' /\ Auditing(u, d)' => t = u
    BY <1>1, <1>5, <2>0, <2>1, <2>2 DEF GapInv, OneWriter
  <2>4. ASSUME NEW t \in Sessions, doing'[t].stage = "stamped", doing'[t].case = d,
               NEW r \in RowsOf(written \cup pending[t], d)
        PROVE  r.created_at < doing'[t].created_at
    <3>1. CASE t = s
      BY <1>1, <1>2, <2>4, <3>1 DEF RowsOf
    <3>2. CASE t # s
      BY <1>1, <2>0, <2>4, <3>2 DEF GapInv, OneWriter
    <3> QED
      BY <3>1, <3>2
  <2>5. \A t \in Sessions : \A q \in RowsOf(written, d), r \in RowsOf(pending[t], d) :
           q.created_at < r.created_at
    BY <2>0 DEF GapInv, OneWriter
  <2> QED
    BY <2>3, <2>4, <2>5
<1>6. OneWriter'
  BY <1>1, <1>5 DEF OneWriter, RowsOf
<1> QED
  BY <1>3, <1>4, <1>6 DEF GapInv

\* The predecessor audit() finds is the newest row ever committed or its own,
\* though the stored row may have been edited since.
LEMMA PredecessorIsNewest ==
    ASSUME TypeOK, SealInv, GapInv, NEW s \in Sessions, NEW k \in Cases,
           k \notin raced \cup truncated, RowsOf(written \cup pending[s], k) # {},
           NEW previous \in PreviousHash(s, k)
    PROVE  \E r \in Newest(RowsOf(written \cup pending[s], k)) : previous = r.event_hash
<1> DEFINE seen == RowsOf(log \cup pending[s], k)
           before == RowsOf(written \cup pending[s], k)
<1>1. seen # {}
  BY DEF RowsOf, GapInv, NewestKept
<1>2. PICK n \in Newest(seen) : previous = n.event_hash
  BY <1>1 DEF PreviousHash
<1>3. n \in seen /\ \A q \in seen : q.created_at <= n.created_at
  BY <1>2 DEF Newest
<1>4. \A q \in before \cup seen : q.created_at \in Nat
  BY DEF TypeOK, IsRow, RowsOf
<1>5. \A v \in RowsOf(pending[s], k) : v.created_at <= n.created_at
  BY <1>3 DEF RowsOf
<1>6. CASE n \in pending[s]
  <2>1. n \in before /\ n \in RowsOf(pending[s], k)
    BY <1>3, <1>6 DEF RowsOf
  <2>2. \A v \in RowsOf(written, k) : v.created_at <= n.created_at
    BY <1>4, <2>1, RowsOfUnion DEF GapInv, OneWriter
  <2>3. \A v \in before : v.created_at <= n.created_at
    BY <1>5, <2>2, RowsOfUnion
  <2> QED
    BY <1>2, <2>1, <2>3 DEF Newest
<1>7. CASE n \in log
  <2>1. PICK w \in written : n = [w EXCEPT !.content = n.content]
    BY <1>7 DEF SealInv
  <2>2. w.case = n.case /\ w.created_at = n.created_at /\ w.event_hash = n.event_hash
    <3> PICK x : x = n.content
      OBVIOUS
    <3>1. IsRow(w)
      BY DEF TypeOK
    <3>2. [w EXCEPT !.content = x]
             = [case |-> w.case, content |-> x, previous_hash |-> w.previous_hash,
                event_hash |-> w.event_hash, created_at |-> w.created_at]
      BY <3>1, EditedRow
    <3>3. n = [w EXCEPT !.content = x]
      BY <2>1
    <3> QED
      BY <3>2, <3>3
  <2>3. w \in RowsOf(written, k) /\ w \in before
    BY <1>3, <2>2 DEF RowsOf
  <2>4. ASSUME NEW v \in RowsOf(written, k) PROVE v.created_at <= n.created_at
    <3>1. PICK r \in RowsOf(log, k) : v.created_at <= r.created_at
      BY DEF GapInv, NewestKept
    <3>2. r \in seen /\ v \in before
      BY RowsOfUnion
    <3>3. r.created_at <= n.created_at
      BY <1>3, <3>2
    <3>4. v.created_at \in Nat /\ r.created_at \in Nat /\ n.created_at \in Nat
      BY <1>3, <1>4, <3>2
    <3> QED
      BY <3>1, <3>3, <3>4
  <2>5. \A v \in before : v.created_at <= w.created_at
    BY <1>5, <2>2, <2>4, RowsOfUnion
  <2> QED
    BY <1>2, <2>2, <2>3, <2>5 DEF Newest
<1> QED
  BY <1>3, <1>6, <1>7 DEF RowsOf

\* The rest of audit(): the session's own rows grow by one, linked to the
\* newest of what was committed and its own.
LEMMA LinkKeepsGap ==
    ASSUME TypeOK, SealInv, GapInv, NEW s \in Sessions, Link(s)
    PROVE  GapInv'
<1> USE ConstantsAssumption
<1> PICK k : k = doing[s].case
  OBVIOUS
<1> PICK at : at = doing[s].created_at
  OBVIOUS
<1>1. doing[s].stage = "stamped" /\ k \in Cases /\ at \in 1..clock /\ clock \in Nat
  BY StampedCall DEF Link, TypeOK
<1>2. PICK previous \in PreviousHash(s, k) :
         pending' = [pending EXCEPT ![s] = @ \cup {AuditLogRow(doing[s], previous)}]
  BY DEF Link
<1> PICK row : row = AuditLogRow(doing[s], previous)
  OBVIOUS
<1>3. /\ row.case = k /\ row.previous_hash = previous /\ row.created_at = at
      /\ Sealed(row)
  BY NewRow DEF Sealed
<1>4. UNCHANGED <<log, written, raced, tampered, truncated>>
  BY DEF Link, ghosts
<1>5. /\ pending'[s] = pending[s] \cup {row}
      /\ \A t \in Sessions \ {s} : pending'[t] = pending[t]
  BY <1>2 DEF TypeOK
<1>6. /\ doing'[s].stage = "idle"
      /\ \A t \in Sessions \ {s} : doing'[t] = doing[t]
  BY DEF Link, TypeOK, Idle
<1>7. \A d : d # k => \A t \in Sessions : RowsOf(pending'[t], d) = RowsOf(pending[t], d)
  BY <1>3, <1>5 DEF RowsOf
<1>8. RowsOf(pending'[s], k) = RowsOf(pending[s], k) \cup {row}
  BY <1>3, <1>5 DEF RowsOf
<1>9. Auditing(s, k)
  BY <1>1 DEF Auditing
<1>10. ASSUME NEW d \in Cases, NEW t \in Sessions, Auditing(t, d)'
       PROVE  Auditing(t, d)
  <2>1. (doing'[t].stage = "stamped" /\ doing'[t].case = d) \/ RowsOf(pending'[t], d) # {}
    BY <1>10 DEF Auditing, RowsOf
  <2> QED
    BY <1>5, <1>6, <1>7, <1>9, <2>1 DEF Auditing
<1>11. k \notin raced => \A r \in RowsOf(written \cup pending[s], k) : r.created_at < at
  BY <1>1 DEF GapInv, OneWriter
<1>12. NewestKept'
  BY <1>4 DEF GapInv, NewestKept, RowsOf
<1>13. OneWriter'
  <2> SUFFICES ASSUME NEW d \in Cases, d \notin raced
               PROVE  /\ \A t, u \in Sessions : Auditing(t, d)' /\ Auditing(u, d)' => t = u
                      /\ \A t \in Sessions :
                           /\ \A q \in RowsOf(written, d), r \in RowsOf(pending'[t], d) :
                                 q.created_at < r.created_at
                           /\ doing'[t].stage = "stamped" /\ doing'[t].case = d =>
                                 \A r \in RowsOf(written \cup pending'[t], d) :
                                     r.created_at < doing'[t].created_at
    BY <1>4 DEF OneWriter, RowsOf
  <2>1. \A t, u \in Sessions : Auditing(t, d)' /\ Auditing(u, d)' => t = u
    BY <1>10 DEF GapInv, OneWriter
  <2>2. ASSUME NEW t \in Sessions, NEW q \in RowsOf(written, d), NEW r \in RowsOf(pending'[t], d)
        PROVE  q.created_at < r.created_at
    <3>1. CASE r \in RowsOf(pending[t], d)
      BY <3>1 DEF GapInv, OneWriter
    <3>2. CASE r \notin RowsOf(pending[t], d)
      <4>0. RowsOf(pending'[t], d) # RowsOf(pending[t], d)
        BY <3>2
      <4>1a. t = s
        BY <1>5, <4>0
      <4>1b. d = k
        BY <1>7, <4>0
      <4>1c. r = row
        BY <1>8, <3>2, <4>1a, <4>1b
      <4>1. t = s /\ d = k /\ r = row
        BY <4>1a, <4>1b, <4>1c
      <4>2. q \in RowsOf(written \cup pending[s], k)
        BY <4>1, RowsOfUnion
      <4> QED
        BY <1>3, <1>11, <4>1, <4>2
    <3> QED
      BY <3>1, <3>2
  <2>3. ASSUME NEW t \in Sessions, doing'[t].stage = "stamped", doing'[t].case = d,
               NEW r \in RowsOf(written \cup pending'[t], d)
        PROVE  r.created_at < doing'[t].created_at
    <3>1. t # s
      BY <1>6, <2>3
    <3>2. r \in RowsOf(written \cup pending[t], d) /\ doing'[t] = doing[t]
      BY <1>5, <1>6, <2>3, <3>1
    <3> QED
      BY <2>3, <3>2 DEF GapInv, OneWriter
  <2> QED
    BY <2>1, <2>2, <2>3
<1>14. ASSUME k \notin raced \cup truncated
       PROVE  Linked(RowsOf(written \cup pending'[s], k))
  <2> PICK before : before = RowsOf(written \cup pending[s], k)
    OBVIOUS
  <2>1. RowsOf(written \cup pending'[s], k) = before \cup {row}
    BY <1>3, <1>5 DEF RowsOf
  <2>2. Linked(before)
    BY <1>1, <1>14 DEF GapInv, CommittedChain
  <2>3. \A r \in before : r.created_at \in Nat /\ r.created_at < row.created_at
    <3>1. \A r \in before : r.created_at \in Nat
      BY DEF RowsOf, TypeOK, IsRow
    <3> QED
      BY <1>3, <1>11, <1>14, <3>1
  <2>4. before # {} => \E r \in Newest(before) : row.previous_hash = r.event_hash
    BY <1>1, <1>3, <1>14, PredecessorIsNewest
  <2>5. row.created_at \in Nat
    BY <1>1, <1>3
  <2>6. Linked(before \cup {row})
    BY <1>3, <2>2, <2>3, <2>4, <2>5, LinkedExtends
  <2> QED
    BY <2>1, <2>6
<1>15. CommittedChain'
  <2> SUFFICES ASSUME NEW d \in Cases, d \notin raced \cup truncated
               PROVE  /\ Linked(RowsOf(written, d))
                      /\ \A t \in Sessions : Linked(RowsOf(written \cup pending'[t], d))
    BY <1>4, LinkedIsRigid DEF CommittedChain, RowsOf
  <2>1. ASSUME NEW t \in Sessions PROVE Linked(RowsOf(written \cup pending'[t], d))
    <3>1. CASE t = s /\ d = k
      BY <1>14, <3>1
    <3>2. CASE ~(t = s /\ d = k)
      <4>1. RowsOf(pending'[t], d) = RowsOf(pending[t], d)
        BY <1>5, <1>7, <3>2
      <4>2. \A rows : RowsOf(written \cup rows, d) = RowsOf(written, d) \cup RowsOf(rows, d)
        BY DEF RowsOf
      <4>3. RowsOf(written \cup pending'[t], d) = RowsOf(written \cup pending[t], d)
        BY <4>1, <4>2
      <4> QED
        BY <4>3 DEF GapInv, CommittedChain
    <3> QED
      BY <3>1, <3>2
  <2>2. Linked(RowsOf(written, d))
    BY DEF GapInv, CommittedChain
  <2> QED
    BY <2>1, <2>2
<1> QED
  BY <1>12, <1>13, <1>15 DEF GapInv

\* A step that moves no row and starts no audit.
LEMMA GapFrame ==
    ASSUME TypeOK, GapInv, UNCHANGED <<log, pending, written, raced, truncated>>,
           \A t \in Sessions : doing'[t].stage = "stamped" => doing'[t] = doing[t]
    PROVE  GapInv'
<1>1. \A t \in Sessions, c \in Cases : Auditing(t, c)' => Auditing(t, c)
  BY DEF Auditing, RowsOf
<1>2. OneWriter'
  <2> SUFFICES ASSUME NEW d \in Cases, d \notin raced
               PROVE  /\ \A t, u \in Sessions : Auditing(t, d)' /\ Auditing(u, d)' => t = u
                      /\ \A t \in Sessions :
                           /\ \A q \in RowsOf(written, d), r \in RowsOf(pending[t], d) :
                                 q.created_at < r.created_at
                           /\ doing'[t].stage = "stamped" /\ doing'[t].case = d =>
                                 \A r \in RowsOf(written \cup pending[t], d) :
                                     r.created_at < doing'[t].created_at
    BY DEF OneWriter, RowsOf
  <2> QED
    BY <1>1 DEF GapInv, OneWriter
<1>3. NewestKept'
  BY DEF GapInv, NewestKept, RowsOf
<1>4. CommittedChain'
  BY LinkedIsRigid DEF GapInv, CommittedChain, RowsOf
<1> QED
  BY <1>2, <1>3, <1>4 DEF GapInv

\* A commit moves the session's rows to what was committed; the chain they
\* form with it was already one.
LEMMA CommitKeepsGap ==
    ASSUME TypeOK, GapInv, NEW s \in Sessions, Commit(s)
    PROVE  GapInv'
<1>1. /\ log' = log \cup pending[s] /\ written' = written \cup pending[s]
      /\ UNCHANGED <<doing, raced, truncated>>
      /\ doing[s].stage = "idle"
  BY DEF Commit, ghosts
<1>2. pending'[s] = {} /\ \A t \in Sessions \ {s} : pending'[t] = pending[t]
  BY DEF Commit, TypeOK
<1>3. ASSUME NEW d \in Cases, NEW t \in Sessions, Auditing(t, d)' PROVE Auditing(t, d)
  BY <1>1, <1>2, <1>3 DEF Auditing, RowsOf
<1>4. \A d \in Cases : \A t \in Sessions :
         RowsOf(written \cup pending[t], d) = RowsOf(written, d) \cup RowsOf(pending[t], d)
  BY RowsOfUnion
<1>5. NewestKept'
  <2> SUFFICES ASSUME NEW d \in Cases \ truncated, NEW w \in RowsOf(written', d)
               PROVE  \E r \in RowsOf(log', d) : w.created_at <= r.created_at
    BY <1>1 DEF NewestKept, RowsOf
  <2>1. CASE w \in written
    <3>1. w \in RowsOf(written, d)
      BY <2>1 DEF RowsOf
    <3>2. PICK r \in RowsOf(log, d) : w.created_at <= r.created_at
      BY <3>1 DEF GapInv, NewestKept
    <3> QED
      BY <1>1, <3>2 DEF RowsOf
  <2>2. CASE w \in pending[s]
    <3>1. w \in RowsOf(log', d) /\ w.created_at \in Nat
      BY <1>1, <2>2 DEF RowsOf, TypeOK, IsRow
    <3>2. w.created_at <= w.created_at
      BY <3>1
    <3> QED
      BY <3>1, <3>2
  <2> QED
    BY <1>1, <2>1, <2>2 DEF RowsOf
<1>6. ASSUME NEW d \in Cases, RowsOf(pending[s], d) = {}
      PROVE  /\ RowsOf(written', d) = RowsOf(written, d)
             /\ \A t \in Sessions : /\ RowsOf(pending'[t], d) = RowsOf(pending[t], d)
                                    /\ RowsOf(written' \cup pending'[t], d)
                                          = RowsOf(written \cup pending[t], d)
  <2>1. RowsOf(written', d) = RowsOf(written, d)
    BY <1>1, <1>6 DEF RowsOf
  <2>2. \A t \in Sessions : RowsOf(pending'[t], d) = RowsOf(pending[t], d)
    BY <1>2, <1>6 DEF RowsOf
  <2> QED
    BY <2>1, <2>2 DEF RowsOf
<1>7. ASSUME NEW d \in Cases \ raced, RowsOf(pending[s], d) # {}
      PROVE  /\ \A t \in Sessions : /\ RowsOf(pending'[t], d) = {}
                                    /\ RowsOf(written' \cup pending'[t], d) = RowsOf(written', d)
                                    /\ ~(doing'[t].stage = "stamped" /\ doing'[t].case = d)
             /\ RowsOf(written', d) = RowsOf(written \cup pending[s], d)
  <2>1. \A t \in Sessions \ {s} : ~Auditing(t, d)
    BY <1>7 DEF GapInv, OneWriter, Auditing
  <2>2. \A t \in Sessions : RowsOf(pending'[t], d) = {}
    BY <1>2, <2>1 DEF Auditing, RowsOf
  <2>3. \A t \in Sessions : RowsOf(written' \cup pending'[t], d) = RowsOf(written', d)
    BY <2>2 DEF RowsOf
  <2>4. \A t \in Sessions : ~(doing'[t].stage = "stamped" /\ doing'[t].case = d)
    BY <1>1, <2>1 DEF Auditing
  <2> QED
    BY <1>1, <2>2, <2>3, <2>4
<1>8. OneWriter'
  <2> SUFFICES ASSUME NEW d \in Cases, d \notin raced
               PROVE  /\ \A t, u \in Sessions : Auditing(t, d)' /\ Auditing(u, d)' => t = u
                      /\ \A t \in Sessions :
                           /\ \A q \in RowsOf(written', d), r \in RowsOf(pending'[t], d) :
                                 q.created_at < r.created_at
                           /\ doing'[t].stage = "stamped" /\ doing'[t].case = d =>
                                 \A r \in RowsOf(written' \cup pending'[t], d) :
                                     r.created_at < doing'[t].created_at
    BY <1>1 DEF OneWriter, RowsOf
  <2>1. \A t, u \in Sessions : Auditing(t, d)' /\ Auditing(u, d)' => t = u
    BY <1>3 DEF GapInv, OneWriter
  <2>2. CASE RowsOf(pending[s], d) = {}
    BY <1>1, <1>6, <2>1, <2>2 DEF GapInv, OneWriter
  <2>3. CASE RowsOf(pending[s], d) # {}
    BY <1>7, <2>1, <2>3
  <2> QED
    BY <2>2, <2>3
<1>9. CommittedChain'
  <2> SUFFICES ASSUME NEW d \in Cases, d \notin raced \cup truncated
               PROVE  /\ Linked(RowsOf(written', d))
                      /\ \A t \in Sessions : Linked(RowsOf(written' \cup pending'[t], d))
    BY <1>1, LinkedIsRigid DEF CommittedChain, RowsOf
  <2>1. CASE RowsOf(pending[s], d) = {}
    BY <1>6, <2>1 DEF GapInv, CommittedChain
  <2>2. CASE RowsOf(pending[s], d) # {}
    <3>1. Linked(RowsOf(written \cup pending[s], d))
      BY DEF GapInv, CommittedChain
    <3> QED
      BY <1>7, <2>2, <3>1
  <2> QED
    BY <2>1, <2>2
<1> QED
  BY <1>5, <1>8, <1>9 DEF GapInv

\* A rollback forgets rows nobody else has seen.
LEMMA RollbackKeepsGap ==
    ASSUME TypeOK, GapInv, NEW s \in Sessions, Rollback(s)
    PROVE  GapInv'
<1>1. UNCHANGED <<log, written, raced, truncated>>
  BY DEF Rollback, ghosts
<1>2. pending'[s] = {} /\ \A t \in Sessions \ {s} : pending'[t] = pending[t]
  BY DEF Rollback, TypeOK
<1>3. doing'[s].stage = "idle" /\ \A t \in Sessions \ {s} : doing'[t] = doing[t]
  BY DEF Rollback, TypeOK, Idle
<1>4. ASSUME NEW d \in Cases, NEW t \in Sessions, Auditing(t, d)'
      PROVE  t # s /\ Auditing(t, d)
  BY <1>2, <1>3, <1>4 DEF Auditing, RowsOf
<1>5. \A d \in Cases : RowsOf(pending'[s], d) = {} /\ RowsOf(written \cup pending'[s], d) = RowsOf(written, d)
  BY <1>2 DEF RowsOf
<1>6. OneWriter'
  <2> SUFFICES ASSUME NEW d \in Cases, d \notin raced
               PROVE  /\ \A t, u \in Sessions : Auditing(t, d)' /\ Auditing(u, d)' => t = u
                      /\ \A t \in Sessions :
                           /\ \A q \in RowsOf(written, d), r \in RowsOf(pending'[t], d) :
                                 q.created_at < r.created_at
                           /\ doing'[t].stage = "stamped" /\ doing'[t].case = d =>
                                 \A r \in RowsOf(written \cup pending'[t], d) :
                                     r.created_at < doing'[t].created_at
    BY <1>1 DEF OneWriter, RowsOf
  <2>1. \A t, u \in Sessions : Auditing(t, d)' /\ Auditing(u, d)' => t = u
    BY <1>4 DEF GapInv, OneWriter
  <2> QED
    BY <1>2, <1>3, <1>5, <2>1 DEF GapInv, OneWriter
<1>7. NewestKept'
  BY <1>1 DEF GapInv, NewestKept, RowsOf
<1>8. CommittedChain'
  <2> SUFFICES ASSUME NEW d \in Cases, d \notin raced \cup truncated
               PROVE  /\ Linked(RowsOf(written, d))
                      /\ \A t \in Sessions : Linked(RowsOf(written \cup pending'[t], d))
    BY <1>1, LinkedIsRigid DEF CommittedChain, RowsOf
  <2>1. Linked(RowsOf(written, d)) /\ \A t \in Sessions : Linked(RowsOf(written \cup pending[t], d))
    BY DEF GapInv, CommittedChain
  <2> QED
    BY <1>2, <1>5, <2>1
<1> QED
  BY <1>6, <1>7, <1>8 DEF GapInv

\* An edit keeps a row's time; a loss that is not the newest row's leaves one
\* newer.
LEMMA TamperingKeepsGap ==
    ASSUME TypeOK, GapInv, Alter \/ Lose
    PROVE  GapInv'
<1>1. UNCHANGED <<pending, doing, written, raced>> /\ truncated \subseteq truncated'
  BY DEF Alter, Lose
<1>2. OneWriter'
  <2>1. \A t \in Sessions, d \in Cases : Auditing(t, d)' <=> Auditing(t, d)
    BY <1>1 DEF Auditing, RowsOf
  <2> QED
    BY <1>1, <2>1 DEF GapInv, OneWriter, RowsOf
<1>3. CommittedChain'
  BY <1>1, LinkedIsRigid DEF GapInv, CommittedChain, RowsOf
<1>4. NewestKept'
  <2> SUFFICES ASSUME NEW d \in Cases, d \notin truncated', NEW w \in RowsOf(written, d)
               PROVE  \E r \in RowsOf(log', d) : w.created_at <= r.created_at
    BY <1>1 DEF NewestKept, RowsOf
  <2>1. PICK r \in RowsOf(log, d) : w.created_at <= r.created_at
    BY <1>1 DEF GapInv, NewestKept
  <2>2. r \in log /\ r.case = d /\ IsRow(r)
    BY DEF RowsOf, TypeOK
  <2>3. CASE Alter
    <3>1. PICK e \in log, x \in Contents : log' = (log \ {e}) \cup {[e EXCEPT !.content = x]}
      BY <2>3 DEF Alter
    <3>2. CASE r # e
      BY <2>1, <2>2, <3>1, <3>2 DEF RowsOf
    <3>3. CASE r = e
      <4>1. [r EXCEPT !.content = x].case = d
            /\ [r EXCEPT !.content = x].created_at = r.created_at
        BY <2>2, EditedRow
      <4>2. [r EXCEPT !.content = x] \in RowsOf(log', d)
        BY <3>1, <3>3, <4>1 DEF RowsOf
      <4> QED
        BY <2>1, <4>1, <4>2
    <3> QED
      BY <3>2, <3>3
  <2>4. CASE Lose
    <3>1. PICK e \in log : /\ log' = log \ {e}
                           /\ truncated' = IF e \in Newest(Entries(e.case))
                                           THEN truncated \cup {e.case} ELSE truncated
      BY <2>4 DEF Lose
    <3>2. CASE r # e
      BY <2>1, <2>2, <3>1, <3>2 DEF RowsOf
    <3>3. CASE r = e
      <4>1. r \notin Newest(Entries(d))
        BY <2>2, <3>1, <3>3
      <4>2. PICK q \in Entries(d) : ~(q.created_at <= r.created_at)
        BY <2>2, <4>1 DEF Newest, Entries, RowsOf
      <4>3. q.created_at \in Nat /\ r.created_at \in Nat /\ w.created_at \in Nat
        BY DEF Entries, RowsOf, TypeOK, IsRow
      <4>4. q # r /\ w.created_at <= q.created_at
        BY <2>1, <4>2, <4>3
      <4>5. q \in RowsOf(log', d)
        BY <3>1, <3>3, <4>4 DEF Entries, RowsOf
      <4> QED
        BY <4>4, <4>5
    <3> QED
      BY <3>2, <3>3
  <2> QED
    BY <2>3, <2>4
<1> QED
  BY <1>2, <1>3, <1>4 DEF GapInv

LEMMA GapInvariant == Spec => []GapInv
<1> USE ConstantsAssumption
<1>1. Init => GapInv
  <2> SUFFICES ASSUME Init PROVE GapInv
    OBVIOUS
  <2>1. \A s \in Sessions : doing[s].stage = "idle" /\ pending[s] = {}
    BY DEF Init, Idle
  <2>2. /\ written = log
        /\ \A c \in Cases : \A q, r \in RowsOf(log, c) : q = r /\ q.created_at = 0 /\ ~Hashed(q)
    BY DEF Init, RowsOf, Hashed
  <2>3. \A c \in Cases : Linked(RowsOf(written, c))
    BY <2>2 DEF Linked, Sealed
  <2>4. \A c \in Cases : \A s \in Sessions :
           /\ RowsOf(pending[s], c) = {}
           /\ RowsOf(written \cup pending[s], c) = RowsOf(written, c)
    BY <2>1 DEF RowsOf
  <2>5. OneWriter
    BY <2>1, <2>4 DEF OneWriter, Auditing
  <2>6. NewestKept
    BY <2>2 DEF NewestKept
  <2>7. CommittedChain
    BY <2>3, <2>4 DEF CommittedChain
  <2> QED
    BY <2>5, <2>6, <2>7 DEF GapInv
<1>2. TypeOK /\ SealInv /\ GapInv /\ [Next]_vars => GapInv'
  <2> SUFFICES ASSUME TypeOK, SealInv, GapInv, [Next]_vars PROVE GapInv'
    OBVIOUS
  <2>1. ASSUME NEW s \in Sessions, CallAudit(s) PROVE GapInv'
    BY <2>1, StampKeepsGap DEF CallAudit
  <2>2. ASSUME NEW s \in Sessions, Link(s) PROVE GapInv'
    BY <2>2, LinkKeepsGap
  <2>3. ASSUME NEW s \in Sessions, Commit(s) PROVE GapInv'
    BY <2>3, CommitKeepsGap
  <2>4. ASSUME NEW s \in Sessions, Rollback(s) PROVE GapInv'
    BY <2>4, RollbackKeepsGap
  <2>5. ASSUME NEW s \in Sessions, VerifyChain(s) PROVE GapInv'
    <3>1. UNCHANGED <<log, pending, written, raced, truncated>>
      BY <2>5 DEF VerifyChain, ghosts
    <3>2. \A t \in Sessions : doing'[t].stage = "stamped" => doing'[t] = doing[t]
      BY <2>5 DEF VerifyChain, TypeOK
    <3> QED
      BY <3>1, <3>2, GapFrame
  <2>6. ASSUME NEW s \in Sessions, AuditVerdict(s) PROVE GapInv'
    <3>1. doing[s].case \in Cases /\ doing[s].stage # "stamped"
      BY <2>6 DEF AuditVerdict, TypeOK, Calls, Idle
    <3> QED
      BY <2>6, <3>1, StampKeepsGap DEF AuditVerdict
  <2>7. CASE Alter \/ Lose
    BY <2>7, TamperingKeepsGap
  <2>8. CASE UNCHANGED vars
    BY <2>8, GapFrame DEF vars, ghosts
  <2> QED
    BY <2>1, <2>2, <2>3, <2>4, <2>5, <2>6, <2>7, <2>8 DEF Next, Step
<1> QED
  BY <1>1, <1>2, TypeCorrect, SealInvariant, PTL DEF Spec

\* IntactMeansGapless holds of every run, whatever was edited or lost: on a
\* serially written case that never lost its newest row, a verdict of intact
\* (verify_chain) means that the stored entries are as committed and that none
\* is missing between two of them.
THEOREM IntactIsGapless == Spec => []IntactMeansGapless
<1> USE ConstantsAssumption
<1>1. TypeOK /\ SealInv /\ GapInv /\ FaultNamesAlteredEntry => IntactMeansGapless
  <2> SUFFICES ASSUME TypeOK, SealInv, GapInv, FaultNamesAlteredEntry,
                      NEW c \in Cases, c \notin raced \cup truncated,
                      verify_chain(c) = INTACT
               PROVE  /\ Entries(c) \subseteq written
                      /\ \A w \in RowsOf(written, c), q, r \in Entries(c) :
                            q.created_at < w.created_at /\ w.created_at < r.created_at
                                => w \in Entries(c)
    BY DEF IntactMeansGapless
  <2>1. Breaks(c) = {} /\ \A r \in Entries(c) : Hashed(r)
    BY DEF verify_chain, EMPTY, BROKEN, UNCHAINED, INTACT
  <2>2. \A r \in Entries(c) : r \in log /\ r.case = c /\ Hashed(r) /\ ~ContentAltered(r) /\ ~LinkBroken(r)
    BY <2>1 DEF Breaks, Entries, RowsOf
  <2>3. Entries(c) \subseteq RowsOf(written, c)
    BY <2>2 DEF FaultNamesAlteredEntry, RowsOf
  <2>4. \A r \in RowsOf(written, c) : r \in written /\ r.created_at \in Nat /\ r.created_at \in 0..clock
                                      /\ IsRow(r) /\ Sealed(r)
    BY DEF RowsOf, TypeOK, IsRow, SealInv
  <2>5. clock \in Nat
    BY DEF TypeOK
  <2>6. Linked(RowsOf(written, c))
    BY DEF GapInv, CommittedChain
  <2>7. ASSUME NEW w \in RowsOf(written, c), NEW q \in Entries(c), NEW r \in Entries(c),
               q.created_at < w.created_at, w.created_at < r.created_at, w \notin Entries(c)
        PROVE  FALSE
    <3> PICK earlier : earlier = {e \in Entries(c) : e.created_at < w.created_at}
      OBVIOUS
    <3> PICK later : later = {e \in Entries(c) : w.created_at < e.created_at}
      OBVIOUS
    <3>1. PICK a \in earlier : \A e \in earlier : e.created_at <= a.created_at
      <4>1. earlier # {} /\ \A e \in earlier : e.created_at \in 0..clock
        BY <2>3, <2>4, <2>7
      <4> QED
        BY <2>5, <4>1, NewestAndOldest
    <3>2. PICK b \in later : \A e \in later : b.created_at <= e.created_at
      <4>1. later # {} /\ \A e \in later : e.created_at \in 0..clock
        BY <2>3, <2>4, <2>7
      <4> QED
        BY <2>5, <4>1, NewestAndOldest
    <3>3. /\ a \in Entries(c) /\ a.created_at < w.created_at /\ a \in RowsOf(written, c)
          /\ b \in Entries(c) /\ w.created_at < b.created_at /\ b \in RowsOf(written, c)
          /\ a.created_at \in Nat /\ b.created_at \in Nat /\ w.created_at \in Nat
      BY <2>3, <2>4, <3>1, <3>2
    <3>4. Before(a, b)
      <4>1. a.created_at < b.created_at
        BY <3>3
      <4>2. ASSUME NEW e \in Entries(c)
            PROVE  e.created_at <= a.created_at \/ e.created_at >= b.created_at
        <5>1. e.created_at \in Nat /\ e \in RowsOf(written, c)
          BY <2>3, <2>4
        <5>2. e.created_at # w.created_at
          BY <2>6, <2>7, <5>1 DEF Linked
        <5>3. e.created_at < w.created_at \/ w.created_at < e.created_at
          BY <3>3, <5>1, <5>2
        <5>4. e \in earlier \/ e \in later
          BY <5>3
        <5> QED
          BY <3>1, <3>2, <3>3, <5>1, <5>4
      <4> QED
        BY <2>2, <3>3, <4>1, <4>2 DEF Before
    <3>5. b.previous_hash = a.event_hash
      BY <2>2, <3>3, <3>4 DEF LinkBroken
    <3> PICK prior : prior = {e \in RowsOf(written, c) : e.created_at < b.created_at}
      OBVIOUS
    <3>6. PICK p \in prior : \A e \in prior : e.created_at <= p.created_at
      <4>1. prior # {} /\ \A e \in prior : e.created_at \in 0..clock
        BY <2>4, <3>3
      <4> QED
        BY <2>5, <4>1, NewestAndOldest
    <3>7. /\ p \in RowsOf(written, c) /\ p.created_at < b.created_at /\ p.created_at \in Nat
          /\ w.created_at <= p.created_at
      BY <2>4, <3>3, <3>6
    <3>8. \A e \in RowsOf(written, c) :
             e.created_at <= p.created_at \/ e.created_at >= b.created_at
      BY <2>4, <3>3, <3>6
    <3>9. b.previous_hash = p.event_hash
      BY <2>6, <3>3, <3>7, <3>8 DEF Linked
    <3>10. a.event_hash = p.event_hash /\ Hashed(a) /\ Sealed(a) /\ Sealed(p)
      BY <2>2, <2>4, <3>3, <3>5, <3>7, <3>9
    <3>11. chain_hash(chain_payload(a)) = chain_hash(chain_payload(p))
      BY <3>10 DEF Sealed, Hashed
    <3>12. a.created_at = p.created_at
      BY <3>11 DEF chain_hash, chain_payload
    <3> QED
      BY <3>3, <3>7, <3>12
  <2> QED
    BY <2>3, <2>7 DEF RowsOf
<1> QED
  BY <1>1, TypeCorrect, SealInvariant, GapInvariant, FaultIsExact, PTL

(***************************************************************************)
(* No commit repairs a broken chain.                                        *)
(*                                                                         *)
(* A row that lands late between two others is in the newest place before   *)
(* the later of them, which cannot follow it: until its commit nobody else  *)
(* has seen it. StampInv says so by clock readings, each of which is one    *)
(* row's, whoever links to what in whatever order.                          *)
(***************************************************************************)

\* The readings a session has and nobody else has seen.
Owns(s, k) ==
    \/ \E p \in pending[s] : p.created_at = k
    \/ doing[s].stage = "stamped" /\ doing[s].created_at = k

\* The reading is this row's, or that of the row it follows.
Uses(r, k) ==
    \/ r.created_at = k
    \/ r.previous_hash # None /\ r.previous_hash.sha256.created_at = k

ReadingsApart ==
    \A s \in Sessions : \A k \in 0..clock : Owns(s, k) =>
        /\ \A r \in log : ~Uses(r, k)
        /\ \A t \in Sessions \ {s} : ~Owns(t, k) /\ \A r \in pending[t] : ~Uses(r, k)

FollowsThePast(r) == r.previous_hash # None => r.previous_hash.sha256.created_at \in 0..clock

StampInv ==
    /\ ReadingsApart
    /\ \A r \in log : FollowsThePast(r)
    /\ \A s \in Sessions : \A p \in pending[s] :
          FollowsThePast(p) /\ p.event_hash = chain_hash(chain_payload(p))

\* A hash tells when its row was stamped, also if the row was edited since.
LEMMA HashOfRow == \A r : chain_hash(chain_payload(r)).sha256.created_at = r.created_at
  BY DEF chain_hash, chain_payload

LEMMA HashTime ==
    ASSUME TypeOK, SealInv, StampInv, NEW s \in Sessions, NEW q \in log \cup pending[s], q.event_hash # None
    PROVE  q.event_hash.sha256.created_at = q.created_at
<1>1. CASE q \in pending[s]
  <2>1. q.event_hash = chain_hash(chain_payload(q))
    BY <1>1 DEF StampInv
  <2> QED
    BY <2>1, HashOfRow
<1>2. CASE q \in log
  <2> PICK x : x = q.content
    OBVIOUS
  <2>1. PICK w \in written : q = [w EXCEPT !.content = x]
    BY <1>2 DEF SealInv
  <2>2. IsRow(w)
    BY DEF TypeOK
  <2>3. q.event_hash = w.event_hash /\ q.created_at = w.created_at
    BY <2>1, <2>2, EditedRow
  <2>4. w.event_hash = chain_hash(chain_payload(w))
    BY <2>3 DEF SealInv, Sealed, Hashed
  <2> QED
    BY <2>3, <2>4, HashOfRow
<1> QED
  BY <1>1, <1>2

LEMMA StampTime ==
    ASSUME TypeOK, NEW s \in Sessions, doing[s].stage = "stamped"
    PROVE  doing[s].created_at \in 1..clock
BY DEF TypeOK, Calls, Idle

LEMMA StampKeepsReadings ==
    ASSUME TypeOK, StampInv, NEW s \in Sessions, NEW c \in Cases, NEW x,
           doing[s].stage # "stamped", Stamp(s, c, x)
    PROVE  StampInv'
<1> USE ConstantsAssumption
<1>1. /\ UNCHANGED <<log, pending, written>> /\ clock \in Nat /\ clock' = clock + 1
      /\ doing'[s].stage = "stamped" /\ doing'[s].created_at = clock + 1
      /\ \A t \in Sessions \ {s} : doing'[t] = doing[t]
  BY DEF Stamp, TypeOK
<1>2. /\ \A r \in log : r.created_at \in 0..clock
      /\ \A t \in Sessions : \A r \in pending[t] : r.created_at \in 0..clock
  BY DEF TypeOK, IsRow
<1>3. /\ \A r \in log : ~Uses(r, clock + 1)
      /\ \A t \in Sessions : \A r \in pending[t] : ~Uses(r, clock + 1)
  <2>1. ASSUME NEW r, r.created_at \in 0..clock, FollowsThePast(r)
        PROVE  ~Uses(r, clock + 1)
    BY <1>1, <2>1 DEF Uses, FollowsThePast
  <2> QED
    BY <1>2, <2>1 DEF StampInv
<1>4. \A t \in Sessions : ~Owns(t, clock + 1)
  BY <1>1, <1>2, StampTime DEF Owns
<1>5. \A t \in Sessions : \A k \in 0..clock' : Owns(t, k)' =>
        \/ Owns(t, k) /\ k \in 0..clock
        \/ t = s /\ k = clock + 1
  BY <1>1, <1>4 DEF Owns
<1>6. \A r, k : Uses(r, k)' <=> Uses(r, k)
  BY DEF Uses
<1>7. ReadingsApart'
  <2> SUFFICES ASSUME NEW t \in Sessions, NEW k \in 0..clock', Owns(t, k)'
               PROVE  /\ \A r \in log : ~Uses(r, k)
                      /\ \A u \in Sessions \ {t} : ~Owns(u, k)' /\ \A r \in pending[u] : ~Uses(r, k)
    BY <1>1, <1>6 DEF ReadingsApart
  <2>1. CASE Owns(t, k) /\ k \in 0..clock
    <3>1. /\ \A r \in log : ~Uses(r, k)
          /\ \A u \in Sessions \ {t} : ~Owns(u, k) /\ \A r \in pending[u] : ~Uses(r, k)
      BY <2>1 DEF StampInv, ReadingsApart
    <3>2. k # clock + 1
      BY <1>1, <2>1
    <3> QED
      BY <1>5, <3>1, <3>2
  <2>2. CASE t = s /\ k = clock + 1
    <3>1. \A u \in Sessions \ {t} : ~Owns(u, k)'
      BY <1>4, <1>5, <2>2
    <3> QED
      BY <1>3, <2>2, <3>1
  <2> QED
    BY <1>5, <2>1, <2>2
<1>8. \A r : FollowsThePast(r) => FollowsThePast(r)'
  BY <1>1 DEF FollowsThePast
<1> QED
  BY <1>1, <1>7, <1>8 DEF StampInv

\* The row a session builds follows one that it can see.
LEMMA LinkKeepsReadings ==
    ASSUME TypeOK, SealInv, StampInv, NEW s \in Sessions, Link(s)
    PROVE  StampInv'
<1>1. PICK previous \in PreviousHash(s, doing[s].case) :
         pending' = [pending EXCEPT ![s] = @ \cup {AuditLogRow(doing[s], previous)}]
  BY DEF Link
<1> PICK row : row = AuditLogRow(doing[s], previous)
  OBVIOUS
<1> PICK at : at = doing[s].created_at
  OBVIOUS
<1>2. /\ UNCHANGED <<log, clock, written>> /\ pending'[s] = pending[s] \cup {row}
      /\ \A t \in Sessions \ {s} : pending'[t] = pending[t] /\ doing'[t] = doing[t]
      /\ doing'[s] = Idle /\ doing[s].stage = "stamped"
  BY <1>1 DEF Link, TypeOK
<1>3. row.created_at = at /\ row.previous_hash = previous /\ row.event_hash = chain_hash(chain_payload(row))
  BY NewRow
<1>4. at \in 0..clock /\ Owns(s, at)
  BY <1>2, StampTime DEF Owns, TypeOK
<1>5. previous = None \/ \E q \in log \cup pending[s] : previous = q.event_hash
  BY DEF PreviousHash, RowsOf, Newest
<1>6. \A k \in 0..clock, t \in Sessions \ {s} : Owns(t, k) => ~Uses(row, k)
  <2> SUFFICES ASSUME NEW k \in 0..clock, NEW t \in Sessions \ {s}, Owns(t, k), Uses(row, k) PROVE FALSE
    OBVIOUS
  <2>1. ~Owns(s, k) /\ (\A r \in log : ~Uses(r, k)) /\ \A r \in pending[s] : ~Uses(r, k)
    BY DEF StampInv, ReadingsApart
  <2>2. at # k
    BY <1>4, <2>1
  <2>3. previous # None /\ previous.sha256.created_at = k
    BY <1>3, <2>2 DEF Uses
  <2>4. PICK q \in log \cup pending[s] : previous = q.event_hash
    BY <1>5, <2>3
  <2>5. q.created_at = k
    BY <2>3, <2>4, HashTime
  <2> QED
    BY <2>1, <2>5 DEF Uses
<1>7. FollowsThePast(row)
  <2> SUFFICES ASSUME previous # None PROVE previous.sha256.created_at \in 0..clock
    BY <1>3 DEF FollowsThePast
  <2>1. PICK q \in log \cup pending[s] : previous = q.event_hash
    BY <1>5
  <2>2. q.created_at \in 0..clock
    BY DEF TypeOK, IsRow
  <2> QED
    BY <2>1, <2>2, HashTime
<1>8. /\ \A k : Owns(s, k)' => Owns(s, k)
      /\ \A t \in Sessions \ {s} : \A k : Owns(t, k)' => Owns(t, k)
  BY <1>2, <1>3 DEF Owns, Idle
<1>9. \A r, k : Uses(r, k)' <=> Uses(r, k)
  BY DEF Uses
<1>10. ReadingsApart'
  <2> SUFFICES ASSUME NEW t \in Sessions, NEW k \in 0..clock, Owns(t, k)'
               PROVE  /\ \A r \in log : ~Uses(r, k)
                      /\ \A u \in Sessions \ {t} : ~Owns(u, k)' /\ \A r \in pending'[u] : ~Uses(r, k)
    BY <1>2, <1>9 DEF ReadingsApart
  <2>1. Owns(t, k)
    BY <1>8
  <2>2. /\ \A r \in log : ~Uses(r, k)
        /\ \A u \in Sessions \ {t} : ~Owns(u, k) /\ \A r \in pending[u] : ~Uses(r, k)
    BY <2>1 DEF StampInv, ReadingsApart
  <2> QED
    BY <1>2, <1>6, <1>8, <2>1, <2>2
<1>11. \A r : FollowsThePast(r) => FollowsThePast(r)'
  BY <1>2 DEF FollowsThePast
<1>12. ASSUME NEW t \in Sessions, NEW p \in pending'[t]
       PROVE  FollowsThePast(p)' /\ p.event_hash = chain_hash(chain_payload(p))
  BY <1>2, <1>3, <1>7, <1>11, <1>12 DEF StampInv
<1> QED
  BY <1>2, <1>10, <1>11, <1>12 DEF StampInv

\* A step in which the stored rows keep their times and links, or are rows a session
\* had pending and has no longer.
LEMMA OthersKeepReadings ==
    ASSUME TypeOK, StampInv, clock' = clock, NEW s \in Sessions,
           \A t \in Sessions \ {s} : pending'[t] = pending[t] /\ doing'[t] = doing[t],
           pending'[s] \subseteq pending[s], \A k : Owns(s, k)' => Owns(s, k),
           \A r \in log' : \/ \E q \in log : r.created_at = q.created_at /\ r.previous_hash = q.previous_hash
                           \/ r \in pending[s] /\ \A k : ~Owns(s, k)'
    PROVE  StampInv'
<1>1. \A t \in Sessions : \A k : Owns(t, k)' => Owns(t, k)
  BY DEF Owns
<1>2. \A r, k : Uses(r, k)' <=> Uses(r, k)
  BY DEF Uses
<1>3. ReadingsApart'
  <2> SUFFICES ASSUME NEW t \in Sessions, NEW k \in 0..clock, Owns(t, k)'
               PROVE  /\ \A r \in log' : ~Uses(r, k)
                      /\ \A u \in Sessions \ {t} : ~Owns(u, k)' /\ \A r \in pending'[u] : ~Uses(r, k)
    BY <1>2 DEF ReadingsApart
  <2>1. Owns(t, k)
    BY <1>1
  <2>2. /\ \A r \in log : ~Uses(r, k)
        /\ \A u \in Sessions \ {t} : ~Owns(u, k) /\ \A r \in pending[u] : ~Uses(r, k)
    BY <2>1 DEF StampInv, ReadingsApart
  <2>3. \A u \in Sessions : pending'[u] \subseteq pending[u]
    OBVIOUS
  <2>4. ASSUME NEW r \in log' PROVE ~Uses(r, k)
    <3>1. CASE \E q \in log : r.created_at = q.created_at /\ r.previous_hash = q.previous_hash
      BY <2>2, <3>1 DEF Uses
    <3>2. CASE r \in pending[s] /\ \A j : ~Owns(s, j)'
      BY <2>2, <3>2
    <3> QED
      BY <3>1, <3>2
  <2> QED
    BY <1>1, <2>2, <2>3, <2>4
<1>4. \A r : FollowsThePast(r)' <=> FollowsThePast(r)
  BY DEF FollowsThePast
<1>5. \A r \in log' : FollowsThePast(r)
  BY DEF StampInv, FollowsThePast
<1>6. ASSUME NEW t \in Sessions, NEW p \in pending'[t]
      PROVE  FollowsThePast(p) /\ p.event_hash = chain_hash(chain_payload(p))
  <2>1. p \in pending[t]
    BY <1>6
  <2> QED
    BY <2>1 DEF StampInv
<1> QED
  BY <1>3, <1>4, <1>5, <1>6 DEF StampInv

LEMMA StoredKeepReadings ==
    ASSUME StampInv, UNCHANGED <<clock, pending, doing>>,
           \A r \in log' : \E q \in log : r.created_at = q.created_at /\ r.previous_hash = q.previous_hash
    PROVE  StampInv'
<1>1. /\ \A t \in Sessions : \A k : Owns(t, k)' <=> Owns(t, k)
      /\ \A r, k : Uses(r, k)' <=> Uses(r, k)
      /\ \A r : FollowsThePast(r)' <=> FollowsThePast(r)
  BY DEF Owns, Uses, FollowsThePast
<1>2. \A r \in log' : FollowsThePast(r) /\ \A k : Uses(r, k) => \E q \in log : Uses(q, k)
  BY DEF StampInv, FollowsThePast, Uses
<1>3. ReadingsApart'
  BY <1>1, <1>2 DEF StampInv, ReadingsApart
<1> QED
  BY <1>1, <1>2, <1>3 DEF StampInv

LEMMA StampInvariant == Spec => []StampInv
<1> USE ConstantsAssumption
<1>1. Init => StampInv
  <2> SUFFICES ASSUME Init PROVE StampInv
    OBVIOUS
  <2>1. \A s \in Sessions : \A k : ~Owns(s, k)
    BY DEF Init, Owns, Idle
  <2>2. (\A r \in log : r.previous_hash = None) /\ \A s \in Sessions : pending[s] = {}
    BY DEF Init
  <2> QED
    BY <2>1, <2>2 DEF StampInv, ReadingsApart, FollowsThePast
<1>2. TypeOK /\ SealInv /\ StampInv /\ [Next]_vars => StampInv'
  <2> SUFFICES ASSUME TypeOK, SealInv, StampInv, [Next]_vars PROVE StampInv'
    OBVIOUS
  <2>1. ASSUME NEW s \in Sessions, CallAudit(s) PROVE StampInv'
    BY <2>1, StampKeepsReadings DEF CallAudit
  <2>2. ASSUME NEW s \in Sessions, Link(s) PROVE StampInv'
    BY <2>2, LinkKeepsReadings
  <2>3. ASSUME NEW s \in Sessions, Commit(s) PROVE StampInv'
    <3>1. /\ clock' = clock /\ log' = log \cup pending[s] /\ pending'[s] = {} /\ doing' = doing
          /\ doing[s].stage = "idle" /\ \A t \in Sessions \ {s} : pending'[t] = pending[t]
      BY <2>3 DEF Commit, TypeOK
    <3>2. \A k : ~Owns(s, k)'
      BY <3>1 DEF Owns
    <3> QED
      BY <3>1, <3>2, OthersKeepReadings
  <2>4. ASSUME NEW s \in Sessions, Rollback(s) PROVE StampInv'
    <3>1. /\ clock' = clock /\ log' = log /\ pending'[s] = {} /\ doing'[s] = Idle
          /\ \A t \in Sessions \ {s} : pending'[t] = pending[t] /\ doing'[t] = doing[t]
      BY <2>4 DEF Rollback, TypeOK
    <3>2. \A k : ~Owns(s, k)'
      BY <3>1 DEF Owns, Idle
    <3> QED
      BY <3>1, <3>2, OthersKeepReadings
  <2>5. ASSUME NEW s \in Sessions, VerifyChain(s) PROVE StampInv'
    <3>1. /\ UNCHANGED <<clock, log, pending>> /\ doing'[s].stage = "verdict"
          /\ \A t \in Sessions \ {s} : doing'[t] = doing[t]
      BY <2>5 DEF VerifyChain, TypeOK
    <3>2. \A k : Owns(s, k)' => Owns(s, k)
      BY <3>1 DEF Owns
    <3> QED
      BY <3>1, <3>2, OthersKeepReadings
  <2>6. ASSUME NEW s \in Sessions, AuditVerdict(s) PROVE StampInv'
    <3>1. doing[s].case \in Cases /\ doing[s].stage # "stamped"
      BY <2>6 DEF AuditVerdict, TypeOK, Calls, Idle
    <3> QED
      BY <2>6, <3>1, StampKeepsReadings DEF AuditVerdict
  <2>7. CASE Alter
    <3>1. PICK r \in log, x \in Contents : log' = (log \ {r}) \cup {[r EXCEPT !.content = x]}
      BY <2>7 DEF Alter
    <3>2. UNCHANGED <<pending, doing, clock>>
      BY <2>7 DEF Alter
    <3>3. [r EXCEPT !.content = x].created_at = r.created_at /\ [r EXCEPT !.content = x].previous_hash = r.previous_hash
      BY EditedRow DEF TypeOK
    <3>4. \A q \in log' : \E p \in log : q.created_at = p.created_at /\ q.previous_hash = p.previous_hash
      BY <3>1, <3>3
    <3> QED
      BY <3>2, <3>4, StoredKeepReadings
  <2>8. CASE Lose
    <3>1. UNCHANGED <<pending, doing, clock>> /\ log' \subseteq log
      BY <2>8 DEF Lose
    <3> QED
      BY <3>1, StoredKeepReadings
  <2>9. CASE UNCHANGED vars
    BY <2>9, StoredKeepReadings DEF vars, ghosts
  <2> QED
    BY <2>1, <2>2, <2>3, <2>4, <2>5, <2>6, <2>7, <2>8, <2>9 DEF Next, Step
<1> QED
  BY <1>1, <1>2, TypeCorrect, SealInvariant, PTL DEF Spec

\* A hash is a string of sixty-four digits, never the NULL that a first entry has for
\* its predecessor's.
HashesAreValues == \A payload : chain_hash(payload) # None

\* Rows that are committed between the two a broken link lies between leave it broken.
LEMMA LateRowsBreakToo ==
    ASSUME TypeOK, StampInv, HashesAreValues, NEW s \in Sessions, Commit(s), NEW c \in Cases,
           NEW r \in Entries(c), LinkBroken(r)
    PROVE  LinkBroken(r)'
<1>1. log' = log \cup pending[s] /\ clock' = clock
  BY DEF Commit
<1>2. PICK q \in Entries(r.case) : Before(q, r) /\ Hashed(q) /\ r.previous_hash # q.event_hash
  BY DEF LinkBroken
<1>3. Hashed(r) /\ ~ContentAltered(r) /\ r.case = c
  BY DEF LinkBroken, Entries, RowsOf
<1>4. (Hashed(r) /\ ~ContentAltered(r))' /\ Hashed(q)'
  BY <1>2, <1>3 DEF Hashed, ContentAltered, chain_hash, chain_payload
<1>5. Entries(c) \subseteq Entries(c)' /\ Entries(c)' \subseteq log'
  BY <1>1 DEF Entries, RowsOf
<1> PICK between : between = {p \in Entries(c)' : q.created_at < p.created_at /\ p.created_at < r.created_at}
  OBVIOUS
<1>6. q.created_at < r.created_at /\ q \in Entries(c)'
  BY <1>2, <1>3, <1>5 DEF Before
<1>7. /\ clock \in Nat /\ q.created_at \in 0..clock /\ r.created_at \in 0..clock
      /\ \A p \in Entries(c)' : p.created_at \in 0..clock
  <2>1. \A p \in log \cup pending[s] : p.created_at \in 0..clock
    BY DEF TypeOK, IsRow
  <2> QED
    BY <1>1, <1>5, <1>6, <2>1 DEF TypeOK
<1>8. CASE between = {}
  <2>1. \A p \in Entries(c)' : p.created_at <= q.created_at \/ p.created_at >= r.created_at
    BY <1>7, <1>8
  <2>2. Before(q, r)'
    BY <1>3, <1>6, <2>1 DEF Before
  <2> QED
    BY <1>2, <1>3, <1>4, <1>6, <2>2 DEF LinkBroken
<1>9. CASE between # {}
  <2>1. PICK p \in between : \A x \in between : x.created_at <= p.created_at
    BY <1>7, <1>9, NewestAndOldest
  <2>2. p \in Entries(c)' /\ q.created_at < p.created_at /\ p.created_at < r.created_at /\ p.created_at \in 0..clock
    BY <1>7, <2>1
  <2>3. p \notin Entries(c)
    BY <1>2, <1>3, <1>7, <2>2 DEF Before
  <2>4. p \in pending[s]
    BY <1>1, <2>2, <2>3 DEF Entries, RowsOf
  <2>5. p.event_hash = chain_hash(chain_payload(p)) /\ p.event_hash # None
    BY <2>4 DEF StampInv, HashesAreValues
  <2>6. Owns(s, p.created_at)
    BY <2>4 DEF Owns
  <2>7. r \in log
    BY DEF Entries, RowsOf
  <2>8. ~Uses(r, p.created_at)
    BY <2>2, <2>6, <2>7 DEF StampInv, ReadingsApart
  <2>9. r.previous_hash # p.event_hash
    <3> SUFFICES ASSUME r.previous_hash = p.event_hash PROVE FALSE
      OBVIOUS
    <3>1. r.previous_hash.sha256.created_at = p.created_at
      BY <2>5 DEF chain_hash, chain_payload
    <3> QED
      BY <2>5, <2>8, <3>1 DEF Uses
  <2>10. \A x \in Entries(c)' : x.created_at <= p.created_at \/ x.created_at >= r.created_at
    <3> SUFFICES ASSUME NEW x \in Entries(c)', ~(x.created_at >= r.created_at)
                 PROVE  x.created_at <= p.created_at
      OBVIOUS
    <3>1. CASE x \in between
      BY <2>1, <3>1
    <3>2. CASE x \notin between
      <4>1. x.created_at <= q.created_at
        BY <1>7, <3>2
      <4> QED
        BY <1>7, <2>2, <4>1
    <3> QED
      BY <3>1, <3>2
  <2>11. Before(p, r)' /\ Hashed(p)'
    BY <1>3, <2>2, <2>5, <2>10 DEF Before, Hashed
  <2> QED
    BY <1>3, <1>4, <2>2, <2>9, <2>11 DEF LinkBroken
<1> QED
  BY <1>8, <1>9

\* However sessions overlap, whatever was edited or lost before: a chain that
\* verify_chain reports as broken stays so as entries are added. A row that is committed
\* between two others cannot be what the later of them follows.
THEOREM CommitsRepairNothing == HashesAreValues => (Spec => BrokenStaysBroken)
<1> SUFFICES ASSUME HashesAreValues PROVE Spec => BrokenStaysBroken
  OBVIOUS
<1> USE ConstantsAssumption
<1>1. ASSUME TypeOK, SealInv, StampInv, [Next]_vars, log \subseteq log', NEW c \in Cases, verify_chain(c) = BROKEN
      PROVE  verify_chain(c)' = BROKEN
  <2>1. PICK r \in Entries(c) : ContentAltered(r) \/ LinkBroken(r)
    BY <1>1 DEF verify_chain, Breaks, EMPTY, BROKEN, UNCHAINED, INTACT
  <2>2. r \in Entries(c)'
    BY <1>1 DEF Entries, RowsOf
  <2>3. ContentAltered(r) => ContentAltered(r)'
    BY DEF ContentAltered, Hashed, chain_hash, chain_payload
  <2>4. log' = log \/ \E s \in Sessions : Commit(s)
    <3>1. ASSUME Alter PROVE FALSE
      <4>1. PICK q \in log, x \in Contents :
               x # q.content /\ log' = (log \ {q}) \cup {[q EXCEPT !.content = x]}
        BY <3>1 DEF Alter
      <4>2. [q EXCEPT !.content = x].content = x
        BY EditedRow, <1>1 DEF TypeOK
      <4>3. q \notin log'
        BY <4>1, <4>2
      <4> QED
        BY <1>1, <4>3
    <3>2. ASSUME Lose PROVE FALSE
      BY <1>1, <3>2 DEF Lose
    <3>3. ASSUME NEW s \in Sessions, CallAudit(s) \/ Link(s) \/ Rollback(s) \/ VerifyChain(s) \/ AuditVerdict(s)
          PROVE  log' = log
      BY <3>3 DEF CallAudit, Link, Rollback, VerifyChain, AuditVerdict, Stamp
    <3> QED
      BY <1>1, <3>1, <3>2, <3>3 DEF Next, Step, vars
  <2>5. LinkBroken(r) => LinkBroken(r)'
    <3>1. CASE log' = log
      BY <3>1 DEF LinkBroken, Before, Entries, RowsOf, ContentAltered, Hashed, chain_hash, chain_payload
    <3>2. ASSUME NEW s \in Sessions, Commit(s), LinkBroken(r) PROVE LinkBroken(r)'
      BY <1>1, <3>2, LateRowsBreakToo
    <3> QED
      BY <2>4, <3>1, <3>2
  <2>6. r \in Breaks(c)'
    BY <2>1, <2>2, <2>3, <2>5 DEF Breaks
  <2> QED
    BY <2>2, <2>6 DEF verify_chain
<1>2. TypeOK /\ SealInv /\ StampInv /\ [Next]_vars =>
         (log \subseteq log' => \A c \in Cases : verify_chain(c) = BROKEN => verify_chain(c)' = BROKEN)
  BY <1>1
<1> QED
  BY <1>2, TypeCorrect, SealInvariant, StampInvariant, PTL DEF Spec, BrokenStaysBroken

===============================================================================
