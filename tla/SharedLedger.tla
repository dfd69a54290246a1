------------------------------ MODULE SharedLedger ------------------------------
(* services/ledger.py and api/ledger.py: the chained store on which districts   *)
(* publish keyed digests of the identifiers their cases hold.                   *)
(*                                                                              *)
(* A digest is keyed by type and canonical value and taken to be free of        *)
(* collisions, so an identity stands for its digest. A row is hashed over its   *)
(* own fields and the hash of the row before it; hashes are numbers handed out  *)
(* once, `sealed` remembering what each was taken over. utcnow() is read once   *)
(* per row, so the number of rows sealed is the clock.                          *)
EXTENDS Naturals, Sequences

CONSTANTS
    Cases,          \* cases of all districts, each with its own reference
    Entities,       \* rows of `entities`, as written in the evidence
    InEvidence,     \* InEvidence[c]: those the evidence of case c contains
    Identities,     \* canonical (type, value) pairs
    Canonical,      \* canonicalize_indicator: Entities -> Identities \cup {Unmatchable}
    Unmatchable,    \* an entity without a matchable type or a canonical form
    Publishers,     \* simultaneous requests to publish or to withdraw
    NoHash,         \* previous_hash of the first row
    MaxRows         \* bound: rows ever written

ASSUME LedgerAssumption ==
    /\ InEvidence \in [Cases -> SUBSET Entities]
    /\ Canonical \in [Entities -> Identities \cup {Unmatchable}]
    /\ NoHash \notin Cases /\ NoHash \notin 1..MaxRows
    /\ MaxRows \in Nat

VARIABLES
    gate,           \* settings.ledger_publication_allowed, read once at start
    holds,          \* holds[c]: entities of case c
    rows,           \* committed rows of ledger_entries
    session,        \* session[p]: what request p is doing
    sealed,         \* sealed[h]: the row hash h was taken over
    overlapped,     \* ghost: two requests published at once
    withdrawn       \* ghost: the hashes of the rows that have been withdrawn

ledgerVars == <<gate, holds, rows, session, sealed, overlapped, withdrawn>>

\* A request: the identities it found, those it has not come to, the rows it is
\* going to add or to delete, and (ghost) whether a withdrawal overtook it.
NoLedgerRequest ==
    [does |-> "nothing", case |-> NoHash, identities |-> {}, todo |-> {}, pending |-> {}, overtaken |-> FALSE]
Publishing(p) == session[p].does = "publish"
Withdrawing(p) == session[p].does = "withdraw"

(* One identity per canonical form, however many entities spell it.           *)
IdentitiesOf(case) == {Canonical[e] : e \in holds[case]} \ {Unmatchable}

(* _chain_payload: what a row's hash is taken over.                            *)
ChainPayload(row) ==
    [digest |-> row.digest, case |-> row.case, previous |-> row.previous, at |-> row.at]

(* Mutant: rows this session has added are not looked at.                      *)
HeadOf_StoredOnly(p) ==
    IF rows = {} THEN NoHash ELSE (CHOOSE r \in rows : \A q \in rows : q.at <= r.at).hash

(* _head: the newest row, this session's own pending ones counted.             *)
HeadOf(p) ==
    LET candidates == rows \cup session[p].pending
    IN  IF candidates = {} THEN NoHash
        ELSE (CHOOSE r \in candidates : \A q \in candidates : q.at <= r.at).hash

(* The existence test of publish_case reads what is committed.                 *)
AlreadyPresent(identity, case) == \E r \in rows : r.digest = identity /\ r.case = case

Sealed(payload) == Append(sealed, payload)

-------------------------------------------------------------------------------
LedgerInit ==
    /\ gate \in BOOLEAN
    /\ holds = [c \in Cases |-> {}]
    /\ rows = {}
    /\ session = [p \in Publishers |-> NoLedgerRequest]
    /\ sealed = <<>>
    /\ overlapped = FALSE
    /\ withdrawn = {}

(* Processing finds an entity in a case's evidence.                            *)
FindEntity(case, e) ==
    /\ e \in InEvidence[case] \ holds[case]
    /\ holds' = [holds EXCEPT ![case] = @ \cup {e}]
    /\ UNCHANGED <<gate, rows, session, sealed, overlapped, withdrawn>>

(* publish_case up to its loop. A closed gate raises: nothing is begun.        *)
BeginPublish(p, case) ==
    /\ gate
    /\ session[p] = NoLedgerRequest
    /\ IdentitiesOf(case) # {}
    /\ session' = [session EXCEPT ![p] =
                    [does |-> "publish", case |-> case, identities |-> IdentitiesOf(case),
                     todo |-> IdentitiesOf(case), pending |-> {}, overtaken |-> FALSE]]
    /\ overlapped' = (overlapped \/ \E q \in Publishers : Publishing(q))
    /\ UNCHANGED <<gate, holds, rows, sealed, withdrawn>>

(* The loop's body for an identity that is on the ledger already.              *)
SkipIdentity(p, identity) ==
    /\ Publishing(p)
    /\ identity \in session[p].todo
    /\ AlreadyPresent(identity, session[p].case)
    /\ session' = [session EXCEPT ![p].todo = @ \ {identity}]
    /\ UNCHANGED <<gate, holds, rows, sealed, overlapped, withdrawn>>

(* The row publish_case builds for an identity, the clock read as it is built. *)
EntryFor(p, identity) ==
    LET payload == [digest |-> identity, case |-> session[p].case,
                    previous |-> HeadOf(p), at |-> Len(sealed) + 1]
    IN  [payload |-> payload, hash |-> Len(sealed) + 1]

RowFor(entry) ==
    [digest |-> entry.payload.digest, case |-> entry.payload.case, previous |-> entry.payload.previous,
     at |-> entry.payload.at, hash |-> entry.hash]

(* Mutant: every row is committed as it is added.                              *)
AddIdentity_Committed(p, identity) ==
    /\ Publishing(p)
    /\ identity \in session[p].todo
    /\ ~AlreadyPresent(identity, session[p].case)
    /\ Len(sealed) < MaxRows
    /\ sealed' = Sealed(EntryFor(p, identity).payload)
    /\ rows' = rows \cup {RowFor(EntryFor(p, identity))}
    /\ session' = [session EXCEPT ![p].todo = @ \ {identity}]
    /\ UNCHANGED <<gate, holds, overlapped, withdrawn>>

AddIdentity(p, identity) ==
    /\ Publishing(p)
    /\ identity \in session[p].todo
    /\ ~AlreadyPresent(identity, session[p].case)
    /\ Len(sealed) < MaxRows
    /\ sealed' = Sealed(EntryFor(p, identity).payload)
    /\ session' = [session EXCEPT ![p].todo = @ \ {identity},
                                  ![p].pending = @ \cup {RowFor(EntryFor(p, identity))}]
    /\ UNCHANGED <<gate, holds, rows, overlapped, withdrawn>>

(* The request commits: its rows become visible at once. uq_ledger_digest_case *)
(* refuses a row whose identifier this case has on the ledger by now.          *)
Refused(p) == \E r \in session[p].pending : AlreadyPresent(r.digest, r.case)

CommitPublish(p) ==
    /\ Publishing(p)
    /\ session[p].todo = {}
    /\ ~Refused(p)
    /\ rows' = rows \cup session[p].pending
    /\ session' = [session EXCEPT ![p] = NoLedgerRequest]
    /\ UNCHANGED <<gate, holds, sealed, overlapped, withdrawn>>

(* The request fails, at the constraint or anywhere before, and rolls back.    *)
FailRequest(p) ==
    /\ session[p] # NoLedgerRequest
    /\ session' = [session EXCEPT ![p] = NoLedgerRequest]
    /\ UNCHANGED <<gate, holds, rows, sealed, overlapped, withdrawn>>

(* withdraw_case reads the committed rows the case published. The gate is not  *)
(* asked.                                                                      *)
RowsOf(case) == {r \in rows : r.case = case}

BeginWithdraw(p, case) ==
    /\ session[p] = NoLedgerRequest
    /\ RowsOf(case) # {}
    /\ session' = [session EXCEPT ![p] =
                    [does |-> "withdraw", case |-> case, identities |-> {r.digest : r \in RowsOf(case)},
                     todo |-> {}, pending |-> RowsOf(case), overtaken |-> FALSE]]
    /\ UNCHANGED <<gate, holds, rows, sealed, overlapped, withdrawn>>

(* The commit deletes the rows that were read, and no row written since.       *)
CommitWithdraw(p) ==
    /\ Withdrawing(p)
    /\ rows' = rows \ session[p].pending
    /\ withdrawn' = withdrawn \cup {r.hash : r \in session[p].pending}
    /\ session' = [q \in Publishers |->
                    IF q = p THEN NoLedgerRequest
                    ELSE [session[q] EXCEPT !.overtaken = @ \/ session[q].case = session[p].case]]
    /\ UNCHANGED <<gate, holds, sealed, overlapped>>

LedgerNext ==
    \/ \E case \in Cases, e \in Entities : FindEntity(case, e)
    \/ \E p \in Publishers, case \in Cases : BeginPublish(p, case) \/ BeginWithdraw(p, case)
    \/ \E p \in Publishers, identity \in Identities :
            SkipIdentity(p, identity) \/ AddIdentity(p, identity)
    \/ \E p \in Publishers : CommitPublish(p) \/ CommitWithdraw(p) \/ FailRequest(p)

LedgerSpec == LedgerInit /\ [][LedgerNext]_ledgerVars

-------------------------------------------------------------------------------
(* verify: the rows in the order of their timestamps, each recomputed and      *)
(* compared with the hash of the one before it.                                *)
Before(row) == {r \in rows : r.at < row.at}
Expected(row) ==
    IF Before(row) = {} THEN NoHash
    ELSE (CHOOSE r \in Before(row) : \A q \in Before(row) : q.at <= r.at).hash

Holds(row) == sealed[row.hash] = ChainPayload(row) /\ row.previous = Expected(row)
Verdict == IF rows = {} THEN "empty"
           ELSE IF \A r \in rows : Holds(r) THEN "intact" ELSE "broken"

(* matches_for_case: the other cases with a row for an identifier of this one. *)
Matches(case) ==
    {r.case : r \in {q \in rows : q.digest \in IdentitiesOf(case) /\ q.case # case}}

-------------------------------------------------------------------------------
(* The rows, the requests and the hashes are what publish_case can write.      *)
Hashes == 1..Len(sealed)
Rows == [digest : Identities, case : Cases, previous : Hashes \cup {NoHash}, at : Hashes, hash : Hashes]
LedgerRequests ==
    [does : {"nothing", "publish", "withdraw"}, case : Cases \cup {NoHash}, identities : SUBSET Identities,
     todo : SUBSET Identities, pending : SUBSET Rows, overtaken : BOOLEAN]
Payloads == [digest : Identities, case : Cases, previous : Hashes \cup {NoHash}, at : Hashes]

LedgerTypeOK ==
    /\ {gate, overlapped} \subseteq BOOLEAN
    /\ holds \in [Cases -> SUBSET Entities]
    /\ rows \subseteq Rows
    /\ session \in [Publishers -> LedgerRequests]
    /\ sealed \in Seq(Payloads) /\ Len(sealed) <= MaxRows
    /\ withdrawn \subseteq Hashes

(* A case has one row per identifier, in whatever spellings its evidence holds *)
(* it and however often and at once it publishes.                              *)
OneRowPerIdentifier ==
    \A r, q \in rows : r.digest = q.digest /\ r.case = q.case => r = q

(* A withdrawal that leaves a row written after one it took is told by the     *)
(* verification for as long as that row stands, whatever is published, at once *)
(* or not, and withdrawn after it.                                             *)
WithdrawalsTell == (\E r \in rows : r.previous \in withdrawn) => Verdict = "broken"

(* Nothing else is called broken while publications come one at a time: not a  *)
(* request of several rows, though its session does not autoflush, and not one *)
(* that fails, starts anew or comes while others withdraw.                     *)
NothingElseTells ==
    ~overlapped /\ Verdict = "broken" => \E r \in rows : r.previous \in withdrawn

(* The ledger, with its chain, its spellings and its rows, is a notice board:  *)
(* all a case holds is posted at once or nothing of it, and what it had posted *)
(* is taken back at once, unless another withdrawal of that case came between. *)
Posted == {<<r.digest, r.case>> : r \in rows}
Asked == [p \in Publishers |->
            [does |-> session[p].does, case |-> session[p].case,
             identities |-> session[p].identities, overtaken |-> session[p].overtaken]]
Known == [c \in Cases |-> IdentitiesOf(c)]
Board == INSTANCE NoticeBoard WITH board <- Posted, asked <- Asked, known <- Known, NoCase <- NoHash
ImplementsNoticeBoard == Board!Spec

(* What is asked of the ledger together: well formed rows, one for an identifier *)
(* of a case, and a verification that calls the ledger broken when and, if       *)
(* publications come one at a time, only when a row that another follows was     *)
(* withdrawn.                                                                    *)
LedgerIsSound == LedgerTypeOK /\ OneRowPerIdentifier /\ WithdrawalsTell /\ NothingElseTells

===============================================================================
