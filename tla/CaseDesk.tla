-------------------------------- MODULE CaseDesk --------------------------------
(* What investigators write on one case beside its evidence: members and the     *)
(* incident window (api/cases.py, services/cases.py), notes (api/notes.py),      *)
(* claims and contradictions (api/claims.py), rulings on an alert                *)
(* (services/review.py), and the digest of what is new (services/whats_new.py).  *)
(*                                                                               *)
(* A handler reads and stamps its rows in Begin and commits in Commit; other     *)
(* requests go on in between. The clock never shows the same time twice. What is *)
(* written is abstracted to its kind, its stamp and its author; an item that a   *)
(* worker stores (evidence, relationships, alerts) has the author Machine.       *)
EXTENDS Naturals, Sequences, SequencesExt

CONSTANTS
    Users, Owner, Machine,
    Handlers,       \* requests served at once
    Windows,        \* spans a case may declare as the incident, NoWindow among them
    NoWindow,
    MaxClock, MaxItems                      \* bounds

ASSUME DeskAssumption == Owner \in Users /\ Machine \notin Users /\ NoWindow \in Windows

VARIABLES
    clock,
    members,        \* users with a row in case_memberships
    items,          \* rows of the kinds the digest counts, in the order of commit
    ruling,         \* status of the alert that is ruled on
    window,         \* date_range_start/end of the case
    windowLog,      \* case.incident_window_set entries: [previous, declared]
    visit,          \* visit[u]: case_visits.last_opened_at, or 0
    shown,          \* ghost: shown[u], places in `items` a digest has listed to u
    present,        \* ghost: present[u], rows there were when u was last told that this
                    \* is the first visit and what is here is all the case holds
    late,           \* ghost: late[u], rows committed after u's mark that are stamped before
    handler,
    concurrent,     \* ghost: two requests were served at once
    hasty           \* ghost: users who marked the case seen without reading what is new

deskVars == <<clock, members, items, ruling, window, windowLog, visit, shown, present, late, handler, concurrent, hasty>>

Free == [pc |-> "idle", user |-> Machine, at |-> 0, what |-> NoWindow, seen |-> NoWindow]
Decisions == {"confirmed", "rejected"}
Kinds == {"arrival", "note", "confirmed", "rejected"}

Items == [kind : Kinds, at : 1..clock, by : Users \cup {Machine}, withdrawn : BOOLEAN]
Work == [pc : {"writing"}, user : Users \cup {Machine}, at : 1..clock, what : Kinds, seen : {NoWindow}]
    \cup [pc : {"declaring"}, user : Users, at : 1..clock, what : Windows, seen : Windows]
    \cup [pc : {"seeing"}, user : Users, at : 1..clock, what : {NoWindow}, seen : {"no visit", "a visit"}]

(* Type invariant: what is stored or in hand was stamped no later than now.      *)
DeskTypeOK ==
    /\ clock \in Nat
    /\ members \subseteq Users
    /\ items \in Seq(Items)
    /\ ruling \in {"open", "dismissed", "reviewed"}
    /\ window \in Windows
    /\ windowLog \in Seq([previous : Windows, declared : Windows])
    /\ visit \in [Users -> 0..clock]
    /\ shown \in [Users -> SUBSET (1..Len(items))]
    /\ late \in [Users -> SUBSET (1..Len(items))]
    /\ present \in [Users -> 0..Len(items)]
    /\ handler \in [Handlers -> {Free} \cup Work]
    /\ concurrent \in BOOLEAN
    /\ hasty \subseteq Users

(* require_case_access: the owner, or a member.                                  *)
HasAccess(u) == u = Owner \/ u \in members

Start(r, u, pc, what, seen) ==
    /\ handler[r] = Free
    /\ clock < MaxClock
    /\ clock' = clock + 1
    /\ handler' = [handler EXCEPT ![r] = [pc |-> pc, user |-> u, at |-> clock + 1, what |-> what, seen |-> seen]]
    /\ concurrent' = (concurrent \/ \E q \in Handlers : handler[q] # Free)
Finish(r) == handler' = [handler EXCEPT ![r] = Free]
Doing(r, pc) == handler[r].pc = pc

-------------------------------------------------------------------------------
DeskInit ==
    /\ clock = 0
    /\ members = {Owner}
    /\ items = <<>>
    /\ ruling = "open"
    /\ window = NoWindow
    /\ windowLog = <<>>
    /\ visit = [u \in Users |-> 0]
    /\ shown = [u \in Users |-> {}]
    /\ late = [u \in Users |-> {}]
    /\ present = [u \in Users |-> 0]
    /\ handler = [r \in Handlers |-> Free]
    /\ concurrent = FALSE
    /\ hasty = {}

(* add_member: the owner's alone.                                                *)
AddMember(u) ==
    /\ u \notin members
    /\ members' = members \cup {u}
    /\ UNCHANGED <<clock, items, ruling, window, windowLog, visit, shown, present, late, handler, concurrent, hasty>>

(* write_note, create_claim, create_contradiction: created_at is read as the row *)
(* is built, for a subject or sources found in the case. A worker's rows likewise. *)
BeginWrite(r, u, kind) ==
    /\ IF kind = "arrival" THEN u = Machine ELSE u \in Users /\ HasAccess(u)
    /\ Start(r, u, "writing", kind, NoWindow)
    /\ UNCHANGED <<members, items, ruling, window, windowLog, visit, shown, present, late, hasty>>

(* The status apply_review leaves on an alert.                                   *)
StatusFor(decision) == IF decision = "rejected" THEN "dismissed" ELSE "reviewed"

(* A row with that stamp is behind u's mark, or behind the one u is setting.      *)
Behind(u, at) ==
    \/ at <= visit[u]
    \/ \E q \in Handlers : Doing(q, "seeing") /\ handler[q].user = u /\ at <= handler[q].at

(* The commit: the row, and for apply_review the subject's new status with it.   *)
CommitWrite(r) ==
    /\ Doing(r, "writing")
    /\ Len(items) < MaxItems
    /\ items' = Append(items, [kind |-> handler[r].what, at |-> handler[r].at, by |-> handler[r].user, withdrawn |-> FALSE])
    /\ ruling' = IF handler[r].what \in Decisions THEN StatusFor(handler[r].what) ELSE ruling
    /\ late' = [u \in Users |-> IF Behind(u, handler[r].at) THEN late[u] \cup {Len(items) + 1} ELSE late[u]]
    /\ Finish(r)
    /\ UNCHANGED <<clock, members, window, windowLog, visit, shown, present, concurrent, hasty>>

(* remove_note: the author's alone; the row is marked, not erased.               *)
WithdrawNote(u, i) ==
    /\ HasAccess(u)
    /\ items[i].kind = "note" /\ items[i].by = u /\ ~items[i].withdrawn
    /\ items' = [items EXCEPT ![i].withdrawn = TRUE]
    /\ UNCHANGED <<clock, members, ruling, window, windowLog, visit, shown, present, late, handler, concurrent, hasty>>

(* set_incident_window: the span the case has is read for the record.            *)
BeginWindow(r, u, w) ==
    /\ u \in Users /\ HasAccess(u)
    /\ Len(windowLog) < MaxItems
    /\ Start(r, u, "declaring", w, window)
    /\ UNCHANGED <<members, items, ruling, window, windowLog, visit, shown, present, late, hasty>>

(* Mutant: what is recorded as previous is what is declared.                     *)
CommitWindow_SamePrevious(r) ==
    /\ Doing(r, "declaring")
    /\ Len(windowLog) < MaxItems
    /\ windowLog' = Append(windowLog, [previous |-> handler[r].what, declared |-> handler[r].what])
    /\ window' = handler[r].what
    /\ Finish(r)
    /\ UNCHANGED <<clock, members, items, ruling, visit, shown, present, late, concurrent, hasty>>

(* SQLAlchemy writes the columns that differ from what this session read.        *)
CommitWindow(r) ==
    /\ Doing(r, "declaring")
    /\ Len(windowLog) < MaxItems
    /\ windowLog' = Append(windowLog, [previous |-> handler[r].seen, declared |-> handler[r].what])
    /\ window' = IF handler[r].what = handler[r].seen THEN window ELSE handler[r].what
    /\ Finish(r)
    /\ UNCHANGED <<clock, members, items, ruling, visit, shown, present, late, concurrent, hasty>>

-------------------------------------------------------------------------------
(* build: what is newer than the reader's mark and was not withdrawn. A first     *)
(* visit lists nothing; it says that what is here is everything the case holds.  *)
Newer(u) == {i \in 1..Len(items) : items[i].at > visit[u] /\ ~items[i].withdrawn}
New(u) == IF visit[u] = 0 THEN {} ELSE Newer(u)

ReadDigest(u) ==
    /\ HasAccess(u)
    /\ shown' = [shown EXCEPT ![u] = @ \cup New(u)]
    /\ present' = IF visit[u] = 0 THEN [present EXCEPT ![u] = Len(items)] ELSE present
    /\ UNCHANGED <<clock, members, items, ruling, window, windowLog, visit, late, handler, concurrent, hasty>>

(* mark_seen with record_visit. Hasty is who was not told of what the mark hides. *)
BeginSeen(r, u) ==
    /\ u \in Users /\ HasAccess(u)
    /\ Start(r, u, "seeing", NoWindow, IF visit[u] = 0 THEN "no visit" ELSE "a visit")
    /\ hasty' = IF \A i \in Newer(u) \ late[u] : i \in shown[u] \/ i <= present[u] THEN hasty ELSE hasty \cup {u}
    /\ UNCHANGED <<members, items, ruling, window, windowLog, visit, shown, present, late>>

(* Mutant: one mark for the case, and not one for each reader.                   *)
CommitSeen_Everybody(r) ==
    /\ Doing(r, "seeing")
    /\ visit' = [u \in Users |-> handler[r].at]
    /\ Finish(r)
    /\ UNCHANGED <<clock, members, items, ruling, window, windowLog, shown, present, late, concurrent, hasty>>

(* Of two first visits at once, uq_case_visit refuses the second.                *)
CommitSeen(r) ==
    /\ Doing(r, "seeing")
    /\ visit' = [visit EXCEPT ![handler[r].user] =
                    IF handler[r].seen = "no visit" /\ @ # 0 THEN @ ELSE handler[r].at]
    /\ Finish(r)
    /\ UNCHANGED <<clock, members, items, ruling, window, windowLog, shown, present, late, concurrent, hasty>>

DeskNext ==
    \/ \E u \in Users : AddMember(u) \/ ReadDigest(u) \/ \E i \in 1..Len(items) : WithdrawNote(u, i)
    \/ \E r \in Handlers, u \in Users \cup {Machine} :
        \/ \E kind \in Kinds : BeginWrite(r, u, kind)
        \/ \E w \in Windows : BeginWindow(r, u, w)
        \/ BeginSeen(r, u)
    \/ \E r \in Handlers : CommitWrite(r) \/ CommitWindow(r) \/ CommitSeen(r)

DeskSpec == DeskInit /\ [][DeskNext]_deskVars

-------------------------------------------------------------------------------
(* A reader who reads the digest before marking the case seen misses nothing,    *)
(* whatever is written, withdrawn, read and marked at once: a row was there when *)
(* the first digest said that all of the case is new, or was in a digest of      *)
(* theirs, or is in the next one. Somebody else's visit clears nothing. (A row   *)
(* stamped before the mark and committed after it is the exception: it is in no  *)
(* digest.)                                                                      *)
NothingGoesUnseen ==
    \A u \in Users \ hasty : visit[u] # 0 =>
        \A i \in 1..Len(items) : \/ items[i].withdrawn
                                 \/ i <= present[u]
                                 \/ i \in shown[u] \cup New(u)
                                 \/ i \in late[u]

(* The record of the incident window is a chain: each change starts from what    *)
(* the one before declared, and the last declared what the case has.             *)
WindowHistoryIsWhole ==
    ~concurrent =>
        /\ \A i \in 1..Len(windowLog) :
            windowLog[i].previous = IF i = 1 THEN NoWindow ELSE windowLog[i - 1].declared
        /\ window = IF windowLog = <<>> THEN NoWindow ELSE Last(windowLog).declared

(* A subject's status is what the newest decision on it says.                    *)
StatusFollowsDecisions ==
    ~concurrent =>
        LET decisions == {i \in 1..Len(items) : items[i].kind \in Decisions}
        IN  ruling = IF decisions = {} THEN "open"
                     ELSE StatusFor(items[CHOOSE i \in decisions : \A j \in decisions : items[j].at <= items[i].at].kind)

(* The records of the desk agree with what they record.                          *)
DeskRecordsAgree == WindowHistoryIsWhole /\ StatusFollowsDecisions

===============================================================================
