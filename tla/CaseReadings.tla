------------------------------ MODULE CaseReadings ------------------------------
(* What is computed from rows that are stored or from a text: a behaviour is one  *)
(* question put to the rules of NetworkRules, NetworkViews, NetworkAlerts,        *)
(* TrailAlerts, CaseAnswers and TextReading. The rules change nothing, so a       *)
(* question is all the state there is.                                            *)
EXTENDS Naturals, Sequences, FiniteSets

Rules == INSTANCE NetworkRules
Views == INSTANCE NetworkViews
Alerts == INSTANCE NetworkAlerts
Trail == INSTANCE TrailAlerts
Asking == INSTANCE CaseAnswers
Texts == INSTANCE TextReading

CONSTANTS
    ValuePool, RecordPool, RelationPool, ContactPool, SeenPool,
    TrailPool, LinkPool, RegisterPool, TimelinePool,
    PagePool, RowPool, ChatPool, LinePool,             \* what may be asked about
    Window,                                            \* the declared time of the incident
    Lures,                                             \* events of the files read last
    TypeOf, LabelOf,                                   \* of the nodes of a network
    FileName,                                          \* of the files that are there
    Alphabet,                                          \* of signals' names and cases' numbers
    Visible,                                           \* the cases a reader may open
    Identity,                                          \* whose prior record is asked for
    Limit                                              \* how many a list shows

ASSUME LimitIsNumber == Limit \in Nat

-------------------------------------------------------------------------------
(* What the tables guarantee: a row has a number of its own, and so have equal    *)
(* rows of a sort; no relation joins a node with itself (relationship_builder     *)
(* refuses one); times and weights are numbers, 0 where there is none.            *)
Numbered(rows) == IsFiniteSet(rows) /\ \A r, s \in rows : r.id \in Nat /\ (r.id = s.id => r = s)
Text == {v \in [key : STRING, form : Rules!Forms, size : Nat, digits : Nat, tail : STRING] : Rules!IsText(v)}
AreRelations(rows) ==
    Numbered(rows) /\ \A e \in rows : e.from # e.to /\ e.weight \in Nat /\ e.at \in Nat
AreContacts(rows) == Numbered(rows) /\ \A e \in rows : e.from # e.to /\ e.at \in Nat
AreRecords(rows) ==
    Numbered(rows) /\ \A r \in rows : r.at \in Nat /\ {r.vehicles, r.places, r.people, r.phones} \subseteq Seq(STRING)
AreTransfers(rows) == Numbered(rows) /\ \A t \in rows : t.at \in Nat /\ t.amount \in Nat

ASSUME ValuesAreTexts == ValuePool \subseteq Text
ASSUME RecordsHoldTexts ==
    \A r \in RecordPool :
        /\ \A i \in DOMAIN Rules!FieldOrder : r.fields[Rules!FieldOrder[i]] \in Seq(Text)
        /\ {r.used, r.present, r.parked} \subseteq Seq(Text \X Text)
ASSUME RelationsAreRows ==
    /\ \A rows \in RelationPool : AreRelations(rows) /\ \A e \in rows : {e.from, e.to} \subseteq DOMAIN LabelOf
    /\ \A n \in DOMAIN LabelOf : LabelOf[n] \in Nat
ASSUME ContactsAreRows == (\A rows \in ContactPool : AreContacts(rows)) /\ {Window.start, Window.end} \subseteq Nat
ASSUME SightingsAreRows == \A rows \in SeenPool : AreRecords(rows)
ASSUME TransfersAreRows ==
    \A t \in TrailPool : AreTransfers(t.early \cup t.late) /\ IsFiniteSet(t.nodes)
AreSignals(rows, alphabet) == Numbered(rows) /\ \A r \in rows : alphabet[r.kind] \in Nat /\ alphabet[r.case] \in Nat
ASSUME LinksAreRows == \A rows \in LinkPool : AreSignals(rows, Alphabet)
(* The register holds no case of an identity that identifies nothing; a reading   *)
(* is never filed as a screenshot's raw text.                                     *)
ASSUME RegisterIsFinite ==
    \A register \in RegisterPool : IsFiniteSet(register) /\ \A r \in register : r.identity # Asking!Nothing
ASSUME ReadingsAreNoRawText ==
    \A events \in TimelinePool : \A e \in events : e.grounded => e.type # "ocr_document"

(* A text is lines of tokens, and what a pattern matches is not empty. A table's   *)
(* header is words; none of the headers that _map_columns takes for an amount      *)
(* speaks of a balance. The rules that read names are numbered.                    *)
IsList(s) == s \in Seq({s[i] : i \in DOMAIN s})
IsText(text) == IsList(text) /\ \A i \in DOMAIN text : IsList(text[i])
IsTable(header, row) ==
    /\ IsList(header) /\ IsText(row) /\ Len(header) = Len(row)
    /\ \A i \in DOMAIN header :
        /\ header[i].rank \in Nat /\ IsList(header[i].words)
        /\ \A j \in DOMAIN header[i].words : header[i].words[j].kind = "word"
        /\ header[i].field = "amount" => Texts!RoleOf(header[i].words) # "balance"

ASSUME PagesAreTexts ==
    \A page \in PagePool :
        IsText(page) /\ \A t \in Texts!Tokens(page) : t.kind \in {"reference", "date", "moment"} => t.value # "none"
ASSUME RowsHaveColumns == \A q \in RowPool : IsTable(q.header, q.row)
ASSUME ChatsAreLines ==
    \A lines \in ChatPool :
        IsList(lines) /\ \A i \in DOMAIN lines : lines[i].sort \in {"message", "notice", "other", "blank"}
ASSUME LinesAreTokens ==
    \A line \in LinePool : IsList(line) /\ \A i \in DOMAIN line : line[i].kind = "person" => line[i].rule \in Nat

-------------------------------------------------------------------------------
VARIABLE question

NoQuestion == [topic |-> "none"]
Put ==
    \/ \E v \in ValuePool : question = [topic |-> "value", value |-> v]
    \/ \E r \in RecordPool : question = [topic |-> "record", record |-> r]
    \/ \E rows \in RelationPool : question = [topic |-> "relations", relations |-> rows]
    \/ \E rows \in ContactPool : question = [topic |-> "contacts", contacts |-> rows]
    \/ \E rows \in SeenPool : question = [topic |-> "seen", seen |-> rows]
    \/ \E t \in TrailPool : question = [topic |-> "trail", trail |-> t]
    \/ \E rows \in LinkPool : question = [topic |-> "cases", rows |-> rows]
    \/ \E rows \in RegisterPool : question = [topic |-> "register", register |-> rows]
    \/ \E rows \in TimelinePool : question = [topic |-> "timeline", events |-> rows]
    \/ \E page \in PagePool : question = [topic |-> "page", page |-> page]
    \/ \E q \in RowPool : question = [topic |-> "row", header |-> q.header, row |-> q.row]
    \/ \E lines \in ChatPool : question = [topic |-> "chat", lines |-> lines]
    \/ \E line \in LinePool : question = [topic |-> "line", line |-> line]

ReadingInit == question = NoQuestion \/ Put
ReadingSpec == ReadingInit /\ [][FALSE]_question

-------------------------------------------------------------------------------
(* What is computed from the rows of a case, or from a text, is true of it and     *)
(* agrees with what else is computed from it.                                     *)
AnswersAgree ==
    /\ question.topic = "value" => Rules!OneNodePerValue(question.value)
    /\ question.topic = "record" => Rules!RecordsStateOnce(question.record)
    /\ question.topic = "relations" =>
        /\ Views!ViewsAgree(question.relations)
        /\ Asking!FindingsAndRequestsAgree(question.relations, TypeOf, LabelOf, FileName, Limit)
    /\ question.topic = "contacts" =>
        /\ Alerts!ContactLeadsAreTrue(question.contacts, Window)
        /\ Alerts!LeadsAreRaisedOnce(question.contacts, {}, Window) /\ Alerts!LeadsAreTold(question.contacts, {}, Window)
    /\ question.topic = "seen" =>
        /\ Alerts!RecordLeadsAreTrue(question.seen)
        /\ Alerts!LeadsAreRaisedOnce({}, question.seen, Window) /\ Alerts!LeadsAreTold({}, question.seen, Window)
    /\ question.topic = "trail" =>
        Trail!TrailLeadsAreTrue(question.trail.early, question.trail.late, question.trail.nodes, Lures)
    /\ question.topic = "cases" => Asking!LinksAreMutual(question.rows, Visible, Alphabet, Limit)
    /\ question.topic = "register" => Asking!RecordIsCountedWhole(question.register, Identity)
    /\ question.topic = "timeline" => Asking!TimelineKeepsFiles(question.events)
    /\ question.topic = "page" => Texts!PageIsReadOnce(question.page)
    /\ question.topic = "row" => Texts!BalanceNeverMoves(question.header, question.row)
    /\ question.topic = "chat" => Texts!ChatKeepsWording(question.lines)
    /\ question.topic = "line" => Texts!NamesAreStated(question.line)

================================================================================
