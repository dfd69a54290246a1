------------------------------- MODULE MCNetwork -------------------------------
(* What is read out of a case, for TLC. EntityGraph, RecordRelations, ModelRouter  *)
(* and SchemaHistory play a scene each; in the scene "reading" a behaviour is one  *)
(* question put to the rules that are functions of stored rows or of a text        *)
(* (CaseReadings).                                                                *)
EXTENDS EntityGraph, RecordRelations, ModelRouter, SchemaHistory, Migrations, CaseReadings

CONSTANTS r1, r2, u1, u2

VARIABLE scene

vars == <<scene, graphVars, routerVars, schemaVars, linkVars, question>>

-------------------------------------------------------------------------------
(* Two files of a case. At once: one names a handle and an account, the other the *)
(* account. In turn: one names the handle twice, the other is a transfer between  *)
(* the two.                                                                       *)
Handle == [key |-> "a", form |-> "handle", size |-> 8, digits |-> 2, tail |-> "none"]
Account == [key |-> "b", form |-> "number", size |-> 9, digits |-> 9, tail |-> "none"]
Fields(filled) == [f \in {Rules!FieldOrder[i] : i \in DOMAIN Rules!FieldOrder} |->
                      IF f \in DOMAIN filled THEN filled[f] ELSE <<>>]
Record(source, amount, filled) ==
    [source |-> source, amount |-> amount, used |-> <<>>, present |-> <<>>, parked |-> <<>>, fields |-> Fields(filled)]
RecordOf ==
    [named |-> Record("pdf", "none", [account_identifiers |-> <<Handle, Handle, Account>>]),
     pair |-> Record("pdf", "none", [account_identifiers |-> <<Handle, Account>>]),
     paid |-> Record("bank_record", "payment", [sender |-> <<Handle>>, account_identifiers |-> <<Account>>, receiver |-> <<Account>>]),
     seen |-> Record("pdf", "none", [account_identifiers |-> <<Account>>])]
RecordMentions == [f \in DOMAIN RecordOf |-> Rules!MentionsOf(RecordOf[f])]
RecordEdges == [f \in DOMAIN RecordOf |-> Rules!EdgesOf(RecordOf[f])]
OlderNodes == {<<"upi", "a">>}

AtOnce == INSTANCE EntityGraph WITH Files <- {"pair", "seen"}, Decisions <- {}, Older <- {}, MaxNodes <- 3
InTurn == INSTANCE EntityGraph WITH Files <- {"named", "paid"}

-------------------------------------------------------------------------------
(* Two records of one file and one of another, which share a number or contradict  *)
(* each other about a payment, as the other file is read and the payment's         *)
(* reference is set.                                                               *)
Names(reference, phones) == [transaction_reference |-> reference, phone_numbers |-> phones]
Reading(ids, amount, currency, at) == [ids |-> ids, amount |-> amount, currency |-> currency, at |-> at]
LinkFiles == [a |-> "f", b |-> "f", c |-> "g"]
LinkReadings ==
    [a |-> {Reading(Names({"t"}, {}), 1, "INR", 0)}, b |-> {Reading(Names({}, {"p"}), 1, "none", 4)},
     c |-> {Reading(Names({"t"}, {}), 2, "EUR", 30), Reading(Names({}, {"p"}), 1, "none", 6)}]
References == {{}, {"t"}}

-------------------------------------------------------------------------------
(* Two files of the same bytes with a page that has an amount and a number the     *)
(* parser read, and a file with such a page and one without; models                *)
(* that agree, contradict, invent, infer or answer beside the question.           *)
Claim(value, basis, cited) == [value |-> value, basis |-> basis, cited |-> cited]
Says(claims, self) == [fits |-> TRUE, claims |-> claims, self |-> self]
WhatModelsSay ==
    {[fits |-> FALSE, claims |-> [x \in {} |-> 0], self |-> -1],
     Says([amount |-> Claim("x", "direct", TRUE), location |-> Claim("here", "direct", TRUE)], 90),
     Says([amount |-> Claim("y", "direct", TRUE), location |-> Claim("here", "direct", FALSE)], 100),
     Says([location |-> Claim("there", "direct", TRUE), phones |-> Claim("p2", "direct", TRUE)], 95),
     Says([sender |-> Claim("s", "inferred", FALSE)], -1)}
Pages == [page |-> [amount |-> "x", phones |-> "p1"], blank |-> [x \in {} |-> 0]]
UnitsOf == [i \in {"i", "j", "k"} |-> IF i = "k" THEN <<"page", "blank">> ELSE <<"page">>]
BytesOf == [i \in {"i", "j", "k"} |-> "c"]

-------------------------------------------------------------------------------
(* The questions: a value; a record; the relations of a small case; its contacts; *)
(* its records in time.                                                           *)
Sizes == {0, 2, 3, 5, 6, 9, 10, 13, 320, 321}
Values == {v \in {[key |-> "k", form |-> form, size |-> size, digits |-> digits, tail |-> "d"] :
                     form \in Rules!Forms, size \in Sizes, digits \in Sizes} : Rules!IsText(v)}
Name(k) == [key |-> k, form |-> "name", size |-> 4, digits |-> 0, tail |-> "none"]
Phone(k) == [key |-> k, form |-> "number", size |-> 10, digits |-> 10, tail |-> k]
PhoneHandle(k) == [key |-> "h", form |-> "handle", size |-> 14, digits |-> 10, tail |-> k]
Place == [key |-> "here", form |-> "other", size |-> 4, digits |-> 0, tail |-> "none"]
RecordQuestions ==
    {[Record(source, amount, [sender |-> s, receiver |-> t, phone_numbers |-> p, person_names |-> n])
        EXCEPT !.used = u, !.present = w] :
        source \in {"cdr", "bank_record", "pdf"}, amount \in {"none", "balance", "payment", "request"},
        s \in {<<>>, <<Phone("p")>>}, t \in {<<>>, <<PhoneHandle("q")>>, <<Phone("p"), Name("n")>>},
        p \in {<<>>, <<Phone("p"), Phone("q")>>, <<Phone("p"), Phone("p"), Phone("q")>>},
        n \in {<<>>, <<Name("n")>>, <<Name("n"), Name("m")>>},
        u \in {<<>>}, w \in {<<>>, <<<<Name("n"), Place>>>>}}

Contact(i, from, to, at, status) ==
    [id |-> i, kind |-> "CALLED", evidence |-> <<"f", "h", "g", "g">>[i], status |-> status, at |-> at, from |-> from, to |-> to]
ContactQuestions ==
    {{Contact(i, p[i][1], p[i][2], t[i], IF i = 4 THEN s ELSE "machine_extracted") : i \in 1..4} :
        s \in {"machine_extracted", "rejected"},
        t \in {q \in [1..4 -> {0, 60, 150, 180, 900}] : q[1] <= q[2] /\ q[2] <= q[3]},
        p \in [1..4 -> {<<"a", "b">>, <<"b", "c">>}]}
Seen(i, at, places, people, phones, device, sender) ==
    [id |-> i, evidence |-> i, at |-> at, vehicles |-> <<"v">>, places |-> places, people |-> people, phones |-> phones,
     device |-> device, sender |-> sender, numbers |-> {"p", "q"}]
SeenQuestions ==
    {{Seen(1, 0, <<"x">>, <<>>, <<"p">>, "d", "nobody"), Seen(2, t, <<"x", "y">>, <<"m">>, <<"p", "q">>, "d", s),
      Seen(3, u, <<l>>, <<"n">>, <<"q">>, e, "nobody")} :
        t \in {60, 500}, u \in {0, 30, 90}, s \in {"p", "nobody", "q", "m"}, l \in {"x", "z"}, e \in {"d", "none"}}
Incident == [start |-> 200, end |-> 300]

Stated(i, kind, ends, weight, status) ==
    [id |-> i, kind |-> kind, from |-> ends[1], to |-> ends[2], directed |-> TRUE, evidence |-> <<"f", "h", "g", "g">>[i],
     weight |-> weight, status |-> status, at |-> IF i = 2 THEN 0 ELSE 10 * i]
RelationQuestions ==
    {{Stated(i, k[i], p[i], 50 + 10 * i, s[i]) : i \in 1..4} :
        k \in {<<"CALLED", "CALLED", "MESSAGED", "CALLED">>},
        p \in {<<"a", "b">>} \X {<<"b", "a">>, <<"b", "c">>} \X {<<"a", "b">>, <<"c", "d">>} \X {<<"c", "a">>, <<"c", "d">>},
        s \in {q \in [1..4 -> {"machine_extracted", "human_verified", "rejected"}] : q[4] = "machine_extracted"}}

(* Two transfers, then a third; twice written nodes; the rows of three cases of    *)
(* which two are open to the reader; registered cases; events of two files.       *)
Transfer(i, amount, receiver, at) == [id |-> i, evidence |-> i, amount |-> amount, receiver |-> receiver, at |-> at]
Nodes == {[id |-> i, type |-> "phone", value |-> "p", evidence |-> i] : i \in 1..3}
         \cup {[id |-> 4, type |-> "url", value |-> "u", evidence |-> 1]}
TrailQuestions ==
    {[early |-> {Transfer(1, 50, p[1], t[1]), Transfer(2, 49, p[2], t[2])}, late |-> {Transfer(3, 60, p[3], t[3])}, nodes |-> n] :
        p \in [1..3 -> {"none", "m"}], t \in [1..3 -> {0, 10, 100, 101}], n \in {{}, Nodes}}
PhishingMail == {[id |-> 1, file |-> 1, type |-> "phishing_email"]}
LinkRow(i, case, kind, value, status) == [id |-> i, case |-> case, kind |-> kind, value |-> value, status |-> status]
LinkQuestions ==
    {{LinkRow(1, "c", "phone", "p", s[1]), LinkRow(2, "c", "phone", "p", s[2]), LinkRow(3, "d", "phone", "p", s[3]),
      LinkRow(4, "d", "reference", "t", s[4]), LinkRow(5, "c", "reference", "t", "confirmed"), LinkRow(6, "e", "phone", "p", "confirmed"),
      LinkRow(7, "c", "file", "x", "completed"), LinkRow(8, "d", "file", "x", "failed"), LinkRow(9, "d", "phone", "q", "confirmed")} :
        s \in [1..4 -> {"unreviewed", "confirmed", "rejected"}]}
Disposals == {"under_investigation", "chargesheeted", "convicted", "acquitted", "closed", "quashed", "transferred"}
Registered == {[identity |-> <<"phone", "p">>, disposal |-> d] : d \in Disposals} \cup {[identity |-> <<"phone", "q">>, disposal |-> "convicted"]}
Told == {[file |-> f, type |-> e[1], grounded |-> e[2]] :
            f \in {"f", "g"}, e \in {<<"ocr_document", FALSE>>, <<"message", FALSE>>, <<"observed_record", TRUE>>}}
NodeTypes == [a |-> "phone", b |-> "person", c |-> "upi", d |-> "device"]
NodeLabels == [a |-> 3, b |-> 1, c |-> 2, d |-> 2]
FileNames == [f |-> "call list", h |-> "call list"]
SignalOrder == [file |-> 1, phone |-> 2, reference |-> 3, c |-> 1, d |-> 2, e |-> 3]

(* Texts: pages of a screenshot, rows of a statement, lines of a chat and of a     *)
(* report.                                                                        *)
Figure(size, marked) == [kind |-> "figure", size |-> size, marked |-> marked]
Word(role, money) == [kind |-> "word", role |-> role, money |-> money]
Mention(kind, value) == [kind |-> kind, value |-> value]
When(kind, day, clock) == [kind |-> kind, value |-> day, clock |-> clock]
Person(name, role, rule) == [kind |-> "person", value |-> name, role |-> role, rule |-> rule]
UpTo(n, S) == UNION {[1..k -> S] : k \in 0..n}
Blocks == {<<When("date", "d", "none")>>, <<When("date", "e", "none"), When("clock", "none", "nine")>>,
           <<When("clock", "none", "ten")>>, <<When("moment", "d", "noon")>>, <<[kind |-> "today"]>>,
           <<Word("balance", TRUE), Figure(900, FALSE)>>, <<Figure(50, TRUE), Mention("reference", "t")>>,
           <<Figure(700, FALSE), Word("payment", TRUE)>>}
Column(field, rank, words) == [field |-> field, rank |-> rank, words |-> words]
Columns == {Column("event_time", 1, <<>>), Column("amount", 5, <<Word("none", TRUE)>>), Column("amount", 6, <<Word("none", TRUE)>>),
            Column("balance", 1, <<Word("balance", TRUE)>>), Column("narration", 3, <<>>)}
Headers == {h \in [1..3 -> Columns] : \A i, j \in 1..3 : h[i] = h[j] => i = j}
Cells(i) == {<<>>, <<Figure(100 * i, FALSE)>>, <<Word("payment", TRUE), Figure(10 * i, TRUE)>>, <<When("date", "d", "none")>>}
ChatLines == {[sort |-> sort, body |-> body] : sort \in {"message", "notice", "other"},
                body \in {<<Mention("phone", "p")>>, <<Mention("place", "here")>>}} \cup {[sort |-> "blank", body |-> <<>>]}
Sentence == {Person("m", "accused", 3), Person("m", "self-identified", 4), Person("n", "named", 1), Mention("vehicle", "v"),
             Mention("place", "here"), Mention("verb", "drives"), Mention("verb", "present"), [kind |-> "stop"]}

Registers == SUBSET Registered
Timelines == SUBSET Told
Suspect == <<"phone", "p">>
OpenCases == {"c", "d"}

PageQuestions == UpTo(3, Blocks)
RowQuestions == {[header |-> h, row |-> r] : h \in Headers, r \in Cells(1) \X Cells(2) \X Cells(3)}
ChatQuestions == UpTo(4, ChatLines)
LineQuestions == UpTo(4, Sentence)

-------------------------------------------------------------------------------
Init ==
    /\ scene \in {"at once", "in turn", "two files", "two units", "schema", "links", "reading"}
    /\ IF scene = "in turn" THEN InTurn!GraphInit ELSE AtOnce!GraphInit
    /\ RouterInit
    /\ scene \notin {"two units", "two files"} => mode = "disabled" /\ ~transmission
    /\ SchemaInit
    /\ LinksInit
    /\ IF scene = "reading" THEN Put ELSE question = NoQuestion

(* Two files once each, or one file with two units.                                *)
Untouched(items) == \A i \in items : work'[i] = Idle
TwoFiles == scene = "two files" /\ RouterNext /\ Untouched({"k"})
TwoUnits == scene = "two units" /\ RouterNext /\ Untouched({"i", "j"}) /\ runs' <= 1

Next ==
    /\ UNCHANGED <<scene, question>>
    /\ \/ scene = "at once" /\ AtOnce!GraphNext /\ UNCHANGED <<routerVars, schemaVars, linkVars>>
       \/ scene = "in turn" /\ InTurn!GraphNext /\ ~overlapped' /\ UNCHANGED <<routerVars, schemaVars, linkVars>>
       \/ (TwoFiles \/ TwoUnits) /\ UNCHANGED <<graphVars, schemaVars, linkVars>>
       \/ scene = "links" /\ LinksNext /\ UNCHANGED <<graphVars, routerVars, schemaVars>>
       \/ scene = "schema" /\ SchemaNext /\ UNCHANGED <<graphVars, routerVars, linkVars>>

Spec == Init /\ [][Next]_vars
Interchangeable == Permutations({r1, r2}) \cup Permutations({u1, u2})

================================================================================
