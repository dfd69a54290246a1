------------------------------ MODULE TextReading ------------------------------
(* evidence_intelligence/patterns.py and extraction.py: what is read out of a     *)
(* text without a model, and how each format is cut into units.                   *)
(*                                                                                *)
(* A text is a sequence of lines, a line a sequence of tokens, which stand for    *)
(* what the patterns match:                                                       *)
(*   [kind |-> "figure", size, marked]       a number outside identifiers and     *)
(*                                           dates; marked if a currency is there *)
(*   [kind |-> "word", role, money]          a word of AMOUNT_ROLE_PATTERNS or    *)
(*                                           of MONEY_CONTEXT_PATTERN             *)
(*   [kind |-> k, value], k \in Mentions     an identifier or a marked name       *)
(*   [kind |-> "person", value, role, rule]  a name, by one of PERSON_PATTERNS    *)
(*   [kind |-> "date" | "clock" | "moment", value, clock]                         *)
(*   [kind |-> "today" | "verb" | "stop"]    a relative day, a verb that states a *)
(*                                           link, the end of a sentence          *)
EXTENDS Integers, Sequences, FiniteSets, SequencesExt, FiniteSetsExt

Mentions == {"phone", "email", "account", "reference", "device", "vehicle", "organisation", "place"}

(* A text's tokens, their places in reading order, and the first of some.         *)
Tokens(text) == UNION {ToSet(line) : line \in ToSet(text)}
Places(text) == UNION {{i} \X DOMAIN text[i] : i \in DOMAIN text}
At(text, p) == text[p[1]][p[2]]
Before(p, q) == p[1] < q[1] \/ (p[1] = q[1] /\ p[2] < q[2])
First(places) == CHOOSE p \in places : \A q \in places : ~Before(q, p)
OfKind(text, kind) == {p \in Places(text) : At(text, p).kind = kind}

Printed(text, kinds) == {t.value : t \in {u \in Tokens(text) : u.kind \in kinds}}
FirstOf(text, kind) ==
    IF OfKind(text, kind) = {} THEN "none" ELSE At(text, First(OfKind(text, kind))).value

-------------------------------------------------------------------------------
(* Figures.                                                                       *)
NoAmount == [size |-> 0, role |-> "none"]

(* Mutant: words of payment are looked for before words of balance.               *)
RoleOf_PaymentFirst(line) ==
    LET said(role) == \E t \in ToSet(line) : t.kind = "word" /\ t.role = role
    IN  CASE said("payment") -> "payment"
          [] ~said("payment") /\ said("balance") -> "balance"
          [] OTHER -> "unknown"

(* classify_amount_role: what the words on a figure's line call it.               *)
RoleOf(line) ==
    LET order == <<"balance", "payment", "fee", "request">>
        said == {i \in DOMAIN order : \E t \in ToSet(line) : t.kind = "word" /\ t.role = order[i]}
    IN  IF said = {} THEN "unknown" ELSE order[Min(said)]

(* find_amount_detail's tests: a bare number needs a plausible size and a word    *)
(* that makes it money, or a column that does.                                    *)
IsMoney(t, line, declared) ==
    ~t.marked =>
        /\ t.size \in 100..999999999
        /\ declared \/ \E word \in ToSet(line) : word.kind = "word" /\ word.money
IsAmount(t, line, declared) == t.kind = "figure" /\ t.size >= 1 /\ IsMoney(t, line, declared)

AmountIn(text, declared) ==
    LET found == {p \in Places(text) : IsAmount(At(text, p), text[p[1]], declared)}
    IN  IF found = {} THEN NoAmount
        ELSE [size |-> At(text, First(found)).size, role |-> RoleOf(text[First(found)[1]])]

-------------------------------------------------------------------------------
(* Times. A reading is [day, clock, precision].                                   *)
Reading(day, clock, precision) == [day |-> day, clock |-> clock, precision |-> precision]
NoTime == Reading("none", "none", "unknown")

(* _relative_day_supersedes: a "today" after the date's first place in the scope. *)
Superseded(day, scope) ==
    LET named == {p \in OfKind(scope, "date") \cup OfKind(scope, "moment") : At(scope, p).value = day}
    IN  named # {} /\ \E p \in OfKind(scope, "today") : Before(First(named), p)

(* Mutant: the divider is looked for in the text at hand alone.                   *)
Timestamp_OwnText(text, scope) ==
    LET first(places) == At(text, First(places))
        moments == OfKind(text, "moment")
        dates == {p \in OfKind(text, "date") : ~Superseded(At(text, p).value, text)}
        clocks == OfKind(text, "clock")
    IN  CASE moments # {} -> Reading(first(moments).value, first(moments).clock, "exact")
          [] moments = {} /\ dates # {} -> Reading(first(dates).value, "none", "date_only")
          [] moments = {} /\ dates = {} /\ clocks # {} -> Reading("none", first(clocks).clock, "time_only")
          [] OTHER -> NoTime

(* find_timestamp, most specific rule first. Every date that matches is one.      *)
Timestamp(text, scope) ==
    LET first(places) == At(text, First(places))
        moments == OfKind(text, "moment")
        dates == {p \in OfKind(text, "date") : ~Superseded(At(text, p).value, scope)}
        clocks == OfKind(text, "clock")
    IN  CASE moments # {} -> Reading(first(moments).value, first(moments).clock, "exact")
          [] moments = {} /\ dates # {} -> Reading(first(dates).value, "none", "date_only")
          [] moments = {} /\ dates = {} /\ clocks # {} -> Reading("none", first(clocks).clock, "time_only")
          [] OTHER -> NoTime

(* _best_timestamp: the most specific reading of a page's blocks, or a day and a  *)
(* time of day from two of them.                                                  *)
BestTimestamp(page) ==
    LET readings == [i \in DOMAIN page |-> Timestamp(<<page[i]>>, page)]
        of(precision) == {i \in DOMAIN page : readings[i].precision = precision}
        first(precision) == readings[Min(of(precision))]
    IN  CASE of("exact") # {} -> first("exact")
          [] of("exact") = {} /\ of("date_only") # {} /\ of("time_only") # {} ->
                Reading(first("date_only").day, first("time_only").clock, "approximate")
          [] of("exact") = {} /\ of("date_only") # {} /\ of("time_only") = {} -> first("date_only")
          [] of("exact") = {} /\ of("date_only") = {} /\ of("time_only") # {} -> first("time_only")
          [] OTHER -> NoTime

-------------------------------------------------------------------------------
(* Names and links.                                                               *)
Strength(role) == CASE role \in {"self-identified", "relative"} -> 0 [] role = "named" -> 1 [] OTHER -> 2

(* Mutant: the last rule that reads a name decides.                               *)
RolesIn_Last(text) ==
    LET people == {t \in Tokens(text) : t.kind = "person"}
    IN  [name \in {p.value : p \in people} |->
            (CHOOSE p \in people : p.value = name /\ \A q \in people : q.value = name => q.rule <= p.rule).role]

(* find_person_roles: rule by rule and from left to right, a role gives way to a  *)
(* stronger one.                                                                  *)
RolesIn(text) ==
    LET people == OfKind(text, "person")
        person(p) == At(text, p)
        over(p, q) == \/ Strength(person(p).role) > Strength(person(q).role)
                      \/ /\ Strength(person(p).role) = Strength(person(q).role)
                         /\ \/ person(p).rule < person(q).rule
                            \/ person(p).rule = person(q).rule /\ Before(p, q)
        called(name) == {p \in people : person(p).value = name}
    IN  [name \in {person(p).value : p \in people} |->
            person(CHOOSE p \in called(name) : \A q \in called(name) : ~over(q, p)).role]

(* find_person_vehicle_links and its two like: both ends and the verb stand in    *)
(* one sentence of the unit.                                                      *)
Links(line, verb, left, right) ==
    LET together(i, j) == \A k \in DOMAIN line : (i <= k /\ k <= j) \/ (j <= k /\ k <= i) => line[k].kind # "stop"
        linked == {p \in (DOMAIN line) \X (DOMAIN line) :
            /\ line[p[1]].kind = left /\ line[p[2]].kind = right /\ together(p[1], p[2])
            /\ \E k \in DOMAIN line : line[k].kind = "verb" /\ line[k].value = verb /\ together(p[1], k)}
    IN  {<<line[p[1]].value, line[p[2]].value>> : p \in linked}
StatedLinks(line) ==
    Links(line, "drives", "person", "vehicle") \cup Links(line, "present", "person", "place")
        \cup Links(line, "present", "vehicle", "place")

(* _identifier_facts.                                                             *)
IdentifierFacts(text) ==
    [ids |-> [k \in Mentions \ {"reference", "device"} |-> Printed(text, {k})],
     reference |-> FirstOf(text, "reference"), device |-> FirstOf(text, "device"),
     roles |-> RolesIn(text), amount |-> AmountIn(text, FALSE)]

-------------------------------------------------------------------------------
(* Units, by format. One unit for an image, with the facts of its blocks where    *)
(* they name the place.                                                           *)
FirstBlock(readings, nothing) ==
    LET found == {i \in DOMAIN readings : readings[i] # nothing}
    IN  IF found = {} THEN nothing ELSE readings[Min(found)]
ImageFacts(page) ==
    LET amount == FirstBlock([i \in DOMAIN page |-> AmountIn(<<page[i]>>, FALSE)], NoAmount)
        reference == FirstBlock([i \in DOMAIN page |-> FirstOf(<<page[i]>>, "reference")], "none")
        found == [IdentifierFacts(page) EXCEPT !.amount = IF amount = NoAmount THEN @ ELSE amount,
                                     !.reference = IF reference = "none" THEN @ ELSE reference]
    IN  [facts |-> found, time |-> BestTimestamp(page)]

Unit(line) == [sort |-> line.sort, text |-> <<line.body>>, facts |-> IdentifierFacts(<<line.body>>)]

(* Mutant: a continuation goes to the newest message, whatever stands between.    *)
Continued_AcrossNotices(units, line) ==
    LET messages == {i \in DOMAIN units : units[i].sort = "message"}
    IN  CASE line.sort \in {"message", "notice"} -> Append(units, Unit(line))
          [] line.sort = "other" /\ messages # {} -> [units EXCEPT ![Max(messages)].text = Append(@, line.body)]
          [] OTHER -> units

(* _chat_export, line by line: a line is [sort, body]. One that is no message and  *)
(* no notice goes on with the message just above it.                              *)
Continued(units, line) ==
    CASE line.sort \in {"message", "notice"} -> Append(units, Unit(line))
      [] line.sort = "other" /\ units # <<>> /\ Last(units).sort = "message" ->
            [units EXCEPT ![Len(units)].text = Append(@, line.body)]
      [] OTHER -> units
ChatUnits(lines) == FoldLeft(Continued, <<>>, lines)

(* _map_columns: a header cell is [field, rank, words], its rank the place of its *)
(* alias in the field's list. The first alias that the header has wins.           *)
Mapped(header, field) ==
    LET columns == {i \in DOMAIN header : header[i].field = field}
    IN  CHOOSE i \in columns \cup {0} : IF columns = {} THEN i = 0 ELSE i \in columns /\
            \A j \in columns : header[i].rank < header[j].rank \/ (header[i].rank = header[j].rank /\ i <= j)

(* _cell_fact: what a cell says by itself under the field of its column.          *)
CellFact(field, cell) ==
    CASE field = "amount" -> AmountIn(<<cell>>, TRUE)
      [] field = "event_time" -> LET read == Timestamp(<<cell>>, <<cell>>) IN IF read.day = "none" THEN NoTime ELSE read
      [] field = "account" -> IF cell = <<>> THEN {} ELSE Printed(<<cell>>, Mentions)
      [] OTHER -> IF cell = <<>> THEN "none" ELSE cell[1].value

(* One row: the line of all its cells and their headers is swept, then the cells  *)
(* of mapped columns say what their header says.                                  *)
RowLine(header, row) == FlattenSeq([i \in DOMAIN row |-> IF row[i] = <<>> THEN <<>> ELSE header[i].words \o row[i]])
RowFacts(header, row) ==
    LET cell(field) == IF Mapped(header, field) = 0 THEN <<>> ELSE row[Mapped(header, field)]
        or(declared, nothing, swept) == IF declared = nothing THEN swept ELSE declared
        swept == IdentifierFacts(<<RowLine(header, row)>>)
    IN  [facts |-> [swept EXCEPT !.amount = or(CellFact("amount", cell("amount")), NoAmount, swept.amount),
                                 !.ids["account"] = or(CellFact("account", cell("account")), {}, swept.ids["account"]),
                                 !.reference = or(CellFact("reference", cell("reference")), "none", swept.reference)],
         time |-> CellFact("event_time", cell("event_time"))]

-------------------------------------------------------------------------------
(* A page of an image says the same whether it is read block by block or whole,   *)
(* and no day is asserted that the page does not print or that a relative day     *)
(* further down takes back; a time of day alone gives none.                       *)
PageIsReadOnce(page) ==
    LET read == ImageFacts(page)
    IN  /\ read.facts = IdentifierFacts(page)
        /\ read.time.precision \in {"time_only", "unknown"} <=> read.time.day = "none"
        /\ read.time.day # "none" => read.time.day \in Printed(page, {"date", "moment"})
        /\ read.time.precision \in {"date_only", "approximate"} => ~Superseded(read.time.day, page)
        /\ read.time.clock # "none" => \E t \in Tokens(page) : t.kind \in {"clock", "moment"} /\ t.clock = read.time.clock

(* What a row counts as money that moved is a figure of another column than its   *)
(* balance's, whatever the order of the columns and whichever cells are empty.    *)
BalanceNeverMoves(header, row) ==
    LET amount == RowFacts(header, row).facts.amount
        balances == {i \in DOMAIN row : RoleOf(header[i].words) = "balance"}
    IN  amount.role \notin {"balance", "none"} =>
            \E i \in DOMAIN row \ balances : \E t \in ToSet(row[i]) : t.kind = "figure" /\ t.size = amount.size

(* The lines of an export keep their order and wording in its units, up to those  *)
(* that no message precedes; no unit states what is not printed in it.            *)
ChatKeepsWording(lines) ==
    LET units == ChatUnits(lines)
        owned(i) == \/ lines[i].sort \in {"message", "notice"}
                    \/ /\ lines[i].sort = "other"
                       /\ \E j \in 1..(i - 1) : /\ lines[j].sort = "message"
                                                /\ \A k \in (j + 1)..(i - 1) : lines[k].sort \in {"other", "blank"}
    IN  /\ FlattenSeq([u \in DOMAIN units |-> units[u].text])
            = FlattenSeq([i \in DOMAIN lines |-> IF owned(i) THEN <<lines[i].body>> ELSE <<>>])
        /\ \A u \in ToSet(units) : \A k \in DOMAIN u.facts.ids : u.facts.ids[k] \subseteq Printed(u.text, {k})

(* A name is called by the strongest thing its text calls it, in whichever order; *)
(* a link's two ends are facts of its unit, and what a text links its sentences   *)
(* link one by one.                                                               *)
NamesAreStated(line) ==
    LET facts == IdentifierFacts(<<line>>)
        people == {t \in ToSet(line) : t.kind = "person"}
    IN  /\ \A p \in people : Strength(facts.roles[p.value]) >= Strength(p.role)
        /\ \A link \in StatedLinks(line) :
            /\ link[1] \in DOMAIN facts.roles \cup facts.ids["vehicle"]
            /\ link[2] \in facts.ids["vehicle"] \cup facts.ids["place"]
        /\ \A i \in DOMAIN line : line[i].kind = "stop" =>
            StatedLinks(line) = StatedLinks(SubSeq(line, 1, i - 1)) \cup StatedLinks(SubSeq(line, i + 1, Len(line)))

================================================================================
