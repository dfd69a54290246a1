------------------------------ MODULE NetworkRules ------------------------------
(* services/entity_resolution.py and services/relationship_builder.py, the rules: *)
(* which node an observed value belongs to and which edges a record states. What  *)
(* several runs do with them is in EntityGraph.                                   *)
(*                                                                                *)
(* A value is [key, form, size, digits, tail]: what is left of it when separators *)
(* and case are folded, what the patterns recognise in it, how many signs and how *)
(* many digits it has, and its last ten digits. A number is a run of digits, a    *)
(* name has none, "other" is any text that is not shaped like a name; an address  *)
(* or a handle may have ten digits before its @.                                  *)
EXTENDS Naturals, Sequences, FiniteSets, SequencesExt

Nobody == <<"none", "none">>
Forms == {"number", "email", "handle", "ifsc", "name", "other"}

IsText(v) ==
    /\ v.form \in Forms /\ v.digits <= v.size
    /\ v.form = "number" => v.digits = v.size
    /\ v.form = "name" => v.digits = 0

(* IDENTITY_FIELDS, in the order the resolver walks them.                         *)
FieldOrder == <<"phone_numbers", "email_addresses", "account_identifiers", "transaction_reference",
                "device_identifier", "sender", "receiver", "chat_participant_identifier",
                "vehicle_identifiers", "organisation_names", "person_names", "location_names">>
Kind(field) ==
    CASE field = "phone_numbers" -> "phone"
      [] field = "email_addresses" -> "email"
      [] field = "account_identifiers" -> "account"
      [] field = "transaction_reference" -> "reference"
      [] field = "device_identifier" -> "device"
      [] field = "vehicle_identifiers" -> "vehicle"
      [] field = "organisation_names" -> "organisation"
      [] field = "person_names" -> "person"
      [] field = "location_names" -> "location"
      [] OTHER -> "party"

(* _classify_account.                                                             *)
ClassifyAccount(v) ==
    CASE v.form = "email" -> "email"
      [] v.form = "handle" -> "upi"
      [] v.form = "ifsc" -> "ifsc"
      [] OTHER -> "account"

(* How much of a value must be left for it to identify anything.                  *)
Shortest(kind) ==
    CASE kind = "reference" -> 6
      [] kind = "vehicle" -> 8
      [] kind \in {"organisation", "person", "location"} -> 3
      [] OTHER -> 1

(* Mutant: a stated party is an opaque name whatever it turns out to be.          *)
PartyNode_Opaque(v) == IF v.size < 3 THEN Nobody ELSE <<"party", v.key>>

(* A stated sender or receiver is whatever it turns out to be: a phone where it   *)
(* has the digits of one, before anybody looks for an @.                          *)
PartyNode(v) ==
    IF v.digits >= 10 THEN <<"phone", v.tail>>
    ELSE IF v.form \in {"email", "handle"} THEN <<ClassifyAccount(v), v.key>>
    ELSE IF v.size < 3 THEN Nobody
    ELSE <<IF v.form = "name" THEN "person" ELSE "party", v.key>>

(* canonicalize: the node a value belongs to, or none.                            *)
Canonicalize(field, v) ==
    LET kind == Kind(field)
    IN  IF v.size \notin 1..320 THEN Nobody
        ELSE CASE kind = "party" -> PartyNode(v)
               [] kind = "phone" -> IF v.digits >= 10 THEN <<"phone", v.tail>> ELSE Nobody
               [] kind \in {"email", "account"} -> <<ClassifyAccount(v), v.key>>
               [] OTHER -> IF v.size >= Shortest(kind) THEN <<kind, v.key>> ELSE Nobody

(* Mutant: a party that was read before is read as a person's name now.           *)
IndicatorField_PartyIsPerson(type) ==
    CASE type = "phone" -> "phone_numbers"
      [] type = "email" -> "email_addresses"
      [] type \in {"upi_id", "ifsc", "account_number", "upi", "account"} -> "account_identifiers"
      [] type \in {"utr", "reference"} -> "transaction_reference"
      [] type = "device" -> "device_identifier"
      [] type \in {"party", "person"} -> "person_names"
      [] type = "organisation" -> "organisation_names"
      [] type = "location" -> "location_names"
      [] type = "vehicle" -> "vehicle_identifiers"
      [] OTHER -> "none"

(* INDICATOR_FIELDS: the older extractor's vocabulary and the resolver's own.     *)
IndicatorField(type) ==
    CASE type = "phone" -> "phone_numbers"
      [] type = "email" -> "email_addresses"
      [] type \in {"upi_id", "ifsc", "account_number", "upi", "account"} -> "account_identifiers"
      [] type \in {"utr", "reference"} -> "transaction_reference"
      [] type = "device" -> "device_identifier"
      [] type = "party" -> "sender"
      [] type = "person" -> "person_names"
      [] type = "organisation" -> "organisation_names"
      [] type = "location" -> "location_names"
      [] type = "vehicle" -> "vehicle_identifiers"
      [] OTHER -> "none"

CanonicalizeIndicator(type, v) ==
    IF IndicatorField(type) = "none" THEN Nobody ELSE Canonicalize(IndicatorField(type), v)

-------------------------------------------------------------------------------
(* A record maps every field to a sequence of values; next to them its source,    *)
(* the amount's role ("none" without an amount) and the pairs a sentence states.  *)
Read(r, field) == [i \in 1..Len(r.fields[field]) |-> Canonicalize(field, r.fields[field][i])]
Stated(r, field) == r.fields[field] # <<>>

(* resolve_record: what the record observes, in order.                            *)
MentionsOf(r) ==
    FlattenSeq([i \in 1..Len(FieldOrder) |->
        SelectSeq([j \in 1..Len(r.fields[FieldOrder[i]]) |->
                      [field |-> FieldOrder[i], identity |-> Read(r, FieldOrder[i])[j]]],
                  LAMBDA m : m.identity # Nobody)])

Edge(kind, directed, from, to) == [kind |-> kind, directed |-> directed, from |-> from, to |-> to]

(* Between every pair of ends that identify something and are not the same.       *)
Between(kind, directed, pairs) ==
    [i \in DOMAIN pairs |-> Edge(kind, directed, pairs[i][1], pairs[i][2])]
IsSound(e) == Nobody \notin {e.from, e.to} /\ e.from # e.to
Pairs(left, right) == FlattenSeq([i \in DOMAIN left |-> [j \in DOMAIN right |-> <<left[i], right[j]>>]])

CallSources == {"call_log", "cdr"}
TransferKind(r) ==
    IF r.source \in CallSources THEN "CALLED"
    ELSE IF r.amount = "balance" THEN "ASSOCIATED_WITH"
    ELSE IF r.amount \in {"payment", "fee"} \/ (r.amount # "none" /\ r.source = "bank_record") THEN "TRANSFERRED_TO"
    ELSE IF r.amount = "request" THEN "REQUESTED_PAYMENT_FROM"
    ELSE IF r.source \in {"email", "chat_export", "screenshot"} THEN "MESSAGED"
    ELSE "ASSOCIATED_WITH"

(* _stated_party_edges: both roles are named.                                     *)
PartyEdges(r) ==
    IF ~(Stated(r, "sender") /\ Stated(r, "receiver")) THEN <<>>
    ELSE Between(TransferKind(r), TRUE, Pairs(Read(r, "sender"), Read(r, "receiver")))

(* _call_log_edges: a row with one pair of numbers and no roles.                  *)
CallEdges(r) ==
    IF \/ r.source \notin CallSources
       \/ Stated(r, "sender") /\ Stated(r, "receiver")
       \/ Len(r.fields["phone_numbers"]) # 2
    THEN <<>>
    ELSE Between("COMMUNICATED_WITH", FALSE, <<Read(r, "phone_numbers")>>)

(* _stated_role_edges: what one sentence states about two of them.                *)
RoleEdges(r) ==
    LET Of(pairs, subject, object) ==
            [i \in DOMAIN pairs |-> <<Canonicalize(subject, pairs[i][1]), Canonicalize(object, pairs[i][2])>>]
    IN  Between("USED_VEHICLE", TRUE, Of(r.used, "person_names", "vehicle_identifiers"))
        \o Between("LOCATED_AT", TRUE, Of(r.present, "person_names", "location_names"))
        \o Between("LOCATED_AT", TRUE, Of(r.parked, "vehicle_identifiers", "location_names"))

(* _co_occurrence_edges: the first sight of each thing that is not a place; a     *)
(* page that names more than eight says little about any pair.                    *)
MaxCoOccurrence == 8
CoOccurring(r) ==
    LET named == <<"person_names", "organisation_names", "vehicle_identifiers", "phone_numbers",
                   "email_addresses", "account_identifiers">>
        all == FlattenSeq([i \in DOMAIN named |-> Read(r, named[i])])
        again(i) == \E j \in 1..(i - 1) : all[j] = all[i]
    IN  FlattenSeq([i \in DOMAIN all |-> IF all[i] = Nobody \/ again(i) THEN <<>> ELSE <<all[i]>>])
CoEdges(r) ==
    LET ends == CoOccurring(r)
        pairs == FlattenSeq([i \in DOMAIN ends |-> [j \in 1..(Len(ends) - i) |-> <<ends[i], ends[i + j]>>]])
    IN  IF Len(ends) > MaxCoOccurrence THEN <<>> ELSE Between("MENTIONED_WITH", FALSE, pairs)

(* _states_a_stronger_relation.                                                   *)
StatesStronger(r) ==
    \/ Stated(r, "sender") /\ Stated(r, "receiver")
    \/ r.used # <<>> \/ r.present # <<>>
    \/ r.source \in CallSources /\ Len(r.fields["phone_numbers"]) = 2

(* One row for an edge, whichever way round a symmetric one is told.              *)
SameEdge(e, d) ==
    e.kind = d.kind /\ (<<e.from, e.to>> = <<d.from, d.to>> \/ (~e.directed /\ <<e.from, e.to>> = <<d.to, d.from>>))
Fresh(edges, stored) ==
    {e \in ToSet(edges) : IsSound(e) /\ \A d \in stored : ~SameEdge(e, d)}

(* Mutant: whether something stronger is stated is told by what this pass wrote.  *)
Built_AskTheRows(r, stored) ==
    LET strong == Fresh(PartyEdges(r) \o CallEdges(r) \o RoleEdges(r), stored)
    IN  strong \cup (IF strong # {} THEN {} ELSE Fresh(CoEdges(r), stored))

(* build_relations_for_record: the rows it adds to those that are stored.         *)
Built(r, stored) ==
    Fresh(PartyEdges(r) \o CallEdges(r) \o RoleEdges(r), stored)
    \cup (IF StatesStronger(r) THEN {} ELSE Fresh(CoEdges(r), stored))

(* The edges a record states, in the order they are written.                      *)
EdgesOf(r) ==
    SelectSeq(PartyEdges(r) \o CallEdges(r) \o RoleEdges(r) \o (IF StatesStronger(r) THEN <<>> ELSE CoEdges(r)), IsSound)

-------------------------------------------------------------------------------
(* A handle, an address or a name in a sender's column is the node it has in a    *)
(* column of its own, but for handles and addresses of ten digits and more, which *)
(* are there the phone of those digits as in a column of phones. Reading a node's *)
(* value again, as the merge script does, gives that node.                        *)
OneNodePerValue(v) ==
    /\ v.digits >= 10 => Canonicalize("sender", v) = Canonicalize("phone_numbers", v)
    /\ v.form = "email" /\ v.digits < 10 => Canonicalize("sender", v) = Canonicalize("email_addresses", v)
    /\ v.form = "handle" /\ v.digits < 10 => Canonicalize("receiver", v) = Canonicalize("account_identifiers", v)
    /\ v.form = "name" => Canonicalize("sender", v) = Canonicalize("person_names", v)
    /\ \A i \in DOMAIN FieldOrder :
        LET node == Canonicalize(FieldOrder[i], v)
        IN  node # Nobody => CanonicalizeIndicator(node[1], v) = node

(* However often the builder walks a record, it writes what it wrote the first    *)
(* time; a pair that stands in a stated relation is never also a mere mention.    *)
RecordsStateOnce(r) ==
    LET first == Built(r, {})
    IN  /\ Built(r, first) = {}
        /\ \A e, d \in first :
            e.kind = "MENTIONED_WITH" /\ d.kind # "MENTIONED_WITH" => {e.from, e.to} # {d.from, d.to}

===============================================================================
