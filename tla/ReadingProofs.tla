------------------------------ MODULE ReadingProofs ------------------------------
(***************************************************************************)
(* Proofs about what is computed from the rows of a case (CaseReadings):   *)
(* the rules of NetworkRules, NetworkViews, NetworkAlerts, TrailAlerts and *)
(* CaseAnswers answer truly for all rows the tables may hold, of any       *)
(* number. A question changes nothing, so the invariant needs no           *)
(* strengthening; the work is in the operators.                            *)
(***************************************************************************)
EXTENDS TextProofs

-------------------------------------------------------------------------------
\* Orders: ranks, lists and what ORDER BY returns

Ranks(S, R) == [x \in S |-> Cardinality({y \in S : <<y, x>> \in R})]
Total(S, R) ==
    /\ \A x \in S : <<x, x>> \notin R
    /\ \A x, y, z \in S : <<x, y>> \in R /\ <<y, z>> \in R => <<x, z>> \in R
    /\ \A x, y \in S : x # y => <<x, y>> \in R \/ <<y, x>> \in R

\* Where a finite set is totally ordered, a member of a smaller rank comes before.
LEMMA RankRises ==
    ASSUME NEW S, IsFiniteSet(S), NEW R, Total(S, R), NEW x \in S, NEW y \in S, <<x, y>> \in R
    PROVE  Ranks(S, R)[x] < Ranks(S, R)[y]
<1> DEFINE Under(z) == {w \in S : <<w, z>> \in R}
<1>1. IsFiniteSet(Under(y)) /\ IsFiniteSet(Under(x))
  <2>1. Under(y) \subseteq S /\ Under(x) \subseteq S
    OBVIOUS
  <2> HIDE DEF Under
  <2> QED
    BY <2>1, FS_Subset
<1>2. Under(x) \subseteq Under(y) /\ Under(x) # Under(y)
  BY DEF Total
<1>3. Cardinality(Under(x)) < Cardinality(Under(y))
  <2> HIDE DEF Under
  <2>1. /\ Cardinality(Under(x)) <= Cardinality(Under(y))
        /\ Cardinality(Under(x)) # Cardinality(Under(y))
        /\ Cardinality(Under(x)) \in Nat /\ Cardinality(Under(y)) \in Nat
    BY <1>1, <1>2, FS_Subset, FS_CardinalityType
  <2> QED
    BY <2>1
<1> QED
  BY <1>3 DEF Ranks

\* A rank is a number below how many there are.
LEMMA RankBounds ==
    ASSUME NEW S, IsFiniteSet(S), NEW R, Total(S, R), NEW x \in S
    PROVE  Ranks(S, R)[x] \in 0..(Cardinality(S) - 1)
<1> DEFINE Under == {w \in S : <<w, x>> \in R}
<1>1. Under \subseteq S /\ Under # S
  BY DEF Total
<1>2. Cardinality(Under) \in Nat /\ Cardinality(S) \in Nat /\ Cardinality(Under) < Cardinality(S)
  <2> HIDE DEF Under
  <2> QED
    BY <1>1, FS_Subset, FS_CardinalityType
<1>3. Ranks(S, R)[x] = Cardinality(Under)
  BY DEF Ranks
<1> HIDE DEF Under
<1> QED
  BY <1>2, <1>3

\* Every place is taken, by one member.
LEMMA RanksAreTaken ==
    ASSUME NEW S, IsFiniteSet(S), NEW R, Total(S, R), NEW k \in 0..(Cardinality(S) - 1)
    PROVE  \E x \in S : Ranks(S, R)[x] = k
<1> DEFINE rank == Ranks(S, R)
           n == Cardinality(S)
<1>1. n \in Nat
  BY FS_CardinalityType
<1>2. rank \in [S -> 0..(n - 1)]
  BY RankBounds DEF Ranks
<1>3. \A x, y \in S : rank[x] = rank[y] => x = y
  <2> SUFFICES ASSUME NEW x \in S, NEW y \in S, rank[x] = rank[y], x # y PROVE FALSE
    OBVIOUS
  <2>1. <<x, y>> \in R \/ <<y, x>> \in R
    BY DEF Total
  <2>2. rank[x] \in Nat /\ rank[y] \in Nat
    BY <1>1, <1>2
  <2> QED
    BY <2>1, <2>2, RankRises
<1> HIDE DEF rank
<1>4. IsFiniteSet(0..(n - 1)) /\ Cardinality(0..(n - 1)) = n
  BY <1>1, FS_Interval
<1>5. rank \in Surjection(S, 0..(n - 1))
  <2>1. rank \in Injection(S, 0..(n - 1))
    BY <1>2, <1>3 DEF Injection, IsInjective
  <2> QED
    BY <1>1, <1>4, <2>1, FS_Injection
<1>6. k \in 0..(n - 1)
  OBVIOUS
<1> HIDE DEF n
<1>7. \A z \in 0..(n - 1) : \E x \in S : rank[x] = z
  BY <1>5 DEF Surjection
<1> QED
  BY <1>6, <1>7 DEF rank

\* A list of the members of S as R orders them.
Listed(S, R, o) ==
    /\ o \in Seq(S) /\ Len(o) = Cardinality(S) /\ DOMAIN o = 1..Cardinality(S) /\ Cardinality(S) \in Nat
    /\ \A i, j \in DOMAIN o : i < j <=> <<o[i], o[j]>> \in R
    /\ \A i, j \in DOMAIN o : o[i] = o[j] => i = j
    /\ \A x \in S : \E i \in DOMAIN o : o[i] = x

Ranked(S, R) == [i \in 1..Cardinality(S) |-> CHOOSE x \in S : Ranks(S, R)[x] = i - 1]

\* Of a finite set that is totally ordered, the ranked list is the list.
LEMMA RankedList ==
    ASSUME NEW S, IsFiniteSet(S), NEW R, Total(S, R)
    PROVE  Listed(S, R, Ranked(S, R))
<1> DEFINE rank == Ranks(S, R)
           n == Cardinality(S)
           o == Ranked(S, R)
<1>1. n \in Nat
  BY FS_CardinalityType
<1>2. ASSUME NEW i \in 1..n PROVE o[i] \in S /\ rank[o[i]] = i - 1
  <2>1. i - 1 \in 0..(n - 1)
    BY <1>1
  <2>2. \E x \in S : rank[x] = i - 1
    BY <2>1, RanksAreTaken
  <2>3. o[i] = CHOOSE x \in S : rank[x] = i - 1
    BY DEF Ranked
  <2> HIDE DEF rank
  <2> QED
    BY <2>2, <2>3
<1>3. DOMAIN o = 1..n /\ o = [i \in 1..n |-> o[i]]
  BY DEF Ranked
<1>4. \A x \in S : rank[x] \in 0..(n - 1)
  BY RankBounds
<1>5. \A x, y \in S : <<x, y>> \in R => rank[x] < rank[y]
  BY RankRises
<1>6. o \in Seq(S) /\ Len(o) = n
  <2> HIDE DEF o, rank, n
  <2> QED
    BY <1>1, <1>2, <1>3
<1> HIDE DEF rank, n, o
<1>7. \A i, j \in 1..n : o[i] = o[j] => i = j
  BY <1>1, <1>2
<1>8. ASSUME NEW i \in 1..n, NEW j \in 1..n PROVE i < j <=> <<o[i], o[j]>> \in R
  <2>1. o[i] \in S /\ o[j] \in S /\ rank[o[i]] = i - 1 /\ rank[o[j]] = j - 1
    BY <1>2
  <2>2. <<o[i], o[j]>> \in R => i < j
    BY <1>1, <1>5, <2>1
  <2>3. <<o[j], o[i]>> \in R => j < i
    BY <1>1, <1>5, <2>1
  <2>4. i # j => o[i] # o[j]
    BY <1>7
  <2>5. o[i] # o[j] => <<o[i], o[j]>> \in R \/ <<o[j], o[i]>> \in R
    BY <2>1 DEF Total
  <2> QED
    BY <1>1, <2>2, <2>3, <2>4, <2>5
<1>9. ASSUME NEW x \in S PROVE \E i \in 1..n : o[i] = x
  <2>1. rank[x] \in 0..(n - 1)
    BY <1>4
  <2>2. PICK i \in 1..n : rank[x] = i - 1
    <3>1. rank[x] + 1 \in 1..n /\ rank[x] = (rank[x] + 1) - 1
      BY <1>1, <2>1
    <3> QED
      BY <3>1
  <2>3. o[i] \in S /\ rank[o[i]] = rank[x]
    BY <1>2, <2>2
  <2>4. o[i] = x
    <3>1. o[i] # x => <<o[i], x>> \in R \/ <<x, o[i]>> \in R
      BY <2>3 DEF Total
    <3> QED
      BY <1>4, <1>5, <2>1, <2>3, <3>1
  <2> QED
    BY <2>4
<1> QED
  BY <1>1, <1>3, <1>6, <1>7, <1>8, <1>9 DEF Listed, n, o

\* Cardinality, as each module of rules has it.
LEMMA SameCount ==
    /\ \A S : Alerts!Cardinality(S) = Cardinality(S)
    /\ \A S : Asking!Cardinality(S) = Cardinality(S)
    /\ \A S : Views!Cardinality(S) = Cardinality(S)
    /\ \A S : Trail!Cardinality(S) = Cardinality(S)
<1>1. \A S : Alerts!Cardinality(S) = Cardinality(S)
  BY Zenon DEF Alerts!Cardinality, Cardinality
<1>2. \A S : Asking!Cardinality(S) = Cardinality(S)
  BY Zenon DEF Asking!Cardinality, Cardinality
<1>3. \A S : Views!Cardinality(S) = Cardinality(S)
  BY Zenon DEF Views!Cardinality, Cardinality
<1>4. \A S : Trail!Cardinality(S) = Cardinality(S)
  BY Zenon DEF Trail!Cardinality, Cardinality
<1> QED
  BY <1>1, <1>2, <1>3, <1>4

\* ORDER BY time, id.
InTime(rows) == {p \in rows \X rows : Alerts!Earlier(p[1], p[2])}

\* Rows by time and number are the list of the rows in that order.
LEMMA RowsInTime ==
    ASSUME NEW rows, Numbered(rows), \A r \in rows : r.at \in Nat
    PROVE  Listed(rows, InTime(rows), Alerts!ByTime(rows))
<1> DEFINE R == InTime(rows)
<1>1. Total(rows, R)
  BY DEF Total, Numbered, Alerts!Earlier, InTime
<1>2. \A x \in rows : {y \in rows : <<y, x>> \in R} = {y \in rows : Alerts!Earlier(y, x)}
  BY DEF InTime
<1>3. Alerts!ByTime(rows) = Ranked(rows, R)
  <2> DEFINE rank == [x \in rows |-> Alerts!Cardinality({y \in rows : Alerts!Earlier(y, x)})]
  <2>1. rank = Ranks(rows, R)
    BY <1>2, SameCount DEF Ranks
  <2>2. Alerts!ByTime(rows) = [i \in 1..Alerts!Cardinality(rows) |-> CHOOSE x \in rows : rank[x] = i - 1]
    BY Zenon DEF Alerts!ByTime, Alerts!InOrder
  <2>3. Alerts!Cardinality(rows) = Cardinality(rows)
    BY SameCount
  <2> HIDE DEF rank, R
  <2> QED
    BY <2>1, <2>2, <2>3, Zenon DEF Ranked
<1>4. IsFiniteSet(rows)
  BY DEF Numbered
<1> QED
  BY <1>1, <1>3, <1>4, RankedList, Zenon

-------------------------------------------------------------------------------
\* Values, timelines and registered cases

\* A value is one node wherever it was written, whatever its form and its length,
\* but for a handle or an address of ten digits and more: as a party it is a phone.
THEOREM ValuesHaveOneNode ==
    ASSUME NEW v \in Text
    PROVE  Rules!OneNodePerValue(v)
<1>1. v.size \in Nat /\ v.digits \in Nat /\ v.form \in Rules!Forms /\ (v.form = "name" => v.digits = 0)
  BY DEF Text, Rules!IsText
<1>2. ASSUME NEW i \in DOMAIN Rules!FieldOrder, Rules!Canonicalize(Rules!FieldOrder[i], v) # Rules!Nobody
      PROVE  LET node == Rules!Canonicalize(Rules!FieldOrder[i], v)
             IN  Rules!CanonicalizeIndicator(node[1], v) = node
  <2> DEFINE f == Rules!FieldOrder[i]
             node == Rules!Canonicalize(f, v)
  <2> SUFFICES Rules!CanonicalizeIndicator(node[1], v) = node
    OBVIOUS
  <2>1. i \in 1..12 /\ f \in {"phone_numbers", "email_addresses", "account_identifiers", "transaction_reference",
                "device_identifier", "sender", "receiver", "chat_participant_identifier",
                "vehicle_identifiers", "organisation_names", "person_names", "location_names"}
    BY DEF Rules!FieldOrder
  <2>2. node # Rules!Nobody
    BY <1>2
  <2>3. v.size \in 1..320
    BY <2>2 DEF Rules!Canonicalize
  <2> HIDE DEF f
  <2>4. CASE f \in {"sender", "receiver", "chat_participant_identifier"}
    <3>1. node = Rules!PartyNode(v)
      BY <2>3, <2>4 DEF Rules!Canonicalize, Rules!Kind
    <3>2. CASE v.digits >= 10
      <4>1. node = <<"phone", v.tail>>
        BY <3>1, <3>2, SMTT(30) DEF Rules!PartyNode
      <4> HIDE DEF node
      <4> QED
        BY <2>3, <3>2, <4>1 DEF Rules!CanonicalizeIndicator, Rules!IndicatorField, Rules!Canonicalize, Rules!Kind
    <3>3. CASE ~(v.digits >= 10) /\ v.form \in {"email", "handle"}
      <4>1. node = <<Rules!ClassifyAccount(v), v.key>>
        BY <3>1, <3>3 DEF Rules!PartyNode
      <4> HIDE DEF node
      <4> QED
        BY <2>3, <3>3, <4>1 DEF Rules!ClassifyAccount, Rules!CanonicalizeIndicator, Rules!IndicatorField, Rules!Canonicalize, Rules!Kind
    <3>4. CASE ~(v.digits >= 10) /\ v.form \notin {"email", "handle"}
      <4>1. v.size >= 3 /\ node = <<IF v.form = "name" THEN "person" ELSE "party", v.key>>
        BY <1>1, <2>2, <3>1, <3>4 DEF Rules!PartyNode
      <4>2. CASE v.form = "name"
        <5> HIDE DEF node
        <5> QED
          BY <4>1, <4>2, <2>3 DEF Rules!CanonicalizeIndicator, Rules!IndicatorField, Rules!Canonicalize, Rules!Kind, Rules!Shortest
      <4>3. CASE v.form # "name"
        <5>1. node[1] = "party" /\ node = Rules!PartyNode(v)
          BY <3>1, <4>1, <4>3
        <5> HIDE DEF node
        <5> QED
          BY <5>1, <2>3 DEF Rules!CanonicalizeIndicator, Rules!IndicatorField, Rules!Canonicalize, Rules!Kind
      <4> QED
        BY <4>2, <4>3
    <3> QED
      BY <3>2, <3>3, <3>4
  <2>5. CASE f = "phone_numbers"
    <3>1. node = <<"phone", v.tail>> /\ v.digits >= 10
      BY <2>2, <2>3, <2>5 DEF Rules!Canonicalize, Rules!Kind
    <3> HIDE DEF node
    <3> QED
      BY <2>3, <3>1 DEF Rules!CanonicalizeIndicator, Rules!IndicatorField, Rules!Canonicalize, Rules!Kind
  <2>6. CASE f \in {"email_addresses", "account_identifiers"}
    <3>1. node = <<Rules!ClassifyAccount(v), v.key>>
      BY <2>3, <2>6 DEF Rules!Canonicalize, Rules!Kind
    <3>2. Rules!ClassifyAccount(v) \in {"email", "upi", "ifsc", "account"}
      BY DEF Rules!ClassifyAccount
    <3>3. Rules!Kind(Rules!IndicatorField(Rules!ClassifyAccount(v))) \in {"email", "account"} /\ Rules!IndicatorField(Rules!ClassifyAccount(v)) # "none"
      BY <3>2 DEF Rules!Kind, Rules!IndicatorField
    <3>4. \A g : Rules!Kind(g) \in {"email", "account"} => Rules!Canonicalize(g, v) = <<Rules!ClassifyAccount(v), v.key>>
      BY <2>3 DEF Rules!Canonicalize
    <3> HIDE DEF node
    <3> QED
      BY <3>1, <3>3, <3>4 DEF Rules!CanonicalizeIndicator
  <2>7. CASE f \in {"transaction_reference", "device_identifier", "vehicle_identifiers", "organisation_names", "person_names", "location_names"}
    <3>1. node = <<Rules!Kind(f), v.key>> /\ v.size >= Rules!Shortest(Rules!Kind(f))
      BY <2>2, <2>3, <2>7 DEF Rules!Canonicalize, Rules!Kind
    <3>2. Rules!IndicatorField(Rules!Kind(f)) = f /\ f # "none"
      BY <2>7 DEF Rules!IndicatorField, Rules!Kind
    <3>3. Rules!CanonicalizeIndicator(Rules!Kind(f), v) = node
      BY <3>2 DEF Rules!CanonicalizeIndicator
    <3> HIDE DEF node
    <3> QED
      BY <3>1, <3>3
  <2> QED
    BY <2>1, <2>4, <2>5, <2>6, <2>7 DEF f
<1>6. v.digits >= 10 => Rules!Canonicalize("sender", v) = Rules!Canonicalize("phone_numbers", v)
  BY DEF Rules!Canonicalize, Rules!Kind, Rules!PartyNode
<1>3. v.form = "email" /\ v.digits < 10 => Rules!Canonicalize("sender", v) = Rules!Canonicalize("email_addresses", v)
  BY <1>1 DEF Rules!Canonicalize, Rules!Kind, Rules!PartyNode, Rules!ClassifyAccount
<1>4. v.form = "handle" /\ v.digits < 10 => Rules!Canonicalize("receiver", v) = Rules!Canonicalize("account_identifiers", v)
  BY <1>1 DEF Rules!Canonicalize, Rules!Kind, Rules!PartyNode, Rules!ClassifyAccount
<1>5. v.form = "name" => Rules!Canonicalize("sender", v) = Rules!Canonicalize("person_names", v)
  BY <1>1 DEF Rules!Canonicalize, Rules!Kind, Rules!PartyNode, Rules!Shortest
<1> QED
  BY <1>2, <1>3, <1>4, <1>5, <1>6 DEF Rules!OneNodePerValue

\* A file that has events keeps one on the timeline.
THEOREM TimelinesKeepFiles ==
    ASSUME NEW events, \A e \in events : e.grounded => e.type # "ocr_document"
    PROVE  Asking!TimelineKeepsFiles(events)
<1>1. ASSUME NEW e \in events PROVE \E d \in Asking!VisibleEvents(events) : d.file = e.file
  <2>1. CASE \E d \in events : d.grounded /\ d.file = e.file
    BY <2>1 DEF Asking!VisibleEvents
  <2>2. CASE ~\E d \in events : d.grounded /\ d.file = e.file
    BY <2>2 DEF Asking!VisibleEvents
  <2> QED
    BY <2>1, <2>2
<1>2. Asking!VisibleEvents(events) \subseteq events
  BY DEF Asking!VisibleEvents
<1>3. {e.file : e \in Asking!VisibleEvents(events)} = {e.file : e \in events}
  BY <1>1, <1>2
<1> QED
  BY <1>3 DEF Asking!TimelineKeepsFiles

\* Every registered case of an identity is counted once, under what became of it.
THEOREM RecordsAreCountedWhole ==
    ASSUME NEW register, IsFiniteSet(register), \A r \in register : r.identity # Asking!Nothing, NEW identity
    PROVE  Asking!RecordIsCountedWhole(register, identity)
<1> DEFINE entries == Asking!Registered(register, identity)
           own == {r \in register : r.identity = identity}
           open == {e \in entries : Asking!State(e.disposal) = "open"}
           closed == {e \in entries : Asking!State(e.disposal) = "closed"}
           convicted == {e \in closed : e.disposal = "convicted"}
           told == Asking!Statement(entries)
<1>1. entries = own
  BY DEF Asking!Registered
<1>2. IsFiniteSet(entries) /\ IsFiniteSet(open) /\ IsFiniteSet(closed) /\ IsFiniteSet(convicted)
  <2>1. entries \subseteq register /\ open \subseteq register /\ closed \subseteq register /\ convicted \subseteq register
    BY DEF Asking!Registered
  <2> HIDE DEF entries, open, closed, convicted
  <2> QED
    BY <2>1, FS_Subset
<1>3. /\ told.total = Cardinality(entries) /\ told.open = Cardinality(open)
      /\ told.convicted = Cardinality(convicted) /\ told.otherwise = Cardinality(closed) - Cardinality(convicted)
  <2>1. /\ told.total = Asking!Cardinality(entries) /\ told.open = Asking!Cardinality(open)
        /\ told.convicted = Asking!Cardinality(convicted)
        /\ told.otherwise = Asking!Cardinality(closed) - Asking!Cardinality(convicted)
    BY DEF Asking!Statement
  <2> HIDE DEF entries, open, closed, convicted, told
  <2> QED
    BY <2>1, SameCount
<1>4. ASSUME \A r \in own : Asking!State(r.disposal) # "unknown"
      PROVE  Cardinality(entries) = Cardinality(open) + Cardinality(closed)
  <2>1. entries = open \cup closed /\ open \cap closed = {}
    BY <1>1, <1>4 DEF Asking!State
  <2> HIDE DEF entries, open, closed
  <2>2. Cardinality(open \cap closed) = 0
    BY <2>1, FS_EmptySet
  <2>3. Cardinality(open \cup closed) = Cardinality(open) + Cardinality(closed) - Cardinality(open \cap closed)
    BY <1>2, FS_Union
  <2>4. Cardinality(open) \in Nat /\ Cardinality(closed) \in Nat
    BY <1>2, FS_CardinalityType
  <2> QED
    BY <2>1, <2>2, <2>3, <2>4
<1>5. Cardinality(open) \in Nat /\ Cardinality(closed) \in Nat /\ Cardinality(convicted) \in Nat
  <2> HIDE DEF open, closed, convicted
  <2> QED
    BY <1>2, FS_CardinalityType
<1>6. told.total = Cardinality(own)
  BY <1>1, <1>3
<1>7. (\A r \in own : Asking!State(r.disposal) # "unknown") => told.open + told.convicted + told.otherwise = told.total
  <2> HIDE DEF open, closed, convicted, told, entries, own
  <2> QED
    BY <1>3, <1>4, <1>5
<1>8. Asking!RecordIsCountedWhole(register, identity) <=>
          (told.total = Asking!Cardinality(own)
           /\ ((\A r \in own : Asking!State(r.disposal) # "unknown") => told.open + told.convicted + told.otherwise = told.total))
  BY Zenon DEF Asking!RecordIsCountedWhole
<1> HIDE DEF told, own
<1> QED
  BY <1>6, <1>7, <1>8, SameCount

-------------------------------------------------------------------------------
\* What a record states

\* A mention joins things of which none is a place.
Placeless == {n \in {Rules!Canonicalize(f, v) : f \in {"person_names", "organisation_names", "vehicle_identifiers", "phone_numbers",
                   "email_addresses", "account_identifiers"}, v \in Text} : n[1] # "location"}

\* What co-occurs is read from fields that name no place.
LEMMA MentionsHaveNoPlace ==
    ASSUME NEW r, \A i \in DOMAIN Rules!FieldOrder : r.fields[Rules!FieldOrder[i]] \in Seq(Text)
    PROVE  \A e \in Rules!ToSet(Rules!CoEdges(r)) :
               e.kind = "MENTIONED_WITH" /\ e.from[1] # "location" /\ e.to[1] # "location"
<1> DEFINE fields == {"person_names", "organisation_names", "vehicle_identifiers", "phone_numbers",
                      "email_addresses", "account_identifiers"}
           named == <<"person_names", "organisation_names", "vehicle_identifiers", "phone_numbers",
                      "email_addresses", "account_identifiers">>
           all == Rules!FlattenSeq([i \in DOMAIN named |-> Rules!Read(r, named[i])])
           again(i) == \E j \in 1..(i - 1) : all[j] = all[i]
           ends == Rules!CoOccurring(r)
           pairs == Rules!FlattenSeq([i \in DOMAIN ends |-> [j \in 1..(Len(ends) - i) |-> <<ends[i], ends[i + j]>>]])
<1>1. ASSUME NEW f \in fields PROVE r.fields[f] \in Seq(Text)
  <2>1. \E i \in 1..12 : Rules!FieldOrder[i] = f
    BY DEF Rules!FieldOrder
  <2>2. DOMAIN Rules!FieldOrder = 1..12
    BY DEF Rules!FieldOrder
  <2> QED
    BY <2>1, <2>2
<1>2. ASSUME NEW f \in fields, NEW v \in Text PROVE Rules!Canonicalize(f, v) \in Placeless
  <2>1. Rules!Canonicalize(f, v)[1] # "location"
    BY DEF Rules!Canonicalize, Rules!Kind, Rules!ClassifyAccount, Rules!Nobody
  <2> QED
    BY <2>1 DEF Placeless
<1>3. ASSUME NEW f \in fields PROVE Rules!Read(r, f) \in Seq(Placeless)
  <2>1. Len(r.fields[f]) \in Nat /\ \A i \in 1..Len(r.fields[f]) : r.fields[f][i] \in Text
    BY <1>1
  <2> QED
    BY <1>2, <2>1 DEF Rules!Read
<1>4. all \in Seq(Placeless)
  <2> DEFINE parts == [i \in DOMAIN named |-> Rules!Read(r, named[i])]
  <2>1. DOMAIN named = 1..6 /\ \A i \in 1..6 : named[i] \in fields
    OBVIOUS
  <2>2. parts \in Seq(Seq(Placeless))
    <3>1. \A i \in 1..6 : Rules!Read(r, named[i]) \in Seq(Placeless)
      BY <1>3, <2>1
    <3> HIDE DEF named
    <3> QED
      BY <2>1, <3>1
  <2> HIDE DEF parts
  <2>3. Rules!FlattenSeq(parts) \in Seq(Placeless)
    BY <2>2, FlatParts, SameFlat
  <2> QED
    BY <2>3 DEF parts
<1>5. ends \in Seq(Placeless)
  <2> DEFINE parts == [i \in DOMAIN all |-> IF all[i] = Rules!Nobody \/ again(i) THEN <<>> ELSE <<all[i]>>]
  <2>1. ends = Rules!FlattenSeq(parts)
    BY DEF Rules!CoOccurring
  <2> HIDE DEF all, ends
  <2>2. parts \in Seq(Seq(Placeless))
    <3>1. DOMAIN all = 1..Len(all) /\ Len(all) \in Nat /\ \A i \in 1..Len(all) : all[i] \in Placeless
      BY <1>4
    <3>2. \A i \in 1..Len(all) : parts[i] \in Seq(Placeless)
      BY <3>1
    <3>3. DOMAIN parts = 1..Len(all) /\ parts = [i \in 1..Len(all) |-> parts[i]]
      BY <3>1
    <3> HIDE DEF parts
    <3> QED
      BY <3>1, <3>2, <3>3
  <2> HIDE DEF parts
  <2> QED
    BY <2>1, <2>2, FlatParts, SameFlat
<1>6. pairs \in Seq(Placeless \X Placeless)
  <2> DEFINE parts == [i \in DOMAIN ends |-> [j \in 1..(Len(ends) - i) |-> <<ends[i], ends[i + j]>>]]
  <2> HIDE DEF all, ends
  <2>1. DOMAIN ends = 1..Len(ends) /\ Len(ends) \in Nat /\ \A i \in 1..Len(ends) : ends[i] \in Placeless
    BY <1>5
  <2>2. ASSUME NEW i \in 1..Len(ends) PROVE [j \in 1..(Len(ends) - i) |-> <<ends[i], ends[i + j]>>] \in Seq(Placeless \X Placeless)
    <3>1. Len(ends) - i \in Nat /\ \A j \in 1..(Len(ends) - i) : i + j \in 1..Len(ends)
      BY <2>1
    <3>2. \A j \in 1..(Len(ends) - i) : <<ends[i], ends[i + j]>> \in Placeless \X Placeless
      BY <2>1, <3>1
    <3> QED
      BY <3>1, <3>2
  <2>3. parts \in Seq(Seq(Placeless \X Placeless))
    <3>1. \A i \in 1..Len(ends) : parts[i] \in Seq(Placeless \X Placeless)
      BY <2>1, <2>2
    <3>2. DOMAIN parts = 1..Len(ends) /\ parts = [i \in 1..Len(ends) |-> parts[i]]
      BY <2>1
    <3> HIDE DEF parts
    <3> QED
      BY <2>1, <3>1, <3>2
  <2> HIDE DEF parts
  <2>4. Rules!FlattenSeq(parts) \in Seq(Placeless \X Placeless)
    BY <2>3, FlatParts, SameFlat
  <2> QED
    BY <2>4 DEF parts
<1>7. Rules!CoEdges(r) = IF Len(ends) > Rules!MaxCoOccurrence THEN <<>> ELSE Rules!Between("MENTIONED_WITH", FALSE, pairs)
  BY DEF Rules!CoEdges
<1> HIDE DEF ends, pairs
<1>8. ASSUME NEW e \in Rules!ToSet(Rules!Between("MENTIONED_WITH", FALSE, pairs))
      PROVE  e.kind = "MENTIONED_WITH" /\ e.from \in Placeless /\ e.to \in Placeless
  <2>1. PICK i \in DOMAIN pairs : e = Rules!Edge("MENTIONED_WITH", FALSE, pairs[i][1], pairs[i][2])
    BY DEF Rules!ToSet, Rules!Between
  <2>2. pairs[i] \in Placeless \X Placeless
    BY <1>6, <2>1
  <2> QED
    BY <2>1, <2>2 DEF Rules!Edge
<1>9. Rules!ToSet(<<>>) = {}
  BY DEF Rules!ToSet
<1>10. \A n \in Placeless : n[1] # "location"
  BY DEF Placeless
<1> QED
  BY <1>7, <1>8, <1>9, <1>10

\* What a record states beside mentions.
Fields == {Rules!FieldOrder[i] : i \in DOMAIN Rules!FieldOrder}
Node == {Rules!Canonicalize(f, v) : f \in Fields, v \in Text}
StatedKinds == {"CALLED", "ASSOCIATED_WITH", "TRANSFERRED_TO", "REQUESTED_PAYMENT_FROM", "MESSAGED", "COMMUNICATED_WITH",
                "USED_VEHICLE", "LOCATED_AT"}
StatedEdges == [kind : StatedKinds, directed : BOOLEAN, from : Node, to : Node]
Place == {n \in Node : n = Rules!Nobody \/ n[1] = "location"}

\* Edges between pairs have the ends of the pairs.
LEMMA EdgesBetween ==
    ASSUME NEW kind, NEW directed, NEW A, NEW B, NEW pairs \in Seq(A \X B)
    PROVE  Rules!Between(kind, directed, pairs) \in Seq([kind : {kind}, directed : {directed}, from : A, to : B])
<1> DEFINE edges == Rules!Between(kind, directed, pairs)
<1>1. DOMAIN pairs = 1..Len(pairs) /\ Len(pairs) \in Nat
  OBVIOUS
<1>2. DOMAIN edges = 1..Len(pairs) /\ edges = [i \in 1..Len(pairs) |-> edges[i]]
  BY <1>1 DEF Rules!Between
<1>3. ASSUME NEW i \in 1..Len(pairs) PROVE edges[i] \in [kind : {kind}, directed : {directed}, from : A, to : B]
  <2>1. pairs[i] \in A \X B
    BY <1>1
  <2>2. edges[i] = [kind |-> kind, directed |-> directed, from |-> pairs[i][1], to |-> pairs[i][2]]
    BY <1>1 DEF Rules!Between, Rules!Edge
  <2> QED
    BY <2>1, <2>2
<1> HIDE DEF edges
<1>4. edges \in Seq([kind : {kind}, directed : {directed}, from : A, to : B]) /\ Len(edges) = Len(pairs)
  BY <1>1, <1>2, <1>3
<1> QED
  BY <1>4 DEF edges

\* A sequence over a set is one over any larger set.
LEMMA EdgesWiden ==
    ASSUME NEW S, NEW T, S \subseteq T, NEW s \in Seq(S)
    PROVE  s \in Seq(T)
  OBVIOUS

\* A field of texts is read into as many nodes.
LEMMA ReadingsAreNodes ==
    ASSUME NEW r, \A i \in DOMAIN Rules!FieldOrder : r.fields[Rules!FieldOrder[i]] \in Seq(Text), NEW f \in Fields
    PROVE  /\ r.fields[f] \in Seq(Text) /\ Rules!Read(r, f) \in Seq(Node)
           /\ Len(Rules!Read(r, f)) = Len(r.fields[f])
<1>1. r.fields[f] \in Seq(Text)
  BY DEF Fields
<1>2. Len(r.fields[f]) \in Nat /\ \A i \in 1..Len(r.fields[f]) : r.fields[f][i] \in Text
  BY <1>1
<1>3. \A v \in Text : Rules!Canonicalize(f, v) \in Node
  BY DEF Node
<1> QED
  BY <1>1, <1>2, <1>3 DEF Rules!Read

\* A stated sender and receiver make stated edges.
LEMMA PartiesState ==
    ASSUME NEW r, \A i \in DOMAIN Rules!FieldOrder : r.fields[Rules!FieldOrder[i]] \in Seq(Text)
    PROVE  Rules!PartyEdges(r) \in Seq(StatedEdges)
<1> DEFINE left == Rules!Read(r, "sender")
           right == Rules!Read(r, "receiver")
           parts == [i \in DOMAIN left |-> [j \in DOMAIN right |-> <<left[i], right[j]>>]]
<1>1. "sender" \in Fields /\ "receiver" \in Fields
  <2>1. Rules!FieldOrder[6] = "sender" /\ Rules!FieldOrder[7] = "receiver" /\ DOMAIN Rules!FieldOrder = 1..12
    BY DEF Rules!FieldOrder
  <2> QED
    BY <2>1 DEF Fields
<1>2. left \in Seq(Node) /\ right \in Seq(Node)
  BY <1>1, ReadingsAreNodes
<1> HIDE DEF left, right
<1>3. parts \in Seq(Seq(Node \X Node))
  <2>1. /\ DOMAIN left = 1..Len(left) /\ Len(left) \in Nat /\ \A i \in 1..Len(left) : left[i] \in Node
        /\ DOMAIN right = 1..Len(right) /\ Len(right) \in Nat /\ \A i \in 1..Len(right) : right[i] \in Node
    BY <1>2
  <2>2. \A i \in 1..Len(left) : parts[i] = [j \in 1..Len(right) |-> <<left[i], right[j]>>]
    BY <2>1
  <2>3. \A i \in 1..Len(left) : parts[i] \in Seq(Node \X Node)
    <3> SUFFICES ASSUME NEW i \in 1..Len(left) PROVE [j \in 1..Len(right) |-> <<left[i], right[j]>>] \in Seq(Node \X Node)
      BY <2>2
    <3>1. \A j \in 1..Len(right) : <<left[i], right[j]>> \in Node \X Node
      BY <2>1
    <3> QED
      BY <2>1, <3>1
  <2>4. DOMAIN parts = 1..Len(left) /\ parts = [i \in 1..Len(left) |-> parts[i]]
    BY <2>1
  <2> HIDE DEF parts
  <2> QED
    BY <2>1, <2>3, <2>4
<1>4. Rules!Pairs(left, right) \in Seq(Node \X Node)
  <2>1. Rules!Pairs(left, right) = Rules!FlattenSeq(parts)
    BY DEF Rules!Pairs
  <2> HIDE DEF parts
  <2> QED
    BY <1>3, <2>1, FlatParts, SameFlat
<1>5. Rules!TransferKind(r) \in StatedKinds
  BY DEF Rules!TransferKind, StatedKinds
<1>6. Rules!Between(Rules!TransferKind(r), TRUE, Rules!Pairs(left, right)) \in Seq(StatedEdges)
  <2> DEFINE own == [kind : {Rules!TransferKind(r)}, directed : {TRUE}, from : Node, to : Node]
  <2>1. Rules!Between(Rules!TransferKind(r), TRUE, Rules!Pairs(left, right)) \in Seq(own)
    BY <1>4, EdgesBetween
  <2>2. own \subseteq StatedEdges
    BY <1>5 DEF StatedEdges
  <2> HIDE DEF own
  <2> QED
    BY <2>1, <2>2, EdgesWiden
<1>7. <<>> \in Seq(StatedEdges)
  OBVIOUS
<1> QED
  BY <1>6, <1>7 DEF Rules!PartyEdges, left, right

\* So does a row of a call log.
LEMMA CallsState ==
    ASSUME NEW r, \A i \in DOMAIN Rules!FieldOrder : r.fields[Rules!FieldOrder[i]] \in Seq(Text)
    PROVE  Rules!CallEdges(r) \in Seq(StatedEdges)
<1> DEFINE numbers == Rules!Read(r, "phone_numbers")
           own == [kind : {"COMMUNICATED_WITH"}, directed : {FALSE}, from : Node, to : Node]
<1>1. "phone_numbers" \in Fields
  <2>1. Rules!FieldOrder[1] = "phone_numbers" /\ 1 \in DOMAIN Rules!FieldOrder
    BY DEF Rules!FieldOrder
  <2> QED
    BY <2>1 DEF Fields
<1>2. numbers \in Seq(Node) /\ Len(numbers) = Len(r.fields["phone_numbers"])
  BY <1>1, ReadingsAreNodes
<1> HIDE DEF numbers
<1>3. CASE Len(r.fields["phone_numbers"]) = 2
  <2>1. numbers \in Node \X Node
    <3>1. Len(numbers) = 2
      BY <1>2, <1>3
    <3>2. \A q \in Seq(Node) : Len(q) = 2 => q \in Node \X Node
      OBVIOUS
    <3> QED
      BY <1>2, <3>1, <3>2
  <2>2. <<numbers>> \in Seq(Node \X Node)
    BY <2>1
  <2>3. Rules!Between("COMMUNICATED_WITH", FALSE, <<numbers>>) \in Seq(own)
    BY <2>2, EdgesBetween
  <2>4. own \subseteq StatedEdges
    BY DEF StatedEdges, StatedKinds
  <2> HIDE DEF own
  <2>5. Rules!Between("COMMUNICATED_WITH", FALSE, <<numbers>>) \in Seq(StatedEdges)
    BY <2>3, <2>4, EdgesWiden
  <2>6. <<>> \in Seq(StatedEdges)
    OBVIOUS
  <2> QED
    BY <2>5, <2>6 DEF Rules!CallEdges, numbers
<1>4. CASE Len(r.fields["phone_numbers"]) # 2
  <2>1. Rules!CallEdges(r) = <<>> /\ <<>> \in Seq(StatedEdges)
    BY <1>4 DEF Rules!CallEdges
  <2> QED
    BY <2>1
<1> QED
  BY <1>3, <1>4

\* So does what one sentence states.
LEMMA RolesState ==
    ASSUME NEW r, {r.used, r.present, r.parked} \subseteq Seq(Text \X Text)
    PROVE  /\ Rules!RoleEdges(r) \in Seq(StatedEdges)
           /\ r.used = <<>> /\ r.present = <<>> => Rules!RoleEdges(r) \in Seq({e \in StatedEdges : e.to \in Place})
<1> DEFINE Of(pairs, subject, object) ==
               [i \in DOMAIN pairs |-> <<Rules!Canonicalize(subject, pairs[i][1]), Rules!Canonicalize(object, pairs[i][2])>>]
           Own(kind, B) == [kind : {kind}, directed : {TRUE}, from : Node, to : B]
           used == Rules!Between("USED_VEHICLE", TRUE, Of(r.used, "person_names", "vehicle_identifiers"))
           present == Rules!Between("LOCATED_AT", TRUE, Of(r.present, "person_names", "location_names"))
           parked == Rules!Between("LOCATED_AT", TRUE, Of(r.parked, "vehicle_identifiers", "location_names"))
<1>1. "person_names" \in Fields /\ "vehicle_identifiers" \in Fields /\ "location_names" \in Fields
  <2>1. /\ Rules!FieldOrder[9] = "vehicle_identifiers" /\ Rules!FieldOrder[11] = "person_names"
        /\ Rules!FieldOrder[12] = "location_names" /\ DOMAIN Rules!FieldOrder = 1..12
    BY DEF Rules!FieldOrder
  <2> QED
    BY <2>1 DEF Fields
<1>2. ASSUME NEW f \in Fields, NEW v \in Text
      PROVE  Rules!Canonicalize(f, v) \in Node /\ Rules!Canonicalize("location_names", v) \in Place
  <2>1. Rules!Canonicalize("location_names", v) \in Node
    BY <1>1 DEF Node
  <2>2. Rules!Canonicalize("location_names", v) = Rules!Nobody \/ Rules!Canonicalize("location_names", v)[1] = "location"
    BY DEF Rules!Canonicalize, Rules!Kind
  <2> QED
    BY <2>1, <2>2 DEF Node, Place
<1>3. ASSUME NEW pairs \in Seq(Text \X Text), NEW f \in Fields, NEW g \in Fields
      PROVE  /\ Of(pairs, f, g) \in Seq(Node \X Node)
             /\ Of(pairs, f, "location_names") \in Seq(Node \X Place)
             /\ pairs = <<>> => Of(pairs, f, g) = <<>>
  <2>1. Len(pairs) \in Nat /\ DOMAIN pairs = 1..Len(pairs) /\ \A i \in 1..Len(pairs) : pairs[i][1] \in Text /\ pairs[i][2] \in Text
    BY <1>3
  <2>2. Of(pairs, f, g) \in Seq(Node \X Node) /\ Len(Of(pairs, f, g)) = Len(pairs)
    <3>1. \A i \in 1..Len(pairs) : <<Rules!Canonicalize(f, pairs[i][1]), Rules!Canonicalize(g, pairs[i][2])>> \in Node \X Node
      BY <1>2, <2>1
    <3> QED
      BY <2>1, <3>1
  <2>3. Of(pairs, f, "location_names") \in Seq(Node \X Place)
    <3>1. \A i \in 1..Len(pairs) : <<Rules!Canonicalize(f, pairs[i][1]), Rules!Canonicalize("location_names", pairs[i][2])>> \in Node \X Place
      BY <1>2, <2>1
    <3> QED
      BY <2>1, <3>1
  <2> HIDE DEF Of
  <2> QED
    BY <2>2, <2>3
<1>4. r.used \in Seq(Text \X Text) /\ r.present \in Seq(Text \X Text) /\ r.parked \in Seq(Text \X Text)
  OBVIOUS
<1>5. /\ Of(r.used, "person_names", "vehicle_identifiers") \in Seq(Node \X Node)
      /\ r.used = <<>> => Of(r.used, "person_names", "vehicle_identifiers") = <<>>
      /\ Of(r.present, "person_names", "location_names") \in Seq(Node \X Place)
      /\ Of(r.parked, "vehicle_identifiers", "location_names") \in Seq(Node \X Place)
  <2> HIDE DEF Of
  <2> QED
    BY <1>1, <1>3, <1>4
<1>6. Rules!RoleEdges(r) = used \o present \o parked
  BY DEF Rules!RoleEdges
<1> HIDE DEF Of
<1>7. used \in Seq(Own("USED_VEHICLE", Node)) /\ (r.used = <<>> => used = <<>>)
  <2>1. used \in Seq(Own("USED_VEHICLE", Node))
    BY <1>5, EdgesBetween
  <2>2. Rules!Between("USED_VEHICLE", TRUE, <<>>) = <<>>
    BY DEF Rules!Between
  <2>3. r.used = <<>> => used = <<>>
    BY <1>5, <2>2, Zenon
  <2> QED
    BY <2>1, <2>3
<1>8. present \in Seq(Own("LOCATED_AT", Place)) /\ parked \in Seq(Own("LOCATED_AT", Place))
  BY <1>5, EdgesBetween
<1>9. /\ Own("USED_VEHICLE", Node) \subseteq StatedEdges
      /\ Own("LOCATED_AT", Place) \subseteq {e \in StatedEdges : e.to \in Place}
      /\ Own("LOCATED_AT", Place) \subseteq StatedEdges
  BY DEF StatedEdges, StatedKinds, Place
<1> HIDE DEF Own, used, present, parked
<1>10. used \in Seq(StatedEdges) /\ present \in Seq(StatedEdges) /\ parked \in Seq(StatedEdges)
  BY <1>7, <1>8, <1>9, EdgesWiden
<1>11. present \in Seq({e \in StatedEdges : e.to \in Place}) /\ parked \in Seq({e \in StatedEdges : e.to \in Place})
  <2> DEFINE T == {e \in StatedEdges : e.to \in Place}
  <2>1. Own("LOCATED_AT", Place) \subseteq T
    BY <1>9
  <2> HIDE DEF T
  <2>2. present \in Seq(T) /\ parked \in Seq(T)
    BY <1>8, <2>1, EdgesWiden
  <2> QED
    BY <2>2 DEF T
<1>12. Rules!RoleEdges(r) \in Seq(StatedEdges)
  BY <1>6, <1>10
<1>13. ASSUME r.used = <<>> PROVE Rules!RoleEdges(r) \in Seq({e \in StatedEdges : e.to \in Place})
  <2> DEFINE T == {e \in StatedEdges : e.to \in Place}
  <2>1. used = <<>> /\ <<>> \in Seq(T) /\ present \in Seq(T) /\ parked \in Seq(T)
    BY <1>7, <1>11, <1>13
  <2> HIDE DEF T
  <2>2. <<>> \o present \o parked \in Seq(T)
    BY <2>1
  <2> QED
    BY <1>6, <2>1, <2>2 DEF T
<1> QED
  BY <1>12, <1>13

\* However often a record is walked it writes what it wrote the first time, and a
\* pair that stands in a stated relation is never also a mere mention.
THEOREM RecordsAreStatedOnce ==
    ASSUME NEW r, \A i \in DOMAIN Rules!FieldOrder : r.fields[Rules!FieldOrder[i]] \in Seq(Text),
           {r.used, r.present, r.parked} \subseteq Seq(Text \X Text)
    PROVE  Rules!RecordsStateOnce(r)
<1> DEFINE strong == Rules!PartyEdges(r) \o Rules!CallEdges(r) \o Rules!RoleEdges(r)
           weak == Rules!CoEdges(r)
           first == Rules!Built(r, {})
<1>1. first = Rules!Fresh(strong, {}) \cup (IF Rules!StatesStronger(r) THEN {} ELSE Rules!Fresh(weak, {}))
  BY DEF Rules!Built
<1>2. Rules!Built(r, first) = Rules!Fresh(strong, first) \cup (IF Rules!StatesStronger(r) THEN {} ELSE Rules!Fresh(weak, first))
  BY DEF Rules!Built
<1> HIDE DEF strong, weak
<1>3. \A e : Rules!SameEdge(e, e)
  BY DEF Rules!SameEdge
<1>4. \A edges : \A e \in Rules!Fresh(edges, first) : e \in Rules!Fresh(edges, {}) /\ e \notin first
  <2> HIDE DEF first
  <2> QED
    BY <1>3 DEF Rules!Fresh
<1>5. Rules!Built(r, first) = {}
  <2> HIDE DEF first
  <2> QED
    BY <1>1, <1>2, <1>4
<1>6. ASSUME NEW e \in first, NEW d \in first, e.kind = "MENTIONED_WITH", d.kind # "MENTIONED_WITH"
      PROVE  {e.from, e.to} # {d.from, d.to}
  <2>1. \A c \in Rules!Fresh(weak, {}) : c.kind = "MENTIONED_WITH" /\ c.from[1] # "location" /\ c.to[1] # "location"
    BY MentionsHaveNoPlace DEF Rules!Fresh, weak
  <2>2. \A c \in Rules!Fresh(strong, {}) : c.kind # "MENTIONED_WITH"
    <3>1. strong \in Seq(StatedEdges)
      <4>1. /\ Rules!PartyEdges(r) \in Seq(StatedEdges) /\ Rules!CallEdges(r) \in Seq(StatedEdges)
            /\ Rules!RoleEdges(r) \in Seq(StatedEdges)
        BY PartiesState, CallsState, RolesState
      <4>2. \A s, t, u \in Seq(StatedEdges) : s \o t \o u \in Seq(StatedEdges)
        OBVIOUS
      <4> QED
        BY <4>1, <4>2, Zenon DEF strong
    <3>2. \A c \in Rules!ToSet(strong) : c \in StatedEdges
      BY <3>1 DEF Rules!ToSet
    <3> QED
      BY <3>2 DEF Rules!Fresh, StatedEdges, StatedKinds
  <2>3. ~Rules!StatesStronger(r) => \A c \in Rules!Fresh(strong, {}) : c.to[1] = "location"
    <3> DEFINE T == {e1 \in StatedEdges : e1.to \in Place}
    <3> SUFFICES ASSUME ~Rules!StatesStronger(r) PROVE \A c \in Rules!Fresh(strong, {}) : c.to[1] = "location"
      OBVIOUS
    <3>1. r.used = <<>> /\ r.present = <<>> /\ Rules!PartyEdges(r) = <<>> /\ Rules!CallEdges(r) = <<>>
      BY DEF Rules!StatesStronger, Rules!PartyEdges, Rules!CallEdges
    <3>2. Rules!RoleEdges(r) \in Seq(T)
      BY <3>1, RolesState
    <3>3. strong \in Seq(T)
      <4> HIDE DEF T
      <4>1. <<>> \o <<>> \o Rules!RoleEdges(r) \in Seq(T)
        BY <3>2
      <4> QED
        BY <3>1, <4>1 DEF strong
    <3>4. \A c \in Rules!ToSet(strong) : c \in T
      <4> HIDE DEF T
      <4> QED
        BY <3>3 DEF Rules!ToSet
    <3> QED
      BY <3>4 DEF Rules!Fresh, Rules!IsSound, Place
  <2> HIDE DEF first
  <2>4. ~Rules!StatesStronger(r) /\ e \in Rules!Fresh(weak, {}) /\ d \in Rules!Fresh(strong, {})
    BY <1>1, <1>6, <2>1, <2>2
  <2> QED
    BY <2>1, <2>3, <2>4
<1> QED
  BY <1>5, <1>6, Zenon DEF Rules!RecordsStateOnce

-------------------------------------------------------------------------------
\* Other cases

\* What a case's identifiers are matched from, and what a link is made of.
LEMMA PickedRows ==
    ASSUME NEW rows, NEW c, NEW p \in Asking!Pickings(rows, c)
    PROVE  /\ \A k \in DOMAIN p : p[k] \in Asking!Mine(rows, c) /\ Asking!Key(p[k]) = k
           /\ \A r \in Asking!Mine(rows, c) : Asking!Key(r) \in DOMAIN p
<1> DEFINE keys == {Asking!Key(r) : r \in Asking!Mine(rows, c)}
<1>1. p \in [keys -> Asking!Mine(rows, c)] /\ \A k \in keys : Asking!Key(p[k]) = k
  BY DEF Asking!Pickings
<1>2. \A r \in Asking!Mine(rows, c) : Asking!Key(r) \in keys
  OBVIOUS
<1> HIDE DEF keys
<1> QED
  BY <1>1, <1>2

\* A link comes from a standing row of another open case with a key of this one.
LEMMA LinkOfRow ==
    ASSUME NEW rows, NEW c, NEW visible, NEW p, NEW l \in Asking!SharedLinks(p, rows, c, visible)
    PROVE  \E r \in rows : /\ r.case \in visible \ {c} /\ Asking!Standing(r) /\ Asking!Key(r) \in DOMAIN p
                           /\ l.key = Asking!Key(r) /\ l.current = p[Asking!Key(r)].id /\ l.case = r.case /\ l.linked = r.id
<1>1. PICK r \in Asking!Theirs(rows, c, visible) :
          /\ Asking!Key(r) \in DOMAIN p
          /\ l = [key |-> Asking!Key(r), current |-> p[Asking!Key(r)].id, case |-> r.case, linked |-> r.id,
                  confidence |-> Asking!Confidence(p[Asking!Key(r)], r)]
  BY DEF Asking!SharedLinks
<1>2. r \in rows /\ r.case \in visible \ {c} /\ Asking!Standing(r)
  BY DEF Asking!Theirs
<1> QED
  BY <1>1, <1>2

\* Every such row makes a link.
LEMMA RowMakesLink ==
    ASSUME NEW rows, NEW c, NEW visible, NEW p, NEW r \in rows,
           r.case \in visible \ {c}, Asking!Standing(r), Asking!Key(r) \in DOMAIN p
    PROVE  \E l \in Asking!SharedLinks(p, rows, c, visible) : l.key = Asking!Key(r) /\ l.case = r.case
<1> DEFINE l == [key |-> Asking!Key(r), current |-> p[Asking!Key(r)].id, case |-> r.case, linked |-> r.id,
                  confidence |-> Asking!Confidence(p[Asking!Key(r)], r)]
<1>1. r \in Asking!Theirs(rows, c, visible)
  BY DEF Asking!Theirs
<1>2. l \in Asking!SharedLinks(p, rows, c, visible)
  BY <1>1 DEF Asking!SharedLinks
<1> QED
  BY <1>2

-------------------------------------------------------------------------------
\* Alerts over the money trail

\* A finite set with a member has two exactly when it has another one.
LEMMA TwoMembers ==
    ASSUME NEW S, IsFiniteSet(S), NEW u \in S
    PROVE  Cardinality(S) >= 2 <=> \E w \in S : w # u
<1>1. IsFiniteSet(S \ {u}) /\ Cardinality(S \ {u}) = Cardinality(S) - 1 /\ Cardinality(S) \in Nat
  BY FS_RemoveElement, FS_CardinalityType
<1>2. Cardinality(S \ {u}) = 0 <=> S \ {u} = {}
  BY <1>1, FS_EmptySet
<1>3. Cardinality(S \ {u}) \in Nat
  BY <1>1, FS_CardinalityType
<1>4. \A n \in Nat, m \in Nat : m = n - 1 => (n >= 2 <=> m # 0)
  OBVIOUS
<1>5. Cardinality(S) >= 2 <=> S \ {u} # {}
  BY <1>1, <1>2, <1>3, <1>4
<1> QED
  BY <1>5

\* An order lists every transfer once.
LEMMA TransfersInOrder ==
    ASSUME NEW S, IsFiniteSet(S), NEW o \in Trail!Orders(S)
    PROVE  /\ DOMAIN o = 1..Cardinality(S) /\ Cardinality(S) \in Nat
           /\ \A i \in DOMAIN o : o[i] \in S
           /\ \A i, j \in DOMAIN o : o[i] = o[j] => i = j
           /\ \A i, j \in DOMAIN o : i < j => o[j].at = Trail!Undated \/ (o[i].at # Trail!Undated /\ o[i].at <= o[j].at)
           /\ \A x \in S : \E i \in DOMAIN o : o[i] = x
           /\ Trail!ToSet(o) = S
<1> DEFINE n == Cardinality(S)
<1>1. Trail!Cardinality(S) = n /\ n \in Nat
  BY SameCount, FS_CardinalityType
<1>2. /\ o \in [1..n -> S]
      /\ \A i, j \in 1..n : o[i] = o[j] => i = j
      /\ \A i, j \in 1..n : i < j => o[j].at = Trail!Undated \/ (o[i].at # Trail!Undated /\ o[i].at <= o[j].at)
  BY <1>1 DEF Trail!Orders, Trail!IsInjective
<1> HIDE DEF n
<1>3. o \in Injection(1..n, S)
  BY <1>2 DEF Injection, IsInjective
<1>4. IsFiniteSet(1..n) /\ Cardinality(1..n) = n
  BY <1>1, FS_Interval
<1>5. o \in Surjection(1..n, S)
  BY <1>3, <1>4, FS_Injection DEF n
<1>6. \A x \in S : \E i \in 1..n : o[i] = x
  BY <1>5 DEF Surjection
<1>7. Trail!ToSet(o) = S
  BY <1>2, <1>6 DEF Trail!ToSet
<1> QED
  BY <1>1, <1>2, <1>6, <1>7 DEF n

\* What one look at the trail finds.
Leads(order, nodes, events) ==
    Trail!HighValueTransfers(Trail!ToSet(order)) \cup Trail!RepeatedRecipients(Trail!ToSet(order))
    \cup Trail!RecurringIdentifiers(nodes) \cup Trail!PhishingLinks(events, nodes) \cup Trail!RapidSequence(order)

\* A look raises the leads that its rules find.
LEMMA LooksRaiseLeads ==
    ASSUME NEW alerts, NEW order, NEW nodes, NEW events
    PROVE  Trail!Evaluate(alerts, order, nodes, events) = Trail!Raise(alerts, Leads(order, nodes, events))
  BY DEF Trail!Evaluate, Leads

\* Each rule signs its leads.
LEMMA RulesOfLeads ==
    ASSUME NEW order, NEW nodes, NEW events
    PROVE  /\ \A l \in Trail!HighValueTransfers(Trail!ToSet(order)) : l.rule = "HIGH_VALUE_TRANSFER"
           /\ \A l \in Trail!RepeatedRecipients(Trail!ToSet(order)) : l.rule = "REPEATED_RECIPIENT"
           /\ \A l \in Trail!RecurringIdentifiers(nodes) : l.rule = "RECURRING_IDENTIFIER"
           /\ \A l \in Trail!PhishingLinks(events, nodes) : l.rule = "PHISHING_LINK"
           /\ \A l \in Trail!RapidSequence(order) : l.rule = "RAPID_TRANSACTION_SEQUENCE"
<1>1. \A l \in Trail!HighValueTransfers(Trail!ToSet(order)) : l.rule = "HIGH_VALUE_TRANSFER"
  BY DEF Trail!HighValueTransfers, Trail!Lead
<1>2. \A l \in Trail!RepeatedRecipients(Trail!ToSet(order)) : l.rule = "REPEATED_RECIPIENT"
  BY DEF Trail!RepeatedRecipients, Trail!Lead
<1>3. \A l \in Trail!RecurringIdentifiers(nodes) : l.rule = "RECURRING_IDENTIFIER"
  BY DEF Trail!RecurringIdentifiers, Trail!Lead
<1>4. \A l \in Trail!PhishingLinks(events, nodes) : l.rule = "PHISHING_LINK"
  BY DEF Trail!PhishingLinks, Trail!Lead
<1>5. \A l \in Trail!RapidSequence(order) : l.rule = "RAPID_TRANSACTION_SEQUENCE"
  <2>1. Trail!RapidSequence(order) = {} \/ \E x, y : Trail!RapidSequence(order) = {Trail!Lead("RAPID_TRANSACTION_SEQUENCE", x, y)}
    <3> DEFINE dated == {i \in DOMAIN order : order[i].at # Trail!Undated}
               next(i, j) == i < j /\ \A k \in dated : k <= i \/ j <= k
               close == {p \in dated \X dated : next(p[1], p[2]) /\ order[p[2]].at <= order[p[1]].at + Trail!Rapid}
               first == CHOOSE p \in close : \A q \in close : p[1] <= q[1]
    <3>1. Trail!RapidSequence(order) = IF close = {} THEN {}
            ELSE {Trail!Lead("RAPID_TRANSACTION_SEQUENCE", <<order[first[1]].id, order[first[2]].id>>,
                       {order[first[1]].evidence, order[first[2]].evidence})}
      BY DEF Trail!RapidSequence
    <3> HIDE DEF close, first
    <3> QED
      BY <3>1
  <2> QED
    BY <2>1 DEF Trail!Lead
<1> QED
  BY <1>1, <1>2, <1>3, <1>4, <1>5

\* A lead that is raised is there, and nothing else is added.
LEMMA RaisedLeads ==
    ASSUME NEW alerts, NEW leads, NEW rule
    PROVE  /\ Trail!About(Trail!Raise(alerts, leads), rule) = Trail!About(alerts, rule) \cup Trail!About(leads, rule)
           /\ \A l \in leads : \E a \in Trail!Raise(alerts, leads) : <<a.rule, a.about>> = <<l.rule, l.about>>
  BY DEF Trail!About, Trail!Raise

\* Raising leads that differ gives alerts that differ.
LEMMA RaisedOnce ==
    ASSUME NEW alerts, NEW leads,
           \A a, b \in alerts : <<a.rule, a.about>> = <<b.rule, b.about>> => a = b,
           \A a, b \in leads : <<a.rule, a.about>> = <<b.rule, b.about>> => a = b
    PROVE  \A a, b \in Trail!Raise(alerts, leads) : <<a.rule, a.about>> = <<b.rule, b.about>> => a = b
  BY DEF Trail!Raise

\* A lead is what its rule finds about its subject.
LEMMA LeadsAreOne ==
    ASSUME NEW order, NEW nodes, NEW events, \A t, u \in Trail!ToSet(order) : t.id = u.id => t = u,
           NEW a \in Leads(order, nodes, events), NEW b \in Leads(order, nodes, events), a.rule = b.rule, a.about = b.about
    PROVE  a = b
<1> DEFINE T == Trail!ToSet(order)
<1>1. CASE a \in Trail!HighValueTransfers(T)
  <2>1. b \in Trail!HighValueTransfers(T)
    BY <1>1, RulesOfLeads DEF Leads
  <2>2. PICK t \in T, u \in T : a = Trail!Lead("HIGH_VALUE_TRANSFER", <<t.id>>, {t.evidence})
                                /\ b = Trail!Lead("HIGH_VALUE_TRANSFER", <<u.id>>, {u.evidence})
    BY <1>1, <2>1 DEF Trail!HighValueTransfers
  <2>3. t.id = u.id
    BY <2>2 DEF Trail!Lead
  <2> QED
    BY <2>2, <2>3
<1>2. CASE a \in Trail!RepeatedRecipients(T)
  <2>1. b \in Trail!RepeatedRecipients(T)
    BY <1>2, RulesOfLeads DEF Leads
  <2>2. PICK p, q : a = Trail!Lead("REPEATED_RECIPIENT", <<p>>, Trail!Sources(Trail!To(T, p)))
                    /\ b = Trail!Lead("REPEATED_RECIPIENT", <<q>>, Trail!Sources(Trail!To(T, q)))
    BY <1>2, <2>1 DEF Trail!RepeatedRecipients
  <2>3. p = q
    BY <2>2 DEF Trail!Lead
  <2> QED
    BY <2>2, <2>3
<1>3. CASE a \in Trail!RecurringIdentifiers(nodes)
  <2>1. b \in Trail!RecurringIdentifiers(nodes)
    BY <1>3, RulesOfLeads DEF Leads
  <2>2. PICK n, m : a = Trail!Lead("RECURRING_IDENTIFIER", <<n.type, n.value>>, Trail!Sources(Trail!Twins(nodes, n)))
                    /\ b = Trail!Lead("RECURRING_IDENTIFIER", <<m.type, m.value>>, Trail!Sources(Trail!Twins(nodes, m)))
    BY <1>3, <2>1 DEF Trail!RecurringIdentifiers
  <2>3. n.type = m.type /\ n.value = m.value
    BY <2>2 DEF Trail!Lead
  <2>4. Trail!Twins(nodes, n) = Trail!Twins(nodes, m)
    BY <2>3 DEF Trail!Twins
  <2> QED
    BY <2>2, <2>3, <2>4
<1>4. CASE a \in Trail!PhishingLinks(events, nodes)
  <2>1. b \in Trail!PhishingLinks(events, nodes)
    BY <1>4, RulesOfLeads, SMTT(30) DEF Leads
  <2> QED
    BY <1>4, <2>1 DEF Trail!PhishingLinks
<1>5. CASE a \in Trail!RapidSequence(order)
  <2>1. b \in Trail!RapidSequence(order)
    BY <1>5, RulesOfLeads DEF Leads
  <2> QED
    BY <1>5, <2>1 DEF Trail!RapidSequence
<1> QED
  BY <1>1, <1>2, <1>3, <1>4, <1>5 DEF Leads

\* Two transfers close in time are found, and none that are not.
LEMMA RapidPairsAreFound ==
    ASSUME NEW S, AreTransfers(S), NEW o \in Trail!Orders(S)
    PROVE  /\ \A l \in Trail!RapidSequence(o) : Trail!Near(S, l.about[1], l.about[2])
           /\ (\E t, u \in S : Trail!Near(S, t.id, u.id)) => Trail!RapidSequence(o) # {}
<1> DEFINE n == Cardinality(S)
           dated == {i \in DOMAIN o : o[i].at # Trail!Undated}
           next(i, j) == i < j /\ \A k \in dated : k <= i \/ j <= k
           close == {p \in dated \X dated : next(p[1], p[2]) /\ o[p[2]].at <= o[p[1]].at + Trail!Rapid}
           first == CHOOSE p \in close : \A q \in close : p[1] <= q[1]
<1>1. /\ DOMAIN o = 1..n /\ n \in Nat
      /\ \A i \in 1..n : o[i] \in S
      /\ \A i, j \in 1..n : o[i] = o[j] => i = j
      /\ \A i, j \in 1..n : i < j => o[j].at = Trail!Undated \/ (o[i].at # Trail!Undated /\ o[i].at <= o[j].at)
      /\ \A x \in S : \E i \in 1..n : o[i] = x
  <2>1. IsFiniteSet(S)
    BY DEF AreTransfers, Numbered
  <2> QED
    BY <2>1, TransfersInOrder
<1>2. \A t \in S : t.at \in Nat /\ t.id \in Nat
  BY DEF AreTransfers, Numbered
<1>3. Trail!RapidSequence(o) = IF close = {} THEN {}
        ELSE {Trail!Lead("RAPID_TRANSACTION_SEQUENCE", <<o[first[1]].id, o[first[2]].id>>,
                   {o[first[1]].evidence, o[first[2]].evidence})}
  BY DEF Trail!RapidSequence
<1> HIDE DEF n
<1>4. close # {} => first \in close
  <2> SUFFICES ASSUME close # {} PROVE first \in close
    OBVIOUS
  <2>1. {p[1] : p \in close} \subseteq Nat /\ {p[1] : p \in close} # {}
    BY <1>1
  <2>2. PICK x \in {p[1] : p \in close} : \A y \in {p[1] : p \in close} : x <= y
    BY <2>1, LeastNumber
  <2>3. \E p \in close : \A q \in close : p[1] <= q[1]
    BY <2>2
  <2> HIDE DEF close
  <2> QED
    BY <2>3, SMTT(30)
<1>5. ASSUME NEW p \in close PROVE Trail!Near(S, o[p[1]].id, o[p[2]].id)
  <2>1. p[1] \in 1..n /\ p[2] \in 1..n /\ p[1] < p[2] /\ o[p[1]].at # Trail!Undated /\ o[p[2]].at # Trail!Undated
        /\ o[p[2]].at <= o[p[1]].at + Trail!Rapid
    BY <1>1
  <2>2. o[p[1]] # o[p[2]] /\ o[p[1]].at <= o[p[2]].at /\ o[p[1]] \in S /\ o[p[2]] \in S
    BY <1>1, <2>1
  <2> QED
    BY <2>1, <2>2 DEF Trail!Near
<1>6. ASSUME NEW t \in S, NEW u \in S, Trail!Near(S, t.id, u.id) PROVE close # {}
  <2>1. PICK v \in S, w \in S : v # w /\ v.at # Trail!Undated /\ w.at # Trail!Undated /\ v.at <= w.at /\ w.at <= v.at + Trail!Rapid
    BY <1>6 DEF Trail!Near
  <2>2. PICK i \in 1..n, j \in 1..n : o[i] = v /\ o[j] = w
    BY <1>1, <2>1
  <2>3. PICK a \in 1..n, b \in 1..n : a < b /\ o[a].at # Trail!Undated /\ o[b].at # Trail!Undated /\ o[b].at <= o[a].at + Trail!Rapid
    <3>1. i # j
      BY <2>1, <2>2
    <3>2. CASE i < j
      BY <2>1, <2>2, <3>2
    <3>3. CASE j < i
      <4>1. o[j].at <= o[i].at
        BY <1>1, <2>1, <2>2, <3>3
      <4>2. o[i].at <= o[j].at + Trail!Rapid
        BY <1>2, <2>1, <2>2 DEF Trail!Rapid
      <4> QED
        BY <2>1, <2>2, <3>3, <4>1, <4>2
    <3> QED
      BY <1>1, <3>1, <3>2, <3>3
  <2>4. a + 1 \in 1..n /\ a < a + 1 /\ a \in Nat /\ b \in Nat
    BY <1>1, <2>3
  <2>5. o[a + 1].at # Trail!Undated /\ o[a + 1].at <= o[b].at
    <3>1. CASE a + 1 = b
      <4>1. o[b] \in S
        BY <1>1
      <4>2. o[b].at \in Nat
        BY <1>2, <4>1
      <4> QED
        BY <2>3, <3>1, <4>2
    <3>2. CASE a + 1 # b
      <4>1. a + 1 < b
        BY <2>3, <2>4, <3>2
      <4> QED
        BY <1>1, <2>3, <2>4, <4>1
    <3> QED
      BY <3>1, <3>2
  <2>6. o[a + 1].at <= o[a].at + Trail!Rapid
    <3>1. o[a] \in S /\ o[b] \in S /\ o[a + 1] \in S
      BY <1>1, <2>4
    <3>2. o[a].at \in Nat /\ o[b].at \in Nat /\ o[a + 1].at \in Nat
      BY <1>2, <3>1
    <3> QED
      BY <2>3, <2>5, <3>2 DEF Trail!Rapid
  <2>7. <<a, a + 1>> \in dated \X dated
    BY <1>1, <2>3, <2>4, <2>5
  <2>8. next(a, a + 1)
    BY <1>1, <2>4
  <2> QED
    BY <2>6, <2>7, <2>8
<1> HIDE DEF close, first
<1>7. \A l \in Trail!RapidSequence(o) : Trail!Near(S, l.about[1], l.about[2])
  BY <1>3, <1>4, <1>5 DEF Trail!Lead
<1>8. (\E t, u \in S : Trail!Near(S, t.id, u.id)) => Trail!RapidSequence(o) # {}
  BY <1>3, <1>6
<1> QED
  BY <1>7, <1>8

\* What a trail's leads are about, rule by rule.
LEMMA HighLeads ==
    ASSUME NEW order, NEW nodes, NEW events
    PROVE  Trail!About(Leads(order, nodes, events), "HIGH_VALUE_TRANSFER")
               = {<<t.id>> : t \in {u \in Trail!ToSet(order) : u.amount >= Trail!HighValue}}
<1>1. {b \in Leads(order, nodes, events) : b.rule = "HIGH_VALUE_TRANSFER"} = Trail!HighValueTransfers(Trail!ToSet(order))
  BY RulesOfLeads DEF Leads
<1> DEFINE high == {u \in Trail!ToSet(order) : u.amount >= Trail!HighValue}
           found == Trail!HighValueTransfers(Trail!ToSet(order))
<1>2. found = {Trail!Lead("HIGH_VALUE_TRANSFER", <<t.id>>, {t.evidence}) : t \in high}
  BY DEF Trail!HighValueTransfers
<1>3. Trail!About(Leads(order, nodes, events), "HIGH_VALUE_TRANSFER") = {l.about : l \in found}
  BY <1>1 DEF Trail!About
<1> HIDE DEF high, found
<1>4. {l.about : l \in found} = {<<t.id>> : t \in high}
  <2>1. \A a, e : Trail!Lead("HIGH_VALUE_TRANSFER", a, e).about = a
    BY DEF Trail!Lead
  <2>2. ASSUME NEW l \in found PROVE \E t \in high : l.about = <<t.id>>
    <3>1. PICK t \in high : l = Trail!Lead("HIGH_VALUE_TRANSFER", <<t.id>>, {t.evidence})
      BY <1>2, Zenon
    <3> QED
      BY <2>1, <3>1
  <2>3. ASSUME NEW t \in high PROVE \E l \in found : l.about = <<t.id>>
    <3>1. Trail!Lead("HIGH_VALUE_TRANSFER", <<t.id>>, {t.evidence}) \in found
      BY <1>2, Zenon
    <3> QED
      BY <2>1, <3>1
  <2> QED
    BY <2>2, <2>3
<1> QED
  BY <1>3, <1>4 DEF high

\* The repeated recipients are those that two transfers name.
LEMMA RepeatedLeads ==
    ASSUME NEW order, NEW nodes, NEW events, IsFiniteSet(Trail!ToSet(order))
    PROVE  Trail!About(Leads(order, nodes, events), "REPEATED_RECIPIENT")
               = {<<t.receiver>> : t \in {u \in Trail!ToSet(order) : u.receiver # Trail!Unrecorded
                                             /\ \E w \in Trail!ToSet(order) \ {u} : w.receiver = u.receiver}}
<1> DEFINE T == Trail!ToSet(order)
<1>1. {b \in Leads(order, nodes, events) : b.rule = "REPEATED_RECIPIENT"} = Trail!RepeatedRecipients(T)
  BY RulesOfLeads DEF Leads
<1>2. ASSUME NEW u \in T
      PROVE  Trail!Cardinality(Trail!To(T, u.receiver)) >= 2 <=> \E w \in T \ {u} : w.receiver = u.receiver
  <2>1. Trail!To(T, u.receiver) \subseteq T /\ u \in Trail!To(T, u.receiver)
    BY DEF Trail!To
  <2>2. IsFiniteSet(Trail!To(T, u.receiver))
    BY <2>1, FS_Subset
  <2>3. Cardinality(Trail!To(T, u.receiver)) >= 2 <=> \E w \in Trail!To(T, u.receiver) : w # u
    BY <2>1, <2>2, TwoMembers
  <2>4. (\E w \in Trail!To(T, u.receiver) : w # u) <=> \E w \in T \ {u} : w.receiver = u.receiver
    BY DEF Trail!To
  <2> QED
    BY <2>3, <2>4, SameCount
<1>3. {u \in T : u.receiver # Trail!Unrecorded /\ Trail!Cardinality(Trail!To(T, u.receiver)) >= 2}
          = {u \in T : u.receiver # Trail!Unrecorded /\ \E w \in T \ {u} : w.receiver = u.receiver}
  BY <1>2
<1> DEFINE twice == {u \in T : u.receiver # Trail!Unrecorded /\ Trail!Cardinality(Trail!To(T, u.receiver)) >= 2}
           found == Trail!RepeatedRecipients(T)
<1>4. found = {Trail!Lead("REPEATED_RECIPIENT", <<p>>, Trail!Sources(Trail!To(T, p))) : p \in {t.receiver : t \in twice}}
  BY DEF Trail!RepeatedRecipients
<1>5. Trail!About(Leads(order, nodes, events), "REPEATED_RECIPIENT") = {l.about : l \in found}
  BY <1>1 DEF Trail!About
<1> HIDE DEF twice, found, T
<1>6. {l.about : l \in found} = {<<t.receiver>> : t \in twice}
  <2>1. \A a, e : Trail!Lead("REPEATED_RECIPIENT", a, e).about = a
    BY DEF Trail!Lead
  <2>2. ASSUME NEW l \in found PROVE \E t \in twice : l.about = <<t.receiver>>
    <3>1. PICK t \in twice : l = Trail!Lead("REPEATED_RECIPIENT", <<t.receiver>>, Trail!Sources(Trail!To(T, t.receiver)))
      BY <1>4, Zenon
    <3> QED
      BY <2>1, <3>1
  <2>3. ASSUME NEW t \in twice PROVE \E l \in found : l.about = <<t.receiver>>
    <3>1. Trail!Lead("REPEATED_RECIPIENT", <<t.receiver>>, Trail!Sources(Trail!To(T, t.receiver))) \in found
      BY <1>4, Zenon
    <3> QED
      BY <2>1, <3>1
  <2> QED
    BY <2>2, <2>3
<1> QED
  BY <1>3, <1>5, <1>6, Zenon DEF twice, T

\* The rapid sequences are what their rule finds.
LEMMA RapidLeads ==
    ASSUME NEW order, NEW nodes, NEW events
    PROVE  Trail!About(Leads(order, nodes, events), "RAPID_TRANSACTION_SEQUENCE") = {l.about : l \in Trail!RapidSequence(order)}
<1>1. {b \in Leads(order, nodes, events) : b.rule = "RAPID_TRANSACTION_SEQUENCE"} = Trail!RapidSequence(order)
  BY RulesOfLeads DEF Leads
<1> QED
  BY <1>1 DEF Trail!About

\* However the files came in, the leads that stand when the last was read are true
\* of the trail and none is missing; a second look adds nothing but, among equal
\* times, another close pair.
THEOREM TrailsAreReadTruly ==
    ASSUME NEW early, NEW late, AreTransfers(early \cup late), NEW nodes, NEW events
    PROVE  Trail!TrailLeadsAreTrue(early, late, nodes, events)
<1> DEFINE transfers == early \cup late
<1>1. /\ IsFiniteSet(transfers) /\ IsFiniteSet(early) /\ AreTransfers(early)
      /\ \A t, u \in transfers : t.id = u.id => t = u
  <2>1. IsFiniteSet(transfers) /\ early \subseteq transfers /\ \A t, u \in transfers : t.id = u.id => t = u
    BY DEF AreTransfers, Numbered
  <2>2. IsFiniteSet(early)
    <3> HIDE DEF transfers
    <3> QED
      BY <2>1, FS_Subset
  <2>3. AreTransfers(early)
    BY <2>2 DEF AreTransfers, Numbered
  <2> QED
    BY <2>1, <2>2, <2>3
<1>2. AreTransfers(transfers) /\ early \subseteq transfers
  OBVIOUS
<1> SUFFICES ASSUME NEW first \in Trail!Orders(early), NEW second \in Trail!Orders(transfers), NEW again \in Trail!Orders(transfers)
             PROVE  LET alerts == Trail!Evaluate(Trail!Evaluate({}, first, nodes, {}), second, nodes, events)
                        rapid == Trail!About(alerts, "RAPID_TRANSACTION_SEQUENCE")
                    IN  /\ Trail!About(alerts, "HIGH_VALUE_TRANSFER") = {<<t.id>> : t \in {u \in transfers : u.amount >= Trail!HighValue}}
                        /\ Trail!About(alerts, "REPEATED_RECIPIENT") =
                            {<<t.receiver>> : t \in {u \in transfers : u.receiver # Trail!Unrecorded
                                                /\ \E w \in transfers \ {u} : w.receiver = u.receiver}}
                        /\ \A p \in rapid : Trail!Near(transfers, p[1], p[2])
                        /\ (\E t, u \in transfers : Trail!Near(transfers, t.id, u.id)) => rapid # {}
                        /\ \A a, b \in alerts : <<a.rule, a.about>> = <<b.rule, b.about>> => a = b
                        /\ \A a \in Trail!Evaluate(alerts, again, nodes, events) \ alerts :
                            a.rule = "RAPID_TRANSACTION_SEQUENCE" /\ second # again
  BY Zenon DEF Trail!TrailLeadsAreTrue
<1> HIDE DEF transfers
<1> DEFINE then == Leads(first, nodes, {})
           now == Leads(second, nodes, events)
           anew == Leads(again, nodes, events)
           old == Trail!Raise({}, then)
           alerts == Trail!Raise(old, now)
<1>3. /\ Trail!Evaluate(Trail!Evaluate({}, first, nodes, {}), second, nodes, events) = alerts
      /\ Trail!Evaluate(alerts, again, nodes, events) = Trail!Raise(alerts, anew)
  BY LooksRaiseLeads
<1>4. Trail!ToSet(first) = early /\ Trail!ToSet(second) = transfers /\ Trail!ToSet(again) = transfers
  BY <1>1, TransfersInOrder
<1>5. ASSUME NEW rule
      PROVE  Trail!About(alerts, rule) = Trail!About(then, rule) \cup Trail!About(now, rule)
  <2>1. Trail!About({}, rule) = {}
    BY DEF Trail!About
  <2>2. Trail!About(old, rule) = Trail!About({}, rule) \cup Trail!About(then, rule)
    BY RaisedLeads
  <2>3. Trail!About(alerts, rule) = Trail!About(old, rule) \cup Trail!About(now, rule)
    BY RaisedLeads
  <2> HIDE DEF old, alerts, then, now
  <2> QED
    BY <2>1, <2>2, <2>3
<1>6. Trail!About(alerts, "HIGH_VALUE_TRANSFER") = {<<t.id>> : t \in {u \in transfers : u.amount >= Trail!HighValue}}
  <2>1. Trail!About(then, "HIGH_VALUE_TRANSFER") = {<<t.id>> : t \in {u \in early : u.amount >= Trail!HighValue}}
    BY <1>4, HighLeads
  <2>2. Trail!About(now, "HIGH_VALUE_TRANSFER") = {<<t.id>> : t \in {u \in transfers : u.amount >= Trail!HighValue}}
    BY <1>4, HighLeads
  <2> HIDE DEF old, alerts, then, now
  <2>3. Trail!About(alerts, "HIGH_VALUE_TRANSFER") = Trail!About(then, "HIGH_VALUE_TRANSFER") \cup Trail!About(now, "HIGH_VALUE_TRANSFER")
    BY <1>5
  <2> QED
    BY <1>2, <2>1, <2>2, <2>3
<1>7. Trail!About(alerts, "REPEATED_RECIPIENT") =
          {<<t.receiver>> : t \in {u \in transfers : u.receiver # Trail!Unrecorded
                                                /\ \E w \in transfers \ {u} : w.receiver = u.receiver}}
  <2>1. Trail!About(then, "REPEATED_RECIPIENT") = {<<t.receiver>> : t \in {u \in early : u.receiver # Trail!Unrecorded
                                                /\ \E w \in early \ {u} : w.receiver = u.receiver}}
    BY <1>1, <1>4, RepeatedLeads
  <2>2. Trail!About(now, "REPEATED_RECIPIENT") = {<<t.receiver>> : t \in {u \in transfers : u.receiver # Trail!Unrecorded
                                                /\ \E w \in transfers \ {u} : w.receiver = u.receiver}}
    BY <1>1, <1>4, RepeatedLeads
  <2> HIDE DEF old, alerts, then, now
  <2>3. Trail!About(alerts, "REPEATED_RECIPIENT") = Trail!About(then, "REPEATED_RECIPIENT") \cup Trail!About(now, "REPEATED_RECIPIENT")
    BY <1>5
  <2> QED
    BY <1>2, <2>1, <2>2, <2>3
<1>8. Trail!About(alerts, "RAPID_TRANSACTION_SEQUENCE") = {l.about : l \in Trail!RapidSequence(first)} \cup {l.about : l \in Trail!RapidSequence(second)}
  <2>1. Trail!About(then, "RAPID_TRANSACTION_SEQUENCE") = {l.about : l \in Trail!RapidSequence(first)}
    BY RapidLeads
  <2>2. Trail!About(now, "RAPID_TRANSACTION_SEQUENCE") = {l.about : l \in Trail!RapidSequence(second)}
    BY RapidLeads
  <2> HIDE DEF old, alerts, then, now
  <2>3. Trail!About(alerts, "RAPID_TRANSACTION_SEQUENCE") = Trail!About(then, "RAPID_TRANSACTION_SEQUENCE") \cup Trail!About(now, "RAPID_TRANSACTION_SEQUENCE")
    BY <1>5
  <2> QED
    BY <2>1, <2>2, <2>3
<1>9. \A p \in Trail!About(alerts, "RAPID_TRANSACTION_SEQUENCE") : Trail!Near(transfers, p[1], p[2])
  <2>1. \A l \in Trail!RapidSequence(first) : Trail!Near(early, l.about[1], l.about[2])
    BY <1>1, RapidPairsAreFound
  <2>2. \A l \in Trail!RapidSequence(second) : Trail!Near(transfers, l.about[1], l.about[2])
    BY <1>2, RapidPairsAreFound
  <2>3. \A i, j : Trail!Near(early, i, j) => Trail!Near(transfers, i, j)
    BY <1>2 DEF Trail!Near
  <2> HIDE DEF alerts
  <2> QED
    BY <1>8, <2>1, <2>2, <2>3
<1>10. (\E t, u \in transfers : Trail!Near(transfers, t.id, u.id)) => Trail!About(alerts, "RAPID_TRANSACTION_SEQUENCE") # {}
  <2>1. (\E t, u \in transfers : Trail!Near(transfers, t.id, u.id)) => Trail!RapidSequence(second) # {}
    BY <1>2, RapidPairsAreFound
  <2> HIDE DEF alerts
  <2> QED
    BY <1>8, <2>1
<1>11. \A a, b \in alerts : <<a.rule, a.about>> = <<b.rule, b.about>> => a = b
  <2>1. \A t, u \in Trail!ToSet(first) : t.id = u.id => t = u
    BY <1>1, <1>2, <1>4
  <2>2. \A t, u \in Trail!ToSet(second) : t.id = u.id => t = u
    BY <1>1, <1>4
  <2>3. \A a, b \in then : <<a.rule, a.about>> = <<b.rule, b.about>> => a = b
    BY <2>1, LeadsAreOne
  <2>4. \A a, b \in now : <<a.rule, a.about>> = <<b.rule, b.about>> => a = b
    BY <2>2, LeadsAreOne
  <2> HIDE DEF then, now
  <2>5. \A a, b \in old : <<a.rule, a.about>> = <<b.rule, b.about>> => a = b
    BY <2>3, RaisedOnce
  <2> HIDE DEF old
  <2> QED
    BY <2>4, <2>5, RaisedOnce
<1>12. ASSUME NEW a \in Trail!Raise(alerts, anew) \ alerts
       PROVE  a.rule = "RAPID_TRANSACTION_SEQUENCE" /\ second # again
  <2>1. a \in anew /\ \A b \in alerts : <<b.rule, b.about>> # <<a.rule, a.about>>
    <3> HIDE DEF alerts, anew
    <3> QED
      BY <1>12 DEF Trail!Raise
  <2>2. a \notin now
    <3>1. \A l \in now : \E b \in alerts : <<b.rule, b.about>> = <<l.rule, l.about>>
      BY RaisedLeads
    <3> HIDE DEF alerts, now
    <3> QED
      BY <2>1, <3>1
  <2>3. anew \ now \subseteq Trail!RapidSequence(again)
    BY <1>4 DEF Leads
  <2>4. a.rule = "RAPID_TRANSACTION_SEQUENCE"
    <3> HIDE DEF anew, now
    <3> QED
      BY <2>1, <2>2, <2>3, RulesOfLeads
  <2>5. second = again => anew = now
    OBVIOUS
  <2> HIDE DEF anew, now, alerts
  <2> QED
    BY <2>1, <2>2, <2>4, <2>5
<1> HIDE DEF old, alerts, then, now, anew
<1> QED
  BY <1>3, <1>6, <1>7, <1>9, <1>10, <1>11, <1>12

-------------------------------------------------------------------------------
\* Leads are raised once

\* Two findings of a rule about the same subject are one finding.
Single(found, rule) ==
    /\ \A f \in found : f.rule = rule
    /\ \A f, g \in found : f.about = g.about => f = g

\* No rule finds two leads about one subject: not that of contacts before an incident.
LEMMA PreIncidentSingle ==
    ASSUME NEW relations, NEW window
    PROVE  Single(Alerts!PreIncident(relations, window), "PRE_INCIDENT_COMMUNICATION")
<1> DEFINE contacts == {e \in Alerts!Contacts(relations) : e.at + Alerts!Lookback >= window.start /\ e.at < window.start}
           F(pair) == Alerts!Between(contacts, pair)
           S == {p \in Alerts!PairsOf(contacts) : Len(Alerts!Between(contacts, p)) >= 2}
           found == Alerts!PreIncident(relations, window)
<1>1. found \subseteq {Alerts!Finding("PRE_INCIDENT_COMMUNICATION", <<pair>>, F(pair)) : pair \in S}
  BY Zenon DEF Alerts!PreIncident
<1> HIDE DEF F, S, found
<1>2. ASSUME NEW f \in found, NEW g \in found
      PROVE  f.rule = "PRE_INCIDENT_COMMUNICATION" /\ (f.about = g.about => f = g)
  <2>1. PICK p \in S, q \in S : /\ f = Alerts!Finding("PRE_INCIDENT_COMMUNICATION", <<p>>, F(p))
                                /\ g = Alerts!Finding("PRE_INCIDENT_COMMUNICATION", <<q>>, F(q))
    BY <1>1, Zenon
  <2> QED
    BY <2>1 DEF Alerts!Finding
<1> QED
  BY <1>2 DEF Single, found

\* Nor that of bursts.
LEMMA BurstsSingle ==
    ASSUME NEW relations
    PROVE  Single(Alerts!Bursts(relations), "COMMUNICATION_BURST")
<1> DEFINE contacts == Alerts!Contacts(relations)
           dense(pair) == {end \in DOMAIN Alerts!Between(contacts, pair) : Len(Alerts!Span(Alerts!Between(contacts, pair), end)) >= 3}
           F(pair) == Alerts!Span(Alerts!Between(contacts, pair), Alerts!Min(dense(pair)))
           S == {p \in Alerts!PairsOf(contacts) : dense(p) # {}}
           found == Alerts!Bursts(relations)
<1>1. found = {Alerts!Finding("COMMUNICATION_BURST", <<pair>>, F(pair)) : pair \in S}
  BY Zenon DEF Alerts!Bursts
<1> HIDE DEF F, S, found
<1>2. ASSUME NEW f \in found, NEW g \in found
      PROVE  f.rule = "COMMUNICATION_BURST" /\ (f.about = g.about => f = g)
  <2>1. PICK p \in S, q \in S : /\ f = Alerts!Finding("COMMUNICATION_BURST", <<p>>, F(p))
                                /\ g = Alerts!Finding("COMMUNICATION_BURST", <<q>>, F(q))
    BY <1>1, Zenon
  <2> QED
    BY <2>1 DEF Alerts!Finding
<1> QED
  BY <1>2 DEF Single, found

\* Nor that of sightings.
LEMMA SightingsSingle ==
    ASSUME NEW records
    PROVE  Single(Alerts!RecurringSightings(records), "RECURRING_VEHICLE_AT_LOCATION")
<1> DEFINE F(about) == Alerts!ByTime(Alerts!Naming(records, about[1], about[2]))
           S == {p \in Alerts!AllOf(records, Alerts!Vehicles) \X Alerts!AllOf(records, Alerts!Places) :
                    Alerts!Cardinality(Alerts!Naming(records, p[1], p[2])) >= 3}
           found == Alerts!RecurringSightings(records)
<1>1. found = {Alerts!Finding("RECURRING_VEHICLE_AT_LOCATION", about, F(about)) : about \in S}
  BY Zenon DEF Alerts!RecurringSightings
<1> HIDE DEF F, S, found
<1>2. ASSUME NEW f \in found, NEW g \in found
      PROVE  f.rule = "RECURRING_VEHICLE_AT_LOCATION" /\ (f.about = g.about => f = g)
  <2>1. PICK p \in S, q \in S : /\ f = Alerts!Finding("RECURRING_VEHICLE_AT_LOCATION", p, F(p))
                                /\ g = Alerts!Finding("RECURRING_VEHICLE_AT_LOCATION", q, F(q))
    BY <1>1, Zenon
  <2> QED
    BY <2>1 DEF Alerts!Finding
<1> QED
  BY <1>2 DEF Single, found

\* Nor that of relays.
LEMMA RelaysSingle ==
    ASSUME NEW relations
    PROVE  Single(Alerts!Relays(relations), "RELAY_CONTACT")
<1> DEFINE order == Alerts!ByTime(Alerts!Contacts(relations))
           ends(i) == {order[i].from, order[i].to}
           legs == {l \in (1..Len(order)) \X (1..Len(order)) :
                    l[1] < l[2] /\ order[l[2]].at - order[l[1]].at <= Alerts!RelayWindow /\ ends(l[1]) # ends(l[2])}
           path(l, m) == <<Alerts!Other(order[l[1]], m), m, Alerts!Other(order[l[2]], m)>>
           paths == UNION {{path(l, m) : m \in ends(l[1]) \cap ends(l[2])} : l \in legs}
           first(p) == CHOOSE l \in legs :
            /\ p[2] \in ends(l[1]) \cap ends(l[2]) /\ path(l, p[2]) = p
            /\ \A k \in legs : p[2] \in ends(k[1]) \cap ends(k[2]) /\ path(k, p[2]) = p
                               => l[1] < k[1] \/ (l[1] = k[1] /\ l[2] <= k[2])
           F(p) == <<order[first(p)[1]], order[first(p)[2]]>>
           found == Alerts!Relays(relations)
<1>1. found = {Alerts!Finding("RELAY_CONTACT", p, F(p)) : p \in paths}
  BY Zenon DEF Alerts!Relays
<1> HIDE DEF F, paths, found
<1>2. ASSUME NEW f \in found, NEW g \in found
      PROVE  f.rule = "RELAY_CONTACT" /\ (f.about = g.about => f = g)
  <2>1. PICK p \in paths, q \in paths : /\ f = Alerts!Finding("RELAY_CONTACT", p, F(p))
                                        /\ g = Alerts!Finding("RELAY_CONTACT", q, F(q))
    BY <1>1, Zenon
  <2> QED
    BY <2>1 DEF Alerts!Finding
<1> QED
  BY <1>2 DEF Single, found

\* Nor that of convergences.
LEMMA ConvergencesSingle ==
    ASSUME NEW records
    PROVE  Single(Alerts!Convergences(records), "CONVERGING_LOCATION")
<1> DEFINE there(place) == {r \in Alerts!Timed(records) : place \in Alerts!ToSet(r.places)}
           at(place) == Alerts!ByTime(there(place))
           from(place, i) == Alerts!ByTime({r \in there(place) : ~Alerts!Earlier(r, at(place)[i])
                                                                 /\ r.at - at(place)[i].at <= Alerts!ConvergenceWindow})
           anchors(place) == {i \in DOMAIN at(place) : Alerts!Cardinality(Alerts!Named(from(place, i))) >= 3}
           A(place) == at(place)[Alerts!Min(anchors(place))].at
           F(place) == from(place, Alerts!Min(anchors(place)))
           S == {p \in Alerts!AllOf(records, Alerts!Places) : anchors(p) # {}}
           found == Alerts!Convergences(records)
<1>1. found = {Alerts!Finding("CONVERGING_LOCATION", <<place, A(place)>>, F(place)) : place \in S}
  BY Zenon DEF Alerts!Convergences
<1> HIDE DEF A, F, S, found
<1>2. ASSUME NEW f \in found, NEW g \in found
      PROVE  f.rule = "CONVERGING_LOCATION" /\ (f.about = g.about => f = g)
  <2>1. PICK p \in S, q \in S : /\ f = Alerts!Finding("CONVERGING_LOCATION", <<p, A(p)>>, F(p))
                                /\ g = Alerts!Finding("CONVERGING_LOCATION", <<q, A(q)>>, F(q))
    BY <1>1, Zenon
  <2> QED
    BY <2>1 DEF Alerts!Finding
<1> QED
  BY <1>2 DEF Single, found

\* Nor that of corridors.
LEMMA CorridorsSingle ==
    ASSUME NEW records
    PROVE  Single(Alerts!Corridors(records), "VEHICLE_CORRIDOR")
<1> DEFINE F(vehicle) == Alerts!ByTime({r \in Alerts!Timed(records) : vehicle \in Alerts!ToSet(r.vehicles) /\ r.places # <<>>})
           A(vehicle) == Len(Alerts!Route(F(vehicle)))
           S == {v \in Alerts!AllOf(records, Alerts!Vehicles) : Len(Alerts!Route(F(v))) >= 3}
           found == Alerts!Corridors(records)
<1>1. found = {Alerts!Finding("VEHICLE_CORRIDOR", <<vehicle, A(vehicle)>>, F(vehicle)) : vehicle \in S}
  BY Zenon DEF Alerts!Corridors
<1> HIDE DEF A, F, S, found
<1>2. ASSUME NEW f \in found, NEW g \in found
      PROVE  f.rule = "VEHICLE_CORRIDOR" /\ (f.about = g.about => f = g)
  <2>1. PICK p \in S, q \in S : /\ f = Alerts!Finding("VEHICLE_CORRIDOR", <<p, A(p)>>, F(p))
                                /\ g = Alerts!Finding("VEHICLE_CORRIDOR", <<q, A(q)>>, F(q))
    BY <1>1, Zenon
  <2> QED
    BY <2>1 DEF Alerts!Finding
<1> QED
  BY <1>2 DEF Single, found

\* Nor that of silences.
LEMMA SilencesSingle ==
    ASSUME NEW relations
    PROVE  Single(Alerts!Silences(relations), "SUDDEN_SILENCE")
<1> DEFINE contacts == Alerts!Contacts(relations)
           ends == Alerts!Max({e.at : e \in contacts})
           silent(rows) ==
            /\ Len(rows) >= 3
            /\ LET usual == Alerts!Median([i \in 1..(Len(rows) - 1) |-> rows[i + 1].at - rows[i].at])
               IN  usual > 0 /\ ends - Alerts!Last(rows).at >= 4 * usual
           F(pair) == Alerts!Between(contacts, pair)
           S == {p \in Alerts!PairsOf(contacts) : silent(F(p))}
           found == Alerts!Silences(relations)
<1>1. found = {Alerts!Finding("SUDDEN_SILENCE", <<pair>>, F(pair)) : pair \in S}
  BY Zenon DEF Alerts!Silences
<1> HIDE DEF F, S, found
<1>2. ASSUME NEW f \in found, NEW g \in found
      PROVE  f.rule = "SUDDEN_SILENCE" /\ (f.about = g.about => f = g)
  <2>1. PICK p \in S, q \in S : /\ f = Alerts!Finding("SUDDEN_SILENCE", <<p>>, F(p))
                                /\ g = Alerts!Finding("SUDDEN_SILENCE", <<q>>, F(q))
    BY <1>1, Zenon
  <2> QED
    BY <2>1 DEF Alerts!Finding
<1> QED
  BY <1>2 DEF Single, found

\* Nor that of shared handsets.
LEMMA DevicesSingle ==
    ASSUME NEW records
    PROVE  Single(Alerts!SharedDevices(records), "SHARED_DEVICE")
<1> DEFINE on(device) == {r \in records : r.device = device /\ Alerts!Owner(r) # Alerts!Unowned}
           F(device) == Alerts!ById(on(device))
           S == {d \in {r.device : r \in records} : Alerts!Cardinality({Alerts!Owner(r) : r \in on(d)}) >= 2}
           found == Alerts!SharedDevices(records)
<1>1. found = {Alerts!Finding("SHARED_DEVICE", <<device>>, F(device)) : device \in S}
  BY Zenon DEF Alerts!SharedDevices
<1> HIDE DEF F, S, found
<1>2. ASSUME NEW f \in found, NEW g \in found
      PROVE  f.rule = "SHARED_DEVICE" /\ (f.about = g.about => f = g)
  <2>1. PICK p \in S, q \in S : /\ f = Alerts!Finding("SHARED_DEVICE", <<p>>, F(p))
                                /\ g = Alerts!Finding("SHARED_DEVICE", <<q>>, F(q))
    BY <1>1, Zenon
  <2> QED
    BY <2>1 DEF Alerts!Finding
<1> QED
  BY <1>2 DEF Single, found

\* A lead is raised once for a rule and what it is about: evaluating again adds
\* nothing, and no two alerts have the same key.
THEOREM LeadsStandOnce ==
    ASSUME NEW relations, NEW records, NEW window
    PROVE  Alerts!LeadsAreRaisedOnce(relations, records, window)
<1> DEFINE found == Alerts!Findings(relations, records, window)
           once == {Alerts!Alert(f) : f \in found}
<1>1. \A f, g \in found : f.rule = g.rule /\ f.about = g.about => f = g
  BY PreIncidentSingle, BurstsSingle, SightingsSingle, RelaysSingle, ConvergencesSingle, CorridorsSingle,
     SilencesSingle, DevicesSingle DEF Alerts!Findings, Single
<1>2. \A f \in found : Alerts!Alert(f).key = <<f.rule, f.about>>
  BY DEF Alerts!Alert
<1> HIDE DEF found
<1>3. Alerts!Evaluated({}, relations, records, window) = once
  BY DEF Alerts!Evaluated, Alerts!Raised, found
<1>4. {g \in found : \A a \in once : a.key # <<g.rule, g.about>>} = {}
  BY <1>2
<1>5. Alerts!Evaluated(once, relations, records, window) = once
  BY <1>4 DEF Alerts!Evaluated, Alerts!Raised, found
<1>6. ASSUME NEW a \in once, NEW b \in once, a.key = b.key PROVE a = b
  <2>1. PICK f \in found, g \in found : a = Alerts!Alert(f) /\ b = Alerts!Alert(g)
    OBVIOUS
  <2> QED
    BY <1>1, <1>2, <1>6, <2>1
<1> HIDE DEF once
<1> QED
  BY <1>3, <1>5, <1>6 DEF Alerts!LeadsAreRaisedOnce

-------------------------------------------------------------------------------
\* Rows that leads rest on

\* What a list in an order lists.
LEMMA ListedRows ==
    ASSUME NEW S, NEW R, NEW o, Listed(S, R, o)
    PROVE  /\ Alerts!ToSet(o) = S
           /\ \A i \in DOMAIN o : o[i] \in S
<1>1. \A i \in DOMAIN o : o[i] \in S
  BY DEF Listed
<1>2. \A x \in S : \E i \in DOMAIN o : o[i] = x
  BY DEF Listed
<1> QED
  BY <1>1, <1>2 DEF Alerts!ToSet

\* Rows in a list, each once.
RowList(rows) ==
    /\ Len(rows) \in Nat /\ DOMAIN rows = 1..Len(rows)
    /\ \A i \in DOMAIN rows : rows[i].id \in Nat /\ rows[i].at \in Nat
    /\ \A i, j \in DOMAIN rows : rows[i].id = rows[j].id => i = j

\* So are rows listed in an order.
LEMMA ListedOnce ==
    ASSUME NEW S, NEW R, NEW o, Listed(S, R, o), Numbered(S), \A r \in S : r.at \in Nat
    PROVE  RowList(o)
<1>1. Len(o) \in Nat /\ DOMAIN o = 1..Len(o) /\ \A i \in DOMAIN o : o[i] \in S
  BY DEF Listed
<1>2. \A i, j \in DOMAIN o : o[i] = o[j] => i = j
  BY DEF Listed
<1> QED
  BY <1>1, <1>2 DEF RowList, Numbered

\* ORDER BY id.
ByNumber(rows) == {p \in rows \X rows : p[1].id < p[2].id}

\* Rows by number are the list of the rows in that order.
LEMMA RowsByNumber ==
    ASSUME NEW rows, Numbered(rows)
    PROVE  Listed(rows, ByNumber(rows), Alerts!ById(rows))
<1> DEFINE R == ByNumber(rows)
<1>1. Total(rows, R)
  BY DEF Total, Numbered, ByNumber
<1>2. \A x \in rows : {y \in rows : <<y, x>> \in R} = {y \in rows : y.id < x.id}
  BY DEF ByNumber
<1>3. Alerts!ById(rows) = Ranked(rows, R)
  <2> DEFINE rank == [x \in rows |-> Alerts!Cardinality({y \in rows : y.id < x.id})]
  <2>1. rank = Ranks(rows, R)
    BY <1>2, SameCount DEF Ranks
  <2>2. Alerts!ById(rows) = [i \in 1..Alerts!Cardinality(rows) |-> CHOOSE x \in rows : rank[x] = i - 1]
    BY Zenon DEF Alerts!ById, Alerts!InOrder
  <2>3. Alerts!Cardinality(rows) = Cardinality(rows)
    BY SameCount
  <2> HIDE DEF rank, R
  <2> QED
    BY <2>1, <2>2, <2>3, Zenon DEF Ranked
<1>4. IsFiniteSet(rows)
  BY DEF Numbered
<1> QED
  BY <1>1, <1>3, <1>4, RankedList, Zenon

\* Two members of a finite set.
LEMMA TwoOrMore ==
    ASSUME NEW S, IsFiniteSet(S)
    PROVE  Cardinality(S) >= 2 <=> \E x, y \in S : x # y
<1>1. CASE S = {}
  <2>1. Cardinality(S) = 0
    BY <1>1, FS_EmptySet
  <2> QED
    BY <1>1, <2>1
<1>2. CASE S # {}
  <2>1. PICK u \in S : TRUE
    BY <1>2
  <2>2. Cardinality(S) >= 2 <=> \E w \in S : w # u
    BY TwoMembers
  <2> QED
    BY <2>2
<1> QED
  BY <1>1, <1>2

\* Some of the rows of a table are rows with numbers of their own.
LEMMA SomeRows ==
    ASSUME NEW rows, Numbered(rows), NEW T, T \subseteq rows
    PROVE  Numbered(T) /\ IsFiniteSet(T)
<1>1. IsFiniteSet(rows)
  BY DEF Numbered
<1>2. IsFiniteSet(T)
  BY <1>1, FS_Subset
<1> QED
  BY <1>2 DEF Numbered

\* A finite set of numbers that is not empty has a greatest one.
LEMMA GreatestNumber ==
    ASSUME NEW T, T \subseteq Nat, T # {}, IsFiniteSet(T)
    PROVE  \E x \in T : \A y \in T : x >= y
<1> DEFINE R == {p \in T \X T : p[1] < p[2]}
           o == Ranked(T, R)
           n == Cardinality(T)
<1>1. Total(T, R)
  BY DEF Total
<1>2. \A x, y \in T : <<x, y>> \in R <=> x < y
  OBVIOUS
<1> HIDE DEF R
<1>3. Listed(T, R, o)
  BY <1>1, RankedList
<1> HIDE DEF o
<1>4. n \in Nat /\ n # 0 /\ DOMAIN o = 1..n
  BY <1>3, FS_EmptySet DEF Listed
<1> HIDE DEF n
<1>5. n \in 1..n /\ \A i \in 1..n : i = n \/ i < n
  BY <1>4
<1>6. o[n] \in T
  BY <1>3, <1>4, <1>5, ListedRows
<1>7. ASSUME NEW y \in T PROVE o[n] >= y
  <2>1. PICK i \in 1..n : o[i] = y
    BY <1>3, <1>4 DEF Listed
  <2>2. CASE i = n
    BY <1>6, <2>1, <2>2
  <2>3. CASE i < n
    <3>1. <<o[i], o[n]>> \in R
      BY <1>3, <1>4, <1>5, <2>3 DEF Listed
    <3>2. y < o[n]
      BY <1>2, <1>6, <2>1, <3>1
    <3>3. \A a, b \in Nat : a < b => b >= a
      OBVIOUS
    <3>4. y \in Nat /\ o[n] \in Nat
      BY <1>6
    <3> QED
      BY <3>2, <3>3, <3>4
  <2> QED
    BY <1>5, <2>2, <2>3
<1> QED
  BY <1>6, <1>7

\* What a function makes of a finite set is finite.
LEMMA FiniteRange ==
    ASSUME NEW T, IsFiniteSet(T), NEW g, g = [x \in T |-> g[x]]
    PROVE  IsFiniteSet({g[x] : x \in T}) /\ Cardinality({g[x] : x \in T}) <= Cardinality(T)
<1>1. g \in Surjection(T, {g[x] : x \in T})
  BY DEF Surjection
<1> QED
  BY <1>1, FS_Surjection

\* A handset is shared only when two records say so.
LEMMA DevicesAreShared ==
    ASSUME NEW records, AreRecords(records), NEW f \in Alerts!SharedDevices(records)
    PROVE  Alerts!Cardinality({r.id : r \in Alerts!ToSet(f.rows)}) >= 2 /\ RowList(f.rows)
<1> DEFINE on(device) == {r \in records : r.device = device /\ Alerts!Owner(r) # Alerts!Unowned}
           S == {d \in {r.device : r \in records} : Alerts!Cardinality({Alerts!Owner(r) : r \in on(d)}) >= 2}
<1>1. Alerts!SharedDevices(records) = {Alerts!Finding("SHARED_DEVICE", <<device>>, Alerts!ById(on(device))) : device \in S}
  BY Zenon DEF Alerts!SharedDevices
<1>2. PICK d \in S : f = Alerts!Finding("SHARED_DEVICE", <<d>>, Alerts!ById(on(d)))
  <2> HIDE DEF S, on
  <2> QED
    BY <1>1, Zenon
<1> DEFINE T == on(d)
<1>3. T \subseteq records
  OBVIOUS
<1>4. Cardinality({Alerts!Owner(r) : r \in T}) >= 2
  <2>1. Alerts!Cardinality({Alerts!Owner(r) : r \in T}) >= 2
    OBVIOUS
  <2> HIDE DEF T
  <2> QED
    BY <2>1, SameCount
<1>5. f.rows = Alerts!ById(T)
  BY <1>2 DEF Alerts!Finding
<1> HIDE DEF T, S
<1>6. Numbered(T) /\ IsFiniteSet(T)
  BY <1>3, SomeRows DEF AreRecords
<1>7. Alerts!ToSet(f.rows) = T /\ RowList(f.rows)
  <2>1. Listed(T, ByNumber(T), Alerts!ById(T))
    BY <1>6, RowsByNumber
  <2>2. \A r \in T : r.at \in Nat
    BY <1>3 DEF AreRecords
  <2> QED
    BY <1>5, <1>6, <2>1, <2>2, ListedRows, ListedOnce
<1>8. \E r, s \in T : Alerts!Owner(r) # Alerts!Owner(s)
  <2> DEFINE O == {Alerts!Owner(r) : r \in T}
  <2>1. IsFiniteSet(O)
    <3> DEFINE g == [r \in T |-> Alerts!Owner(r)]
    <3>1. g = [r \in T |-> g[r]] /\ O = {g[r] : r \in T}
      OBVIOUS
    <3> HIDE DEF g, O
    <3> QED
      BY <1>6, <3>1, FiniteRange
  <2>2. \A x \in O : \E r \in T : x = Alerts!Owner(r)
    OBVIOUS
  <2> HIDE DEF O
  <2>3. PICK x \in O, y \in O : x # y
    BY <1>4, <2>1, TwoOrMore DEF O
  <2> QED
    BY <2>2, <2>3
<1>9. \E r, s \in T : r.id # s.id
  <2>1. PICK r \in T, s \in T : Alerts!Owner(r) # Alerts!Owner(s)
    BY <1>8
  <2>2. r # s
    BY <2>1
  <2> QED
    BY <1>6, <2>2 DEF Numbered
<1>10. Cardinality({r.id : r \in T}) >= 2
  <2> DEFINE g == [r \in T |-> r.id]
             O == {r.id : r \in T}
  <2>1. g = [r \in T |-> g[r]] /\ O = {g[r] : r \in T}
    OBVIOUS
  <2>2. \E x, y \in O : x # y
    BY <1>9
  <2> HIDE DEF g, O
  <2>3. IsFiniteSet(O)
    BY <1>6, <2>1, FiniteRange
  <2> QED
    BY <2>2, <2>3, TwoOrMore DEF O
<1> QED
  BY <1>7, <1>10, SameCount

\* What converges on a place lies within six hours.
LEMMA ConvergesInTime ==
    ASSUME NEW records, AreRecords(records), NEW f \in Alerts!Convergences(records)
    PROVE  Alerts!Close(Alerts!ToSet(f.rows), Alerts!ConvergenceWindow) /\ RowList(f.rows)
<1> DEFINE there(place) == {r \in Alerts!Timed(records) : place \in Alerts!ToSet(r.places)}
           at(place) == Alerts!ByTime(there(place))
           within(place, i) == {r \in there(place) : ~Alerts!Earlier(r, at(place)[i])
                                                       /\ r.at - at(place)[i].at <= Alerts!ConvergenceWindow}
           anchors(place) == {i \in DOMAIN at(place) : Alerts!Cardinality(Alerts!Named(Alerts!ByTime(within(place, i)))) >= 3}
           A(place) == at(place)[Alerts!Min(anchors(place))].at
           F(place) == Alerts!ByTime(within(place, Alerts!Min(anchors(place))))
           S == {p \in Alerts!AllOf(records, Alerts!Places) : anchors(p) # {}}
<1>1. Alerts!Convergences(records) = {Alerts!Finding("CONVERGING_LOCATION", <<place, A(place)>>, F(place)) : place \in S}
  BY Zenon DEF Alerts!Convergences
<1>2. PICK p \in S : f = Alerts!Finding("CONVERGING_LOCATION", <<p, A(p)>>, F(p))
  <2> HIDE DEF S, A, F
  <2> QED
    BY <1>1, Zenon
<1>3. f.rows = F(p)
  BY <1>2 DEF Alerts!Finding
<1> DEFINE T == there(p)
           o == at(p)
           N == anchors(p)
           k == Alerts!Min(N)
           W == within(p, k)
<1>4. N # {} /\ N \subseteq DOMAIN o
  OBVIOUS
<1>5. T \subseteq records
  BY DEF Alerts!Timed
<1>6. Numbered(T) /\ \A r \in T : r.at \in Nat /\ r.id \in Nat
  <2> HIDE DEF T
  <2> QED
    BY <1>5, SomeRows DEF AreRecords, Numbered
<1>7. Listed(T, InTime(T), o)
  <2>1. o = Alerts!ByTime(T)
    OBVIOUS
  <2> HIDE DEF T, o
  <2> QED
    BY <1>6, <2>1, RowsInTime
<1>8. k \in DOMAIN o
  <2>1. DOMAIN o \subseteq Nat
    BY <1>7 DEF Listed
  <2> HIDE DEF N, o, T, S
  <2>2. PICK x \in N : \A y \in N : x <= y
    BY <1>4, <2>1, LeastNumber
  <2>3. Alerts!Min(N) \in N
    BY <2>2 DEF Alerts!Min
  <2> QED
    BY <1>4, <2>3
<1>9. o[k] \in T
  <2> HIDE DEF o, T, k
  <2> QED
    BY <1>7, <1>8, ListedRows
<1>10. W \subseteq T /\ \A r \in W : ~Alerts!Earlier(r, o[k]) /\ r.at - o[k].at <= Alerts!ConvergenceWindow
  OBVIOUS
<1>11. f.rows = Alerts!ByTime(W)
  BY <1>3
<1> HIDE DEF T, o, N, k, W
<1>12. Alerts!ToSet(f.rows) = W /\ RowList(f.rows)
  <2>1. Numbered(W)
    BY <1>6, <1>10, SomeRows
  <2>2. Listed(W, InTime(W), Alerts!ByTime(W))
    BY <1>6, <1>10, <2>1, RowsInTime
  <2> QED
    BY <1>6, <1>10, <1>11, <2>1, <2>2, ListedRows, ListedOnce
<1>13. o[k].at \in Nat /\ \A r \in W : r.at \in Nat /\ o[k].at <= r.at /\ r.at <= o[k].at + Alerts!ConvergenceWindow
  BY <1>6, <1>9, <1>10 DEF Alerts!Earlier, Alerts!ConvergenceWindow, Alerts!Hour
<1> QED
  BY <1>12, <1>13 DEF Alerts!Close, Alerts!ConvergenceWindow, Alerts!Hour

-------------------------------------------------------------------------------
\* Handsets, meetings and routes

\* The stops a vehicle's records name, and which of them is first.
Stops(rows) == UNION {{i} \X DOMAIN rows[i].places : i \in DOMAIN rows}
PlaceOf(rows, p) == rows[p[1]].places[p[2]]
StopBefore(p, q) == p[1] < q[1] \/ (p[1] = q[1] /\ p[2] < q[2])
FirstStops(rows) == {p \in Stops(rows) : \A q \in Stops(rows) : StopBefore(q, p) => PlaceOf(rows, q) # PlaceOf(rows, p)}
InPassing(S) == {p \in S \X S : StopBefore(p[1], p[2])}

\* The stops of a route are finitely many places of its rows.
LEMMA StopsAreFinite ==
    ASSUME NEW n \in Nat, NEW rows, DOMAIN rows = 1..n, \A i \in 1..n : rows[i].places \in Seq(STRING)
    PROVE  /\ IsFiniteSet(Stops(rows))
           /\ \A p \in Stops(rows) : p[1] \in 1..n /\ p[2] \in DOMAIN rows[p[1]].places /\ p[1] \in Nat /\ p[2] \in Nat
                                     /\ p = <<p[1], p[2]>>
           /\ \A i \in 1..n : \A k \in DOMAIN rows[i].places : <<i, k>> \in Stops(rows)
<1> DEFINE of == [i \in 1..n |-> {i} \X DOMAIN rows[i].places]
           parts == {of[i] : i \in 1..n}
<1>1. IsFiniteSet(1..n)
  BY FS_Interval
<1>2. IsFiniteSet(parts)
  <2>1. of = [i \in 1..n |-> of[i]]
    OBVIOUS
  <2> HIDE DEF of
  <2> QED
    BY <1>1, <2>1, FiniteRange
<1>3. \A i \in 1..n : IsFiniteSet({i} \X DOMAIN rows[i].places)
  <2> SUFFICES ASSUME NEW i \in 1..n PROVE IsFiniteSet({i} \X DOMAIN rows[i].places)
    OBVIOUS
  <2> DEFINE m == Len(rows[i].places)
             D == DOMAIN rows[i].places
  <2>1. m \in Nat /\ D = 1..m
    OBVIOUS
  <2> HIDE DEF D, m
  <2>2. IsFiniteSet(D)
    BY <2>1, FS_Interval
  <2>3. IsFiniteSet({i})
    BY FS_Singleton
  <2> QED
    BY <2>2, <2>3, FS_Product DEF D
<1>4. \A T \in parts : IsFiniteSet(T)
  BY <1>3
<1>5. Stops(rows) = UNION parts
  BY DEF Stops
<1> HIDE DEF parts
<1>6. IsFiniteSet(Stops(rows))
  BY <1>2, <1>4, <1>5, FS_UNION
<1>7. ASSUME NEW p \in Stops(rows)
      PROVE  p[1] \in 1..n /\ p[2] \in DOMAIN rows[p[1]].places /\ p[1] \in Nat /\ p[2] \in Nat /\ p = <<p[1], p[2]>>
  <2>1. PICK i \in 1..n : p \in {i} \X DOMAIN rows[i].places
    BY DEF Stops
  <2>2. p[1] = i /\ p[2] \in DOMAIN rows[i].places /\ p = <<p[1], p[2]>>
    BY <2>1
  <2>3. DOMAIN rows[i].places \subseteq Nat
    OBVIOUS
  <2> QED
    BY <2>2, <2>3
<1>8. \A i \in 1..n : \A k \in DOMAIN rows[i].places : <<i, k>> \in Stops(rows)
  BY DEF Stops
<1> QED
  BY <1>6, <1>7, <1>8

\* A route names the places in the order of their first stops.
LEMMA RouteInOrder ==
    ASSUME NEW n \in Nat, NEW rows, DOMAIN rows = 1..n, \A i \in 1..n : rows[i].places \in Seq(STRING)
    PROVE  \E o : /\ Listed(FirstStops(rows), InPassing(FirstStops(rows)), o)
                  /\ Alerts!Route(rows) = [i \in DOMAIN o |-> PlaceOf(rows, o[i])]
<1> DEFINE S == FirstStops(rows)
           R == InPassing(S)
           stops == UNION {{i} \X DOMAIN rows[i].places : i \in DOMAIN rows}
           place(p) == rows[p[1]].places[p[2]]
           before(p, q) == p[1] < q[1] \/ (p[1] = q[1] /\ p[2] < q[2])
           firsts == {p \in stops : \A q \in stops : before(q, p) => place(q) # place(p)}
           rank == [x \in firsts |-> Alerts!Cardinality({y \in firsts : before(y, x)})]
           o == [i \in 1..Alerts!Cardinality(firsts) |-> CHOOSE x \in firsts : rank[x] = i - 1]
<1>1. Alerts!Route(rows) = [i \in DOMAIN o |-> place(o[i])]
  BY Zenon DEF Alerts!Route, Alerts!InOrder
<1>2. firsts = S
  BY Zenon DEF FirstStops, Stops, PlaceOf, StopBefore
<1>3. \A p : place(p) = PlaceOf(rows, p)
  BY DEF PlaceOf
<1>4. S \subseteq Stops(rows)
  BY DEF FirstStops
<1>5. /\ IsFiniteSet(Stops(rows))
      /\ \A p \in Stops(rows) : p[1] \in Nat /\ p[2] \in Nat /\ p = <<p[1], p[2]>>
  BY StopsAreFinite
<1>6. IsFiniteSet(S)
  BY <1>4, <1>5, FS_Subset
<1>7. Total(S, R)
  <2>0. \A p \in S : p[1] \in Nat /\ p[2] \in Nat /\ p = <<p[1], p[2]>>
    BY <1>4, <1>5
  <2> HIDE DEF S
  <2>1. \A p, q \in S : <<p, q>> \in R <=> StopBefore(p, q)
    BY DEF InPassing
  <2>2. \A x \in S : ~StopBefore(x, x)
    BY <2>0 DEF StopBefore
  <2>3. \A x, y, z \in S : StopBefore(x, y) /\ StopBefore(y, z) => StopBefore(x, z)
    BY <2>0 DEF StopBefore
  <2>4. \A x, y \in S : x # y => StopBefore(x, y) \/ StopBefore(y, x)
    <3> SUFFICES ASSUME NEW x \in S, NEW y \in S, ~StopBefore(x, y), ~StopBefore(y, x) PROVE x = y
      OBVIOUS
    <3>1. x[1] = y[1] /\ x[2] = y[2]
      BY <2>0 DEF StopBefore
    <3>2. x = <<x[1], x[2]>> /\ y = <<y[1], y[2]>>
      BY <2>0
    <3> QED
      BY <3>1, <3>2
  <2> HIDE DEF R
  <2> QED
    BY <2>1, <2>2, <2>3, <2>4 DEF Total
<1>8. o = Ranked(S, R)
  <2>1. \A x \in S : {y \in S : <<y, x>> \in R} = {y \in firsts : before(y, x)}
    BY <1>2 DEF InPassing, StopBefore
  <2> HIDE DEF S, R, firsts
  <2>2. rank = Ranks(S, R)
    BY <1>2, <2>1, SameCount DEF Ranks
  <2>3. Alerts!Cardinality(firsts) = Cardinality(S)
    BY <1>2, SameCount
  <2> HIDE DEF rank
  <2> DEFINE PlacedBy(T, ranks) == [i \in 1..Cardinality(S) |-> CHOOSE x \in T : ranks[x] = i - 1]
  <2>4. o = PlacedBy(firsts, rank)
    BY <2>3, Zenon
  <2>5. Ranked(S, R) = PlacedBy(S, Ranks(S, R))
    BY Zenon DEF Ranked
  <2> HIDE DEF PlacedBy, o
  <2> QED
    BY <1>2, <2>2, <2>4, <2>5
<1> HIDE DEF o, S, R
<1>9. Listed(S, R, o)
  BY <1>6, <1>7, <1>8, RankedList
<1>10. Alerts!Route(rows) = [i \in DOMAIN o |-> PlaceOf(rows, o[i])]
  BY <1>1, <1>3, Zenon
<1> QED
  BY <1>9, <1>10 DEF S, R

\* A route is told in the order its places are first timed.
LEMMA RoutesAreInTime ==
    ASSUME NEW n \in Nat, NEW rows, DOMAIN rows = 1..n, \A i \in 1..n : rows[i].places \in Seq(STRING) /\ rows[i].at \in Nat,
           \A i, j \in 1..n : i < j => rows[i].at <= rows[j].at,
           NEW i \in DOMAIN Alerts!Route(rows), NEW j \in DOMAIN Alerts!Route(rows), i < j
    PROVE  \E r \in Alerts!ToSet(rows) :
               /\ Alerts!Route(rows)[i] \in Alerts!ToSet(r.places)
               /\ \A s \in Alerts!ToSet(rows) : Alerts!Route(rows)[j] \in Alerts!ToSet(s.places) => r.at <= s.at
<1> DEFINE S == FirstStops(rows)
<1>1. PICK o : Listed(S, InPassing(S), o) /\ Alerts!Route(rows) = [k \in DOMAIN o |-> PlaceOf(rows, o[k])]
  BY RouteInOrder
<1> DEFINE p == o[i]
           q == o[j]
<1>2. i \in DOMAIN o /\ j \in DOMAIN o /\ Alerts!Route(rows)[i] = PlaceOf(rows, p) /\ Alerts!Route(rows)[j] = PlaceOf(rows, q)
  BY <1>1
<1>3. p \in S /\ q \in S /\ <<p, q>> \in InPassing(S)
  <2> HIDE DEF S
  <2>1. \A k \in DOMAIN o : o[k] \in S
    BY <1>1, ListedRows
  <2> QED
    BY <1>1, <1>2, <2>1 DEF Listed
<1>4. p[1] \in 1..n /\ p[2] \in DOMAIN rows[p[1]].places /\ p[1] \in Nat /\ q[1] \in 1..n /\ q[2] \in Nat /\ q[1] \in Nat
  <2>1. p \in Stops(rows) /\ q \in Stops(rows)
    BY <1>3 DEF FirstStops
  <2> HIDE DEF p, q
  <2> QED
    BY <2>1, StopsAreFinite
<1>5. p[1] <= q[1]
  <2>1. StopBefore(p, q)
    BY <1>3 DEF InPassing
  <2> HIDE DEF p, q
  <2> QED
    BY <1>4, <2>1 DEF StopBefore
<1>6. \A t \in Stops(rows) : StopBefore(t, q) => PlaceOf(rows, t) # PlaceOf(rows, q)
  BY <1>3 DEF FirstStops
<1> HIDE DEF p, q, S
<1>7. rows[p[1]] \in Alerts!ToSet(rows) /\ PlaceOf(rows, p) \in Alerts!ToSet(rows[p[1]].places)
  BY <1>4 DEF Alerts!ToSet, PlaceOf
<1>8. ASSUME NEW s \in Alerts!ToSet(rows), PlaceOf(rows, q) \in Alerts!ToSet(s.places)
      PROVE  rows[p[1]].at <= s.at
  <2>1. PICK k \in 1..n : s = rows[k]
    BY DEF Alerts!ToSet
  <2>2. PICK l \in DOMAIN rows[k].places : PlaceOf(rows, q) = rows[k].places[l]
    BY <1>8, <2>1 DEF Alerts!ToSet
  <2> DEFINE t == <<k, l>>
  <2>3. t \in Stops(rows)
    BY <2>1, <2>2, StopsAreFinite
  <2>4. PlaceOf(rows, t) = PlaceOf(rows, q)
    BY <2>2 DEF PlaceOf
  <2>5. ~StopBefore(t, q)
    BY <1>6, <2>3, <2>4
  <2>6. t[1] = k
    OBVIOUS
  <2> HIDE DEF t
  <2>7. q[1] <= k
    BY <1>4, <2>5, <2>6 DEF StopBefore
  <2>8. p[1] <= k
    BY <1>4, <1>5, <2>7
  <2>9. rows[p[1]].at \in Nat
    BY <1>4
  <2> QED
    BY <1>4, <2>1, <2>8, <2>9, SMTT(30)
<1> QED
  BY <1>2, <1>7, <1>8

\* Leads that the records raise are there in the records.
THEOREM RecordLeadsAreThere ==
    ASSUME NEW records, AreRecords(records)
    PROVE  Alerts!RecordLeadsAreTrue(records)
<1>1. \A f \in Alerts!SharedDevices(records) : Alerts!Cardinality({r.id : r \in Alerts!ToSet(f.rows)}) >= 2
  BY DevicesAreShared
<1>2. \A f \in Alerts!Convergences(records) : Alerts!Close(Alerts!ToSet(f.rows), Alerts!ConvergenceWindow)
  BY ConvergesInTime
<1>3. ASSUME NEW f \in Alerts!Corridors(records), NEW i \in DOMAIN Alerts!Route(f.rows), NEW j \in DOMAIN Alerts!Route(f.rows), i < j
      PROVE  \E r \in Alerts!ToSet(f.rows) :
               /\ Alerts!Route(f.rows)[i] \in Alerts!ToSet(r.places)
               /\ \A s \in Alerts!ToSet(f.rows) : Alerts!Route(f.rows)[j] \in Alerts!ToSet(s.places) => r.at <= s.at
  <2> DEFINE of(vehicle) == {r \in Alerts!Timed(records) : vehicle \in Alerts!ToSet(r.vehicles) /\ r.places # <<>>}
             F(vehicle) == Alerts!ByTime(of(vehicle))
             A(vehicle) == Len(Alerts!Route(F(vehicle)))
             S == {v \in Alerts!AllOf(records, Alerts!Vehicles) : Len(Alerts!Route(F(v))) >= 3}
  <2>1. Alerts!Corridors(records) = {Alerts!Finding("VEHICLE_CORRIDOR", <<vehicle, A(vehicle)>>, F(vehicle)) : vehicle \in S}
    BY Zenon DEF Alerts!Corridors
  <2>2. PICK v \in S : f = Alerts!Finding("VEHICLE_CORRIDOR", <<v, A(v)>>, F(v))
    <3> HIDE DEF A, F, S
    <3> QED
      BY <1>3, <2>1, Zenon
  <2> DEFINE T == of(v)
  <2>3. f.rows = Alerts!ByTime(T)
    BY <2>2 DEF Alerts!Finding
  <2>4. T \subseteq records
    BY DEF Alerts!Timed
  <2> DEFINE rows == f.rows
             n == Cardinality(T)
  <2> HIDE DEF T
  <2>5. Numbered(T) /\ \A r \in T : r.at \in Nat /\ r.places \in Seq(STRING) /\ r.id \in Nat
    BY <2>4, SomeRows DEF AreRecords, Numbered
  <2>6. Listed(T, InTime(T), rows)
    BY <2>3, <2>5, RowsInTime
  <2> HIDE DEF rows
  <2>7. n \in Nat /\ DOMAIN rows = 1..n /\ \A k \in 1..n : rows[k] \in T
    BY <2>6 DEF Listed
  <2>8. \A k, l \in 1..n : k < l => rows[k].at <= rows[l].at
    <3> SUFFICES ASSUME NEW k \in 1..n, NEW l \in 1..n, k < l PROVE rows[k].at <= rows[l].at
      OBVIOUS
    <3>1. <<rows[k], rows[l]>> \in InTime(T)
      BY <2>6, <2>7 DEF Listed
    <3>2. rows[k] \in T /\ rows[l] \in T
      BY <2>7
    <3>3. rows[k].at \in Nat /\ rows[l].at \in Nat
      BY <2>5, <3>2
    <3> QED
      BY <3>1, <3>3 DEF InTime, Alerts!Earlier
  <2> HIDE DEF n
  <2>9. \A k \in 1..n : rows[k].places \in Seq(STRING) /\ rows[k].at \in Nat
    BY <2>5, <2>7
  <2>10. i \in DOMAIN Alerts!Route(rows) /\ j \in DOMAIN Alerts!Route(rows) /\ i < j
    BY <1>3 DEF rows
  <2>11. \E r \in Alerts!ToSet(rows) :
               /\ Alerts!Route(rows)[i] \in Alerts!ToSet(r.places)
               /\ \A s \in Alerts!ToSet(rows) : Alerts!Route(rows)[j] \in Alerts!ToSet(s.places) => r.at <= s.at
    BY <2>7, <2>8, <2>9, <2>10, RoutesAreInTime
  <2> QED
    BY <2>11 DEF rows
<1> QED
  BY <1>1, <1>2, <1>3 DEF Alerts!RecordLeadsAreTrue

-------------------------------------------------------------------------------
\* Rows within a window

\* Rows in the order of their times.
Sorted(T, o) ==
    /\ o \in Seq(T) /\ Len(o) = Cardinality(T) /\ DOMAIN o = 1..Cardinality(T) /\ Cardinality(T) \in Nat
    /\ \A i \in DOMAIN o : o[i] \in T
    /\ \A i, j \in DOMAIN o : i < j <=> Alerts!Earlier(o[i], o[j])
    /\ \A i, j \in DOMAIN o : o[i] = o[j] => i = j
    /\ \A x \in T : \E i \in DOMAIN o : o[i] = x
    /\ \A i, j \in DOMAIN o : i <= j => o[i].at <= o[j].at
    /\ Alerts!ToSet(o) = T

\* Rows by time and number are sorted.
LEMMA RowsAreSorted ==
    ASSUME NEW T, Numbered(T), \A r \in T : r.at \in Nat
    PROVE  Sorted(T, Alerts!ByTime(T))
<1> DEFINE o == Alerts!ByTime(T)
<1>1. Listed(T, InTime(T), o)
  BY RowsInTime
<1> HIDE DEF o
<1>2. /\ o \in Seq(T) /\ Len(o) = Cardinality(T) /\ DOMAIN o = 1..Cardinality(T) /\ Cardinality(T) \in Nat
      /\ \A i, j \in DOMAIN o : i < j <=> <<o[i], o[j]>> \in InTime(T)
      /\ \A i, j \in DOMAIN o : o[i] = o[j] => i = j
      /\ \A x \in T : \E i \in DOMAIN o : o[i] = x
  BY <1>1 DEF Listed
<1>3. Alerts!ToSet(o) = T /\ \A i \in DOMAIN o : o[i] \in T
  BY <1>1, ListedRows
<1>4. \A i, j \in DOMAIN o : i < j <=> Alerts!Earlier(o[i], o[j])
  BY <1>2, <1>3 DEF InTime
<1>5. ASSUME NEW i \in DOMAIN o, NEW j \in DOMAIN o, i <= j PROVE o[i].at <= o[j].at
  <2>1. o[i].at \in Nat /\ o[j].at \in Nat
    BY <1>3
  <2>2. CASE i = j
    BY <2>1, <2>2
  <2>3. CASE i < j
    BY <1>4, <2>1, <2>3 DEF Alerts!Earlier
  <2> QED
    BY <1>2, <1>5, <2>2, <2>3
<1> QED
  BY <1>2, <1>3, <1>4, <1>5 DEF Sorted, o

\* Sorted rows are listed once, and so are those of a stretch of them.
LEMMA SortedOnce ==
    ASSUME NEW T, NEW o, Sorted(T, o), Numbered(T), \A r \in T : r.at \in Nat
    PROVE  RowList(o) /\ \A i, j \in DOMAIN o : i <= j => RowList(SubSeq(o, i, j))
<1>1. /\ Len(o) \in Nat /\ DOMAIN o = 1..Len(o) /\ o \in Seq(T) /\ \A i \in DOMAIN o : o[i] \in T
      /\ \A i, j \in DOMAIN o : o[i] = o[j] => i = j
  BY DEF Sorted
<1>2. RowList(o)
  BY <1>1 DEF RowList, Numbered
<1>3. ASSUME NEW i \in DOMAIN o, NEW j \in DOMAIN o, i <= j PROVE RowList(SubSeq(o, i, j))
  <2>1. PICK p : p = SubSeq(o, i, j)
    OBVIOUS
  <2>2. /\ Len(p) = j - i + 1 /\ DOMAIN p = 1..(j - i + 1) /\ j - i + 1 \in Nat
        /\ \A k \in 1..(j - i + 1) : p[k] = o[i + k - 1]
    BY <1>1, <1>3, <2>1
  <2>3. \A k \in 1..(j - i + 1) : i + k - 1 \in DOMAIN o
    BY <1>1, <1>3
  <2>4. \A k, l \in 1..(j - i + 1) : i + k - 1 = i + l - 1 => k = l
    BY <1>1
  <2> HIDE DEF RowList
  <2>5. \A k \in DOMAIN o : o[k].id \in Nat /\ o[k].at \in Nat
    BY <1>2 DEF RowList
  <2>6. \A k, l \in DOMAIN o : o[k].id = o[l].id => k = l
    BY <1>2 DEF RowList
  <2>7. \A k \in DOMAIN p : p[k].id \in Nat /\ p[k].at \in Nat
    BY <2>2, <2>3, <2>5
  <2>8. \A k, l \in DOMAIN p : p[k].id = p[l].id => k = l
    BY <2>2, <2>3, <2>4, <2>6
  <2>9. Len(p) \in Nat /\ DOMAIN p = 1..Len(p)
    BY <2>2
  <2> QED
    BY <2>1, <2>7, <2>8, <2>9 DEF RowList
<1> QED
  BY <1>2, <1>3

\* A set of three has three members that differ.
LEMMA ThreeMembers ==
    ASSUME NEW S, IsFiniteSet(S), Cardinality(S) = 3
    PROVE  \E a, b, c \in S : a # b /\ a # c /\ b # c
<1>1. S # {}
  BY FS_EmptySet
<1>2. PICK a \in S : TRUE
  BY <1>1
<1>3. IsFiniteSet(S \ {a}) /\ Cardinality(S \ {a}) >= 2
  <2>1. Cardinality(S \ {a}) = Cardinality(S) - 1 /\ IsFiniteSet(S \ {a})
    BY FS_RemoveElement
  <2> QED
    BY <2>1
<1>4. PICK b \in S \ {a}, c \in S \ {a} : b # c
  BY <1>3, TwoOrMore
<1> QED
  BY <1>4

\* Three that differ make a set of three; two make one of at most two.
LEMMA OfThree ==
    ASSUME NEW a, NEW b, NEW c
    PROVE  /\ IsFiniteSet({a, b, c})
           /\ a # b /\ a # c /\ b # c => Cardinality({a, b, c}) = 3
           /\ IsFiniteSet({a, b}) /\ Cardinality({a, b}) <= 2
<1>1. IsFiniteSet({a}) /\ Cardinality({a}) = 1
  BY FS_Singleton
<1>2. /\ IsFiniteSet({a} \cup {b})
      /\ Cardinality({a} \cup {b}) = IF b \in {a} THEN Cardinality({a}) ELSE Cardinality({a}) + 1
  BY <1>1, FS_AddElement
<1>3. {a} \cup {b} = {a, b} /\ {a, b} \cup {c} = {a, b, c}
  OBVIOUS
<1>4. IsFiniteSet({a, b}) /\ Cardinality({a, b}) = IF a = b THEN 1 ELSE 2
  BY <1>1, <1>2, <1>3
<1>5. /\ IsFiniteSet({a, b} \cup {c})
      /\ Cardinality({a, b} \cup {c}) = IF c \in {a, b} THEN Cardinality({a, b}) ELSE Cardinality({a, b}) + 1
  BY <1>4, FS_AddElement
<1>6. a # b /\ a # c /\ b # c => Cardinality({a, b, c}) = 3
  BY <1>3, <1>4, <1>5
<1> QED
  BY <1>3, <1>4, <1>5, <1>6

\* The rows of a span, and when it holds three.
LEMMA SpanOfRows ==
    ASSUME NEW T, NEW o, Sorted(T, o), \A r \in T : r.at \in Nat, NEW end \in DOMAIN o
    PROVE  \E m \in 1..end :
               /\ Alerts!Span(o, end) = SubSeq(o, m, end) /\ Len(Alerts!Span(o, end)) = end - m + 1
               /\ o[end].at - o[m].at <= Alerts!BurstWindow
               /\ \A s \in 1..end : o[end].at - o[s].at <= Alerts!BurstWindow => m <= s
               /\ Alerts!ToSet(Alerts!Span(o, end)) \subseteq T
<1> DEFINE n == Cardinality(T)
           N == {s \in 1..end : o[end].at - o[s].at <= Alerts!BurstWindow}
           m == Alerts!Min(N)
<1>1. n \in Nat /\ DOMAIN o = 1..n /\ Len(o) = n /\ o \in Seq(T) /\ end \in 1..n /\ \A i \in 1..n : o[i] \in T /\ o[i].at \in Nat
  BY DEF Sorted
<1>2. end \in N
  BY <1>1 DEF Alerts!BurstWindow, Alerts!Hour
<1>3. N \subseteq Nat /\ N \subseteq 1..end
  BY <1>1
<1>4. Alerts!Span(o, end) = SubSeq(o, m, end)
  BY Zenon DEF Alerts!Span
<1>5. m \in N /\ \A s \in N : m <= s
  <2> HIDE DEF N
  <2>1. PICK x \in N : \A y \in N : x <= y
    BY <1>2, <1>3, LeastNumber
  <2> QED
    BY <2>1 DEF Alerts!Min
<1>6. m \in 1..end /\ o[end].at - o[m].at <= Alerts!BurstWindow
      /\ \A s \in 1..end : o[end].at - o[s].at <= Alerts!BurstWindow => m <= s
  <2>1. m \in 1..end /\ o[end].at - o[m].at <= Alerts!BurstWindow
    BY <1>5
  <2> QED
    BY <1>5, <2>1
<1> HIDE DEF m, N, n
<1>7. /\ Len(SubSeq(o, m, end)) = end - m + 1
      /\ DOMAIN SubSeq(o, m, end) = 1..(end - m + 1)
      /\ \A i \in 1..(end - m + 1) : SubSeq(o, m, end)[i] = o[m + i - 1]
  BY <1>1, <1>6
<1>8. \A i \in 1..(end - m + 1) : o[m + i - 1] \in T
  BY <1>1, <1>6
<1>9. Alerts!ToSet(SubSeq(o, m, end)) \subseteq T
  BY <1>7, <1>8 DEF Alerts!ToSet
<1> QED
  BY <1>4, <1>6, <1>7, <1>9

Dense(o) == {end \in DOMAIN o : Len(Alerts!Span(o, end)) >= 3}

\* Some window holds three rows exactly when three rows lie within the span.
LEMMA DenseRows ==
    ASSUME NEW T, NEW o, Sorted(T, o), \A r \in T : r.at \in Nat
    PROVE  Dense(o) # {} <=> \E i, j, k \in DOMAIN o : i < j /\ j < k /\ o[k].at - o[i].at <= Alerts!BurstWindow
<1> DEFINE n == Cardinality(T)
<1>1. n \in Nat /\ DOMAIN o = 1..n
  BY DEF Sorted
<1> HIDE DEF n
<1>2. ASSUME NEW end \in Dense(o)
      PROVE  \E i, j, k \in DOMAIN o : i < j /\ j < k /\ o[k].at - o[i].at <= Alerts!BurstWindow
  <2>1. end \in DOMAIN o /\ Len(Alerts!Span(o, end)) >= 3
    BY DEF Dense
  <2>2. PICK m \in 1..end : Len(Alerts!Span(o, end)) = end - m + 1 /\ o[end].at - o[m].at <= Alerts!BurstWindow
    BY <2>1, SpanOfRows
  <2>3. m \in 1..n /\ m + 1 \in 1..n /\ end \in 1..n /\ m < m + 1 /\ m + 1 < end
    BY <1>1, <2>1, <2>2
  <2> QED
    BY <1>1, <2>2, <2>3
<1>3. ASSUME NEW i \in DOMAIN o, NEW j \in DOMAIN o, NEW k \in DOMAIN o, i < j, j < k, o[k].at - o[i].at <= Alerts!BurstWindow
      PROVE  k \in Dense(o)
  <2>1. PICK m \in 1..k : /\ Len(Alerts!Span(o, k)) = k - m + 1
                          /\ \A s \in 1..k : o[k].at - o[s].at <= Alerts!BurstWindow => m <= s
    BY SpanOfRows
  <2>2. i \in 1..k
    BY <1>1, <1>3
  <2>3. m <= i
    BY <1>3, <2>1, <2>2
  <2>4. k - m + 1 >= 3
    BY <1>1, <1>3, <2>1, <2>3
  <2> QED
    BY <2>1, <2>4 DEF Dense
<1> QED
  BY <1>2, <1>3

\* A pair's contacts are dense exactly when three of them lie close together.
LEMMA DenseIsClose ==
    ASSUME NEW T, IsFiniteSet(T), NEW o, Sorted(T, o), \A r \in T : r.at \in Nat
    PROVE  Dense(o) # {} <=> \E trio \in SUBSET T : Alerts!Cardinality(trio) = 3 /\ Alerts!Close(trio, Alerts!BurstWindow)
<1> DEFINE n == Cardinality(T)
<1>1. /\ n \in Nat /\ DOMAIN o = 1..n /\ \A i \in 1..n : o[i] \in T /\ o[i].at \in Nat
      /\ \A i, j \in 1..n : i <= j => o[i].at <= o[j].at
      /\ \A i, j \in 1..n : o[i] = o[j] => i = j
      /\ \A x \in T : \E i \in 1..n : o[i] = x
  BY DEF Sorted
<1> HIDE DEF n
<1>2. ASSUME NEW i \in 1..n, NEW j \in 1..n, NEW k \in 1..n, i < j, j < k, o[k].at - o[i].at <= Alerts!BurstWindow
      PROVE  \E trio \in SUBSET T : Alerts!Cardinality(trio) = 3 /\ Alerts!Close(trio, Alerts!BurstWindow)
  <2> DEFINE trio == {o[i], o[j], o[k]}
  <2>1. o[i] # o[j] /\ o[i] # o[k] /\ o[j] # o[k]
    BY <1>1, <1>2
  <2>2. Cardinality(trio) = 3
    BY <2>1, OfThree
  <2>3. /\ o[i].at \in Nat /\ o[j].at \in Nat /\ o[k].at \in Nat
        /\ o[i].at <= o[j].at /\ o[j].at <= o[k].at /\ o[k].at <= o[i].at + Alerts!BurstWindow
    BY <1>1, <1>2 DEF Alerts!BurstWindow, Alerts!Hour
  <2>4. Alerts!Close(trio, Alerts!BurstWindow)
    BY <2>3 DEF Alerts!Close, Alerts!BurstWindow, Alerts!Hour
  <2>5. trio \in SUBSET T
    BY <1>1
  <2> HIDE DEF trio
  <2> QED
    BY <2>2, <2>4, <2>5, SameCount
<1>3. ASSUME NEW trio \in SUBSET T, Alerts!Cardinality(trio) = 3, Alerts!Close(trio, Alerts!BurstWindow)
      PROVE  \E i, j, k \in 1..n : i < j /\ j < k /\ o[k].at - o[i].at <= Alerts!BurstWindow
  <2>1. IsFiniteSet(trio) /\ Cardinality(trio) = 3
    BY <1>3, FS_Subset, SameCount
  <2>2. PICK a \in trio, b \in trio, c \in trio : a # b /\ a # c /\ b # c
    BY <2>1, ThreeMembers
  <2>3. PICK i \in 1..n, j \in 1..n, k \in 1..n : o[i] = a /\ o[j] = b /\ o[k] = c
    BY <1>1
  <2>4. i # j /\ i # k /\ j # k
    BY <2>2, <2>3
  <2>5. \A x, y \in {i, j, k} : o[y].at - o[x].at <= Alerts!BurstWindow
    <3>1. \A x \in {i, j, k} : o[x] \in trio /\ o[x].at \in Nat
      BY <1>1, <2>3
    <3> QED
      BY <1>3, <3>1 DEF Alerts!Close, Alerts!BurstWindow, Alerts!Hour
  <2>6. PICK x \in {i, j, k}, y \in {i, j, k}, z \in {i, j, k} : x < y /\ y < z
    BY <1>1, <2>4
  <2> QED
    BY <2>5, <2>6
<1>4. Dense(o) # {} <=> \E i, j, k \in 1..n : i < j /\ j < k /\ o[k].at - o[i].at <= Alerts!BurstWindow
  BY <1>1, DenseRows
<1> QED
  BY <1>2, <1>3, <1>4

-------------------------------------------------------------------------------
\* Bursts and relays

\* The contacts that count, and those of a pair.
OfPair(rows, pair) == {e \in rows : {e.from, e.to} = pair}

\* The contacts are the relations a lead may rest on.
LEMMA ContactsCount ==
    ASSUME NEW relations, AreContacts(relations)
    PROVE  /\ Alerts!Contacts(relations) = Alerts!Supported(relations)
           /\ Alerts!Supported(relations) \subseteq relations
           /\ Numbered(Alerts!Supported(relations))
           /\ \A e \in Alerts!Supported(relations) : e.at \in Nat /\ e.id \in Nat /\ e.from # e.to
<1>1. Alerts!Contacts(relations) = Alerts!Supported(relations)
  BY DEF Alerts!Contacts, Alerts!Supported
<1>2. Alerts!Supported(relations) \subseteq relations
  BY DEF Alerts!Supported
<1>3. Numbered(Alerts!Supported(relations))
  BY <1>2, SomeRows DEF AreContacts
<1> QED
  BY <1>1, <1>2, <1>3 DEF AreContacts, Numbered

\* The contacts of a pair are sorted.
LEMMA PairsAreSorted ==
    ASSUME NEW rows, Numbered(rows), \A e \in rows : e.at \in Nat, NEW pair
    PROVE  Sorted(OfPair(rows, pair), Alerts!Between(rows, pair)) /\ IsFiniteSet(OfPair(rows, pair))
<1> DEFINE T == OfPair(rows, pair)
<1>1. T \subseteq rows
  BY DEF OfPair
<1>2. Alerts!Between(rows, pair) = Alerts!ByTime(T)
  BY DEF Alerts!Between, OfPair
<1> HIDE DEF T
<1>3. Numbered(T) /\ IsFiniteSet(T)
  BY <1>1, SomeRows
<1>4. Sorted(T, Alerts!ByTime(T))
  BY <1>1, <1>3, RowsAreSorted
<1> QED
  BY <1>2, <1>3, <1>4 DEF T

\* A lead about an incident rests on contacts.
LEMMA IncidentRows ==
    ASSUME NEW relations, AreContacts(relations), NEW window, NEW f \in Alerts!PreIncident(relations, window)
    PROVE  Alerts!ToSet(f.rows) \subseteq Alerts!Supported(relations) /\ RowList(f.rows)
<1> DEFINE contacts == {e \in Alerts!Contacts(relations) : e.at + Alerts!Lookback >= window.start /\ e.at < window.start}
           F(pair) == Alerts!Between(contacts, pair)
           S == {p \in Alerts!PairsOf(contacts) : Len(Alerts!Between(contacts, p)) >= 2}
<1>1. Alerts!PreIncident(relations, window) \subseteq {Alerts!Finding("PRE_INCIDENT_COMMUNICATION", <<pair>>, F(pair)) : pair \in S}
  BY Zenon DEF Alerts!PreIncident
<1>2. PICK p \in S : f = Alerts!Finding("PRE_INCIDENT_COMMUNICATION", <<p>>, F(p))
  <2> HIDE DEF F, S
  <2> QED
    BY <1>1, Zenon
<1>3. f.rows = Alerts!Between(contacts, p)
  BY <1>2 DEF Alerts!Finding
<1>4. contacts \subseteq Alerts!Supported(relations)
  BY ContactsCount
<1> HIDE DEF contacts, S
<1>5. Numbered(contacts) /\ \A e \in contacts : e.at \in Nat
  BY <1>4, ContactsCount, SomeRows
<1>6. Sorted(OfPair(contacts, p), f.rows)
  BY <1>3, <1>5, PairsAreSorted
<1>7. OfPair(contacts, p) \subseteq contacts
  BY DEF OfPair
<1>8. RowList(f.rows)
  <2>1. Numbered(OfPair(contacts, p)) /\ \A e \in OfPair(contacts, p) : e.at \in Nat
    BY <1>5, <1>7, SomeRows
  <2> QED
    BY <1>6, <2>1, SortedOnce
<1> QED
  BY <1>4, <1>6, <1>7, <1>8 DEF Sorted

\* A burst is found exactly when three contacts of a pair lie within two hours.
LEMMA BurstsAreFound ==
    ASSUME NEW relations, AreContacts(relations)
    PROVE  /\ \A f \in Alerts!Bursts(relations) : Alerts!ToSet(f.rows) \subseteq Alerts!Supported(relations) /\ RowList(f.rows)
           /\ \A pair : (\E f \in Alerts!Bursts(relations) : f.about = <<pair>>)
                <=> \E trio \in SUBSET {e \in Alerts!Supported(relations) : {e.from, e.to} = pair} :
                        Alerts!Cardinality(trio) = 3 /\ Alerts!Close(trio, Alerts!BurstWindow)
<1> DEFINE contacts == Alerts!Contacts(relations)
           dense(pair) == {end \in DOMAIN Alerts!Between(contacts, pair) : Len(Alerts!Span(Alerts!Between(contacts, pair), end)) >= 3}
           F(pair) == Alerts!Span(Alerts!Between(contacts, pair), Alerts!Min(dense(pair)))
           S == {p \in Alerts!PairsOf(contacts) : dense(p) # {}}
           found == Alerts!Bursts(relations)
<1>1. found = {Alerts!Finding("COMMUNICATION_BURST", <<pair>>, F(pair)) : pair \in S}
  BY Zenon DEF Alerts!Bursts
<1>2. \A p : dense(p) = Dense(Alerts!Between(contacts, p))
  BY Zenon DEF Dense
<1>3. contacts = Alerts!Supported(relations) /\ Numbered(contacts) /\ \A e \in contacts : e.at \in Nat
  BY ContactsCount
<1>4. \A p : S \subseteq Alerts!PairsOf(contacts) /\ (p \in S <=> p \in Alerts!PairsOf(contacts) /\ dense(p) # {})
  OBVIOUS
<1> HIDE DEF S, dense, contacts, found
<1>5. \A p : Sorted(OfPair(contacts, p), Alerts!Between(contacts, p)) /\ IsFiniteSet(OfPair(contacts, p))
  BY <1>3, PairsAreSorted
<1>6. \A p : OfPair(contacts, p) \subseteq contacts /\ \A e \in OfPair(contacts, p) : e.at \in Nat
  BY <1>3 DEF OfPair
<1>7. ASSUME NEW f \in found PROVE Alerts!ToSet(f.rows) \subseteq contacts /\ RowList(f.rows)
  <2>1. PICK p \in S : f = Alerts!Finding("COMMUNICATION_BURST", <<p>>, F(p))
    <3> HIDE DEF F
    <3> QED
      BY <1>1, Zenon
  <2> DEFINE o == Alerts!Between(contacts, p)
             T == OfPair(contacts, p)
             D == dense(p)
             end == Alerts!Min(D)
  <2>2. f.rows = Alerts!Span(o, end)
    BY <2>1 DEF Alerts!Finding
  <2>3. Sorted(T, o) /\ T \subseteq contacts /\ \A e \in T : e.at \in Nat
    BY <1>5, <1>6
  <2>4. D # {} /\ D = Dense(o)
    BY <1>2, <1>4
  <2> HIDE DEF o, T, D
  <2>5. D \subseteq DOMAIN o /\ D \subseteq Nat
    BY <2>3, <2>4 DEF Dense, Sorted
  <2>6. end \in DOMAIN o
    <3>1. PICK x \in D : \A y \in D : x <= y
      BY <2>4, <2>5, LeastNumber
    <3>2. Alerts!Min(D) \in D
      BY <3>1 DEF Alerts!Min
    <3> QED
      BY <2>5, <3>2
  <2> HIDE DEF end
  <2>7. PICK m \in 1..end : Alerts!Span(o, end) = SubSeq(o, m, end) /\ Alerts!ToSet(Alerts!Span(o, end)) \subseteq T
    BY <2>3, <2>6, SpanOfRows
  <2>8. RowList(f.rows)
    <3>1. Numbered(T)
      BY <1>3, <2>3, SomeRows
    <3>2. m \in DOMAIN o /\ m <= end
      BY <2>3, <2>6 DEF Sorted
    <3> QED
      BY <2>2, <2>3, <2>6, <2>7, <3>1, <3>2, SortedOnce
  <2> QED
    BY <2>2, <2>3, <2>7, <2>8
<1>8. ASSUME NEW pair
      PROVE  (\E f \in found : f.about = <<pair>>) <=> pair \in S
  <2> HIDE DEF F
  <2>1. ASSUME NEW f \in found, f.about = <<pair>> PROVE pair \in S
    <3>1. PICK p \in S : f = Alerts!Finding("COMMUNICATION_BURST", <<p>>, F(p))
      BY <1>1, Zenon
    <3> QED
      BY <2>1, <3>1 DEF Alerts!Finding
  <2>2. ASSUME pair \in S PROVE \E f \in found : f.about = <<pair>>
    <3>1. Alerts!Finding("COMMUNICATION_BURST", <<pair>>, F(pair)) \in found
      BY <1>1, <2>2, Zenon
    <3> QED
      BY <3>1 DEF Alerts!Finding
  <2> QED
    BY <2>1, <2>2
<1>9. ASSUME NEW pair
      PROVE  pair \in S <=> \E trio \in SUBSET OfPair(contacts, pair) : Alerts!Cardinality(trio) = 3 /\ Alerts!Close(trio, Alerts!BurstWindow)
  <2>1. dense(pair) # {} <=> \E trio \in SUBSET OfPair(contacts, pair) : Alerts!Cardinality(trio) = 3 /\ Alerts!Close(trio, Alerts!BurstWindow)
    BY <1>2, <1>5, <1>6, DenseIsClose
  <2>2. dense(pair) # {} => pair \in Alerts!PairsOf(contacts)
    <3> SUFFICES ASSUME dense(pair) # {} PROVE pair \in Alerts!PairsOf(contacts)
      OBVIOUS
    <3>1. PICK end \in DOMAIN Alerts!Between(contacts, pair) : TRUE
      BY <1>2 DEF Dense
    <3>2. Alerts!Between(contacts, pair)[end] \in OfPair(contacts, pair)
      BY <1>5 DEF Sorted
    <3> QED
      BY <3>2 DEF OfPair, Alerts!PairsOf
  <2> QED
    BY <1>4, <2>1, <2>2
<1>10. \A pair : OfPair(contacts, pair) = {e \in Alerts!Supported(relations) : {e.from, e.to} = pair}
  BY <1>3 DEF OfPair
<1>11. \A f \in found : Alerts!ToSet(f.rows) \subseteq Alerts!Supported(relations) /\ RowList(f.rows)
  BY <1>3, <1>7
<1>12. ASSUME NEW pair
       PROVE  (\E f \in found : f.about = <<pair>>)
                <=> \E trio \in SUBSET {e \in Alerts!Supported(relations) : {e.from, e.to} = pair} :
                        Alerts!Cardinality(trio) = 3 /\ Alerts!Close(trio, Alerts!BurstWindow)
  BY <1>8, <1>9, <1>10
<1> QED
  BY <1>11, <1>12 DEF found

\* A relay rests on two contacts, and is found wherever one contact follows another.
LEMMA RelaysAreFound ==
    ASSUME NEW relations, AreContacts(relations)
    PROVE  /\ \A f \in Alerts!Relays(relations) : Alerts!ToSet(f.rows) \subseteq Alerts!Supported(relations) /\ RowList(f.rows)
           /\ \A d, e \in Alerts!Supported(relations) :
                d.at < e.at /\ e.at <= d.at + Alerts!RelayWindow /\ Alerts!Cardinality({d.from, d.to} \cup {e.from, e.to}) = 3
                    => \E f \in Alerts!Relays(relations) :
                            Alerts!ToSet(f.about) = {d.from, d.to} \cup {e.from, e.to} /\ f.about[2] \in {d.from, d.to} \cap {e.from, e.to}
<1> DEFINE order == Alerts!ByTime(Alerts!Contacts(relations))
           ends(i) == {order[i].from, order[i].to}
           legs == {l \in (1..Len(order)) \X (1..Len(order)) :
                    l[1] < l[2] /\ order[l[2]].at - order[l[1]].at <= Alerts!RelayWindow /\ ends(l[1]) # ends(l[2])}
           path(l, m) == <<Alerts!Other(order[l[1]], m), m, Alerts!Other(order[l[2]], m)>>
           paths == UNION {{path(l, m) : m \in ends(l[1]) \cap ends(l[2])} : l \in legs}
           shows(l, p) == p[2] \in ends(l[1]) \cap ends(l[2]) /\ path(l, p[2]) = p
           first(p) == CHOOSE l \in legs :
            /\ p[2] \in ends(l[1]) \cap ends(l[2]) /\ path(l, p[2]) = p
            /\ \A k \in legs : p[2] \in ends(k[1]) \cap ends(k[2]) /\ path(k, p[2]) = p
                               => l[1] < k[1] \/ (l[1] = k[1] /\ l[2] <= k[2])
           F(p) == <<order[first(p)[1]], order[first(p)[2]]>>
           found == Alerts!Relays(relations)
           T == Alerts!Supported(relations)
           n == Cardinality(T)
<1>1. found = {Alerts!Finding("RELAY_CONTACT", p, F(p)) : p \in paths}
  BY Zenon DEF Alerts!Relays
<1>2. Sorted(T, order) /\ RowList(order) /\ \A e \in T : e.at \in Nat /\ e.from # e.to
  <2>1. Alerts!Contacts(relations) = T /\ Numbered(T) /\ \A e \in T : e.at \in Nat /\ e.from # e.to
    BY ContactsCount
  <2> HIDE DEF T
  <2> QED
    BY <2>1, RowsAreSorted, SortedOnce
<1> HIDE DEF order, T
<1>3. n \in Nat /\ DOMAIN order = 1..n /\ Len(order) = n /\ \A i \in 1..n : order[i] \in T
  BY <1>2 DEF Sorted
<1> HIDE DEF n
<1>4. \A l \in legs : l[1] \in 1..n /\ l[2] \in 1..n /\ l[1] \in Nat /\ l[2] \in Nat
  BY <1>3
<1>5. ASSUME NEW p \in paths PROVE first(p) \in legs
  <2> DEFINE L == {l \in legs : shows(l, p)}
             A == {l[1] : l \in L}
  <2>1. \E l \in legs : shows(l, p)
    <3>1. PICK l \in legs : p \in {path(l, m) : m \in ends(l[1]) \cap ends(l[2])}
      OBVIOUS
    <3>2. PICK m \in ends(l[1]) \cap ends(l[2]) : p = path(l, m)
      BY <3>1
    <3>3. p[2] = m
      BY <3>2
    <3> QED
      BY <3>2, <3>3
  <2>2. A # {} /\ A \subseteq Nat
    BY <1>4, <2>1
  <2>3. PICK a \in A : \A x \in A : a <= x
    <3> HIDE DEF A
    <3> QED
      BY <2>2, LeastNumber
  <2> DEFINE B == {l[2] : l \in {k \in L : k[1] = a}}
  <2>4. B # {} /\ B \subseteq Nat
    BY <1>4, <2>3
  <2>5. PICK b \in B : \A x \in B : b <= x
    <3> HIDE DEF B
    <3> QED
      BY <2>4, LeastNumber
  <2>6. PICK l \in legs : l[1] = a /\ l[2] = b /\ shows(l, p)
    BY <2>5
  <2>7. \A k \in legs : shows(k, p) => l[1] < k[1] \/ (l[1] = k[1] /\ l[2] <= k[2])
    <3> SUFFICES ASSUME NEW k \in legs, shows(k, p) PROVE l[1] < k[1] \/ (l[1] = k[1] /\ l[2] <= k[2])
      OBVIOUS
    <3>1. a <= k[1] /\ (k[1] = a => b <= k[2])
      BY <2>3, <2>5
    <3>2. k[1] \in Nat /\ l[1] \in Nat
      BY <1>4
    <3> HIDE DEF legs, A, B, L
    <3> QED
      BY <2>6, <3>1, <3>2
  <2> HIDE DEF legs
  <2>8. \E k \in legs :
            /\ p[2] \in ends(k[1]) \cap ends(k[2]) /\ path(k, p[2]) = p
            /\ \A q \in legs : p[2] \in ends(q[1]) \cap ends(q[2]) /\ path(q, p[2]) = p
                               => k[1] < q[1] \/ (k[1] = q[1] /\ k[2] <= q[2])
    BY <2>6, <2>7, Zenon
  <2> HIDE DEF ends, path
  <2> QED
    BY <2>8, Zenon
<1>6. ASSUME NEW f \in found PROVE Alerts!ToSet(f.rows) \subseteq T /\ RowList(f.rows)
  <2>1. PICK p \in paths : f = Alerts!Finding("RELAY_CONTACT", p, F(p))
    <3> HIDE DEF F, paths, found
    <3> QED
      BY <1>1, Zenon
  <2>2. f.rows = F(p)
    BY <2>1 DEF Alerts!Finding
  <2>3. first(p) \in legs
    BY <1>5
  <2>4. first(p)[1] \in 1..n /\ first(p)[2] \in 1..n /\ first(p)[1] # first(p)[2]
    <3>1. \A l \in legs : l[1] < l[2]
      OBVIOUS
    <3> HIDE DEF first, legs, paths, found
    <3> QED
      BY <1>4, <2>3, <3>1
  <2> HIDE DEF first, legs, paths, found
  <2>5. PICK i \in 1..n, j \in 1..n : i = first(p)[1] /\ j = first(p)[2]
    BY <2>4
  <2>6. f.rows = <<order[i], order[j]>> /\ i # j
    BY <2>2, <2>4, <2>5
  <2>7. PICK w : w = <<order[i], order[j]>>
    OBVIOUS
  <2>8. DOMAIN w = 1..2 /\ Len(w) = 2 /\ w[1] = order[i] /\ w[2] = order[j]
    BY <2>7
  <2>9. order[i] \in T /\ order[j] \in T
    BY <1>3
  <2>10. /\ order[i].id \in Nat /\ order[j].id \in Nat /\ order[i].id # order[j].id
         /\ order[i].at \in Nat /\ order[j].at \in Nat
    BY <1>2, <1>3, <2>6 DEF RowList
  <2>11. \A k \in 1..2 : k = 1 \/ k = 2
    OBVIOUS
  <2>12. RowList(w)
    BY <2>8, <2>10, <2>11 DEF RowList
  <2>13. Alerts!ToSet(w) \subseteq T
    BY <2>8, <2>9, <2>11 DEF Alerts!ToSet
  <2> QED
    BY <2>6, <2>7, <2>12, <2>13
<1>7. ASSUME NEW d \in T, NEW e \in T, d.at < e.at, e.at <= d.at + Alerts!RelayWindow,
             Alerts!Cardinality({d.from, d.to} \cup {e.from, e.to}) = 3
      PROVE  \E f \in found : Alerts!ToSet(f.about) = {d.from, d.to} \cup {e.from, e.to} /\ f.about[2] \in {d.from, d.to} \cap {e.from, e.to}
  <2>1. PICK i \in 1..n, j \in 1..n : order[i] = d /\ order[j] = e
    BY <1>2, <1>3 DEF Sorted
  <2>2. i < j
    <3>1. Alerts!Earlier(d, e)
      BY <1>2, <1>7 DEF Alerts!Earlier
    <3> QED
      BY <1>2, <1>3, <2>1, <3>1 DEF Sorted
  <2>3. Cardinality({d.from, d.to} \cup {e.from, e.to}) = 3
    BY <1>7, SameCount
  <2>4. {d.from, d.to} # {e.from, e.to}
    <3> SUFFICES ASSUME {d.from, d.to} = {e.from, e.to} PROVE FALSE
      OBVIOUS
    <3>1. {d.from, d.to} \cup {e.from, e.to} = {d.from, d.to}
      OBVIOUS
    <3>2. Cardinality({d.from, d.to}) <= 2
      BY OfThree
    <3>3. Cardinality({d.from, d.to}) = 3
      BY <2>3, <3>1, Zenon
    <3> QED
      BY <3>2, <3>3
  <2>5. {d.from, d.to} \cap {e.from, e.to} # {}
    <3> SUFFICES ASSUME {d.from, d.to} \cap {e.from, e.to} = {} PROVE FALSE
      OBVIOUS
    <3>1. d.from # d.to /\ e.from # e.to
      BY <1>2
    <3>2. IsFiniteSet({d.from, d.to, e.from}) /\ Cardinality({d.from, d.to, e.from}) = 3
      BY <3>1, OfThree
    <3>3. e.to \notin {d.from, d.to, e.from}
      BY <3>1
    <3>4. Cardinality({d.from, d.to, e.from} \cup {e.to}) = 4
      <4> DEFINE three == {d.from, d.to, e.from}
      <4>1. IsFiniteSet(three) /\ Cardinality(three) = 3 /\ e.to \notin three
        BY <3>2, <3>3
      <4> HIDE DEF three
      <4>2. Cardinality(three \cup {e.to}) = Cardinality(three) + 1
        BY <4>1, FS_AddElement
      <4> QED
        BY <4>1, <4>2 DEF three
    <3>5. {d.from, d.to, e.from} \cup {e.to} = {d.from, d.to} \cup {e.from, e.to}
      OBVIOUS
    <3>6. Cardinality({d.from, d.to} \cup {e.from, e.to}) = 4
      BY <3>4, <3>5, Zenon
    <3> QED
      BY <2>3, <3>6
  <2>6. PICK m \in {d.from, d.to} \cap {e.from, e.to} : TRUE
    BY <2>5
  <2> DEFINE l == <<i, j>>
             p == path(l, m)
  <2>7. l \in legs
    <3>1. e.at - d.at <= Alerts!RelayWindow
      BY <1>2, <1>7 DEF Alerts!RelayWindow, Alerts!Hour
    <3> QED
      BY <1>3, <2>1, <2>2, <2>4, <3>1
  <2>8. p \in paths
    BY <2>1, <2>6, <2>7
  <2>9. p = <<Alerts!Other(d, m), m, Alerts!Other(e, m)>>
    BY <2>1
  <2> HIDE DEF p, F, paths, found
  <2>10. Alerts!Finding("RELAY_CONTACT", p, F(p)) \in found
    BY <1>1, <2>8, Zenon
  <2>11. Alerts!Finding("RELAY_CONTACT", p, F(p)).about = p
    BY DEF Alerts!Finding
  <2>12. Alerts!ToSet(p) = {Alerts!Other(d, m), m, Alerts!Other(e, m)} /\ p[2] = m
    BY <2>9 DEF Alerts!ToSet
  <2>13. {Alerts!Other(d, m), m, Alerts!Other(e, m)} = {d.from, d.to} \cup {e.from, e.to}
    BY <2>6 DEF Alerts!Other
  <2> QED
    BY <2>6, <2>10, <2>11, <2>12, <2>13
<1> QED
  BY <1>6, <1>7 DEF found, T

-------------------------------------------------------------------------------
\* Silences

\* The middle one of some numbers is one of them.
InSize(gaps) == {p \in (DOMAIN gaps) \X (DOMAIN gaps) : gaps[p[1]] < gaps[p[2]] \/ (gaps[p[1]] = gaps[p[2]] /\ p[1] < p[2])}

\* The median of some gaps is one of them.
LEMMA MedianIsOne ==
    ASSUME NEW n \in Nat, n >= 1, NEW gaps \in [1..n -> Nat]
    PROVE  \E i \in 1..n : Alerts!Median(gaps) = gaps[i]
<1> DEFINE S == DOMAIN gaps
           R == InSize(gaps)
           before(i, j) == gaps[i] < gaps[j] \/ (gaps[i] = gaps[j] /\ i < j)
           rank == [x \in S |-> Alerts!Cardinality({y \in S : before(y, x)})]
           o == [i \in 1..Alerts!Cardinality(S) |-> CHOOSE x \in S : rank[x] = i - 1]
<1>1. Alerts!Median(gaps) = gaps[o[Len(gaps) \div 2 + 1]]
  BY Zenon DEF Alerts!Median, Alerts!InOrder
<1>2. S = 1..n /\ Len(gaps) = n /\ IsFiniteSet(S) /\ Cardinality(S) = n
  BY FS_Interval
<1>3. Total(S, R)
  BY <1>2 DEF Total, InSize
<1>4. o = Ranked(S, R)
  <2>1. \A x \in S : {y \in S : <<y, x>> \in R} = {y \in S : before(y, x)}
    BY DEF InSize
  <2> HIDE DEF S, R
  <2>2. rank = Ranks(S, R)
    BY <2>1, SameCount DEF Ranks
  <2>3. Alerts!Cardinality(S) = Cardinality(S)
    BY SameCount
  <2> HIDE DEF rank
  <2>4. o = [i \in 1..Cardinality(S) |-> CHOOSE x \in S : rank[x] = i - 1]
    BY <2>3, Zenon
  <2>5. o = [i \in 1..Cardinality(S) |-> CHOOSE x \in S : Ranks(S, R)[x] = i - 1]
    BY <2>2, <2>4, Zenon
  <2> QED
    BY <2>5, Zenon DEF Ranked
<1> HIDE DEF o, S, R
<1>5. Listed(S, R, o)
  BY <1>2, <1>3, <1>4, RankedList
<1>6. n \div 2 + 1 \in 1..n
  OBVIOUS
<1>7. o[n \div 2 + 1] \in S
  BY <1>2, <1>5, <1>6, ListedRows DEF Listed
<1> QED
  BY <1>1, <1>2, <1>7

\* A pair falls silent only while others are still in contact.
LEMMA SilencesAreReal ==
    ASSUME NEW relations, AreContacts(relations), NEW f \in Alerts!Silences(relations)
    PROVE  /\ Alerts!ToSet(f.rows) \subseteq Alerts!Supported(relations) /\ RowList(f.rows)
           /\ \E e \in Alerts!Supported(relations) : {e.from, e.to} # f.about[1] /\ e.at > Alerts!Last(f.rows).at
<1> DEFINE contacts == Alerts!Contacts(relations)
           ends == Alerts!Max({e.at : e \in contacts})
           gaps(rows) == [i \in 1..(Len(rows) - 1) |-> rows[i + 1].at - rows[i].at]
           silent(rows) ==
            /\ Len(rows) >= 3
            /\ LET usual == Alerts!Median([i \in 1..(Len(rows) - 1) |-> rows[i + 1].at - rows[i].at])
               IN  usual > 0 /\ ends - Alerts!Last(rows).at >= 4 * usual
           F(pair) == Alerts!Between(contacts, pair)
           S == {p \in Alerts!PairsOf(contacts) : silent(F(p))}
<1>1. Alerts!Silences(relations) = {Alerts!Finding("SUDDEN_SILENCE", <<pair>>, F(pair)) : pair \in S}
  BY Zenon DEF Alerts!Silences
<1>2. PICK p \in S : f = Alerts!Finding("SUDDEN_SILENCE", <<p>>, F(p))
  <2> HIDE DEF F, S
  <2> QED
    BY <1>1, Zenon
<1> DEFINE o == Alerts!Between(contacts, p)
           T == OfPair(contacts, p)
           n == Cardinality(T)
           usual == Alerts!Median(gaps(o))
<1>3. f.rows = o /\ f.about[1] = p
  BY <1>2 DEF Alerts!Finding
<1>4. contacts = Alerts!Supported(relations) /\ Numbered(contacts) /\ \A e \in contacts : e.at \in Nat
  BY ContactsCount
<1>5. T \subseteq contacts /\ \A e \in contacts : {e.from, e.to} = p => e \in T
  BY DEF OfPair
<1>6. Len(o) >= 3 /\ usual > 0 /\ ends - Alerts!Last(o).at >= 4 * usual
  <2>1. silent(F(p))
    <3> HIDE DEF silent, F
    <3> QED
      OBVIOUS
  <2> QED
    BY <2>1, Zenon
<1> HIDE DEF contacts, S
<1>7. Sorted(T, o)
  BY <1>4, PairsAreSorted
<1> HIDE DEF T, o
<1>16. RowList(o)
  <2>1. Numbered(T) /\ \A e \in T : e.at \in Nat
    BY <1>4, <1>5, SomeRows
  <2> QED
    BY <1>7, <2>1, SortedOnce
<1>8. n \in Nat /\ DOMAIN o = 1..n /\ Len(o) = n /\ \A i \in 1..n : o[i] \in T /\ o[i].at \in Nat
  BY <1>4, <1>5, <1>7 DEF Sorted
<1> HIDE DEF n
<1>9. usual \in Nat
  <2>1. \A i \in 1..(n - 1) : i + 1 \in 1..n /\ i \in 1..n /\ i <= i + 1
    BY <1>8
  <2>2. \A i \in 1..(n - 1) : o[i + 1].at - o[i].at \in Nat
    <3> SUFFICES ASSUME NEW i \in 1..(n - 1) PROVE o[i + 1].at - o[i].at \in Nat
      OBVIOUS
    <3>1. i + 1 \in 1..n /\ i \in 1..n /\ i <= i + 1
      BY <2>1
    <3>2. o[i].at \in Nat /\ o[i + 1].at \in Nat /\ o[i].at <= o[i + 1].at
      BY <1>7, <1>8, <3>1 DEF Sorted
    <3> QED
      BY <3>2
  <2> DEFINE g == gaps(o)
  <2>3. n - 1 \in Nat /\ n - 1 >= 1
    BY <1>6, <1>8
  <2>4. g \in [1..(n - 1) -> Nat]
    BY <1>8, <2>2
  <2> HIDE DEF g
  <2>5. PICK i \in 1..(n - 1) : Alerts!Median(g) = g[i]
    BY <2>3, <2>4, MedianIsOne
  <2> QED
    BY <2>4, <2>5 DEF g
<1> DEFINE times == {e.at : e \in contacts}
<1>10. \E e \in contacts : ends = e.at
  <2>1. IsFiniteSet(times)
    <3> DEFINE g == [e \in contacts |-> e.at]
    <3>1. g = [e \in contacts |-> g[e]] /\ times = {g[e] : e \in contacts}
      OBVIOUS
    <3> HIDE DEF g, times
    <3> QED
      BY <1>4, <3>1, FiniteRange DEF Numbered
  <2>2. times # {} /\ times \subseteq Nat
    <3>1. 1 \in 1..n
      BY <1>6, <1>8
    <3>2. o[1] \in contacts
      BY <1>5, <1>8, <3>1
    <3> QED
      BY <1>4, <3>2
  <2> HIDE DEF times
  <2>3. PICK top \in times : \A y \in times : top >= y
    BY <2>1, <2>2, GreatestNumber
  <2>4. Alerts!Max(times) \in times
    BY <2>3 DEF Alerts!Max
  <2> QED
    BY <2>4 DEF times
<1>11. PICK e \in contacts : ends = e.at
  BY <1>10
<1> HIDE DEF ends, usual, times
<1>12. Alerts!Last(o) = o[n] /\ n \in 1..n
  BY <1>6, <1>8 DEF Alerts!Last
<1>13. e.at > o[n].at
  <2>1. o[n].at \in Nat /\ e.at \in Nat
    BY <1>4, <1>8, <1>12
  <2> QED
    BY <1>6, <1>9, <1>11, <1>12, <2>1
<1>14. {e.from, e.to} # p
  <2> SUFFICES ASSUME {e.from, e.to} = p PROVE FALSE
    OBVIOUS
  <2>1. e \in T
    BY <1>5
  <2>2. PICK i \in 1..n : o[i] = e
    BY <1>7, <1>8, <2>1 DEF Sorted
  <2>3. i \in DOMAIN o /\ n \in DOMAIN o /\ i <= n
    BY <1>8, <1>12, <2>2
  <2>4. e.at <= o[n].at
    BY <1>7, <2>2, <2>3 DEF Sorted
  <2> QED
    BY <1>4, <1>8, <1>12, <1>13, <2>4
<1>15. Alerts!ToSet(o) = T
  BY <1>7 DEF Sorted
<1> QED
  BY <1>3, <1>4, <1>5, <1>11, <1>12, <1>13, <1>14, <1>15, <1>16

\* What a lead counts among the contacts is there, and the bursts and relays that are
\* there are found.
THEOREM ContactLeadsAreThere ==
    ASSUME NEW relations, AreContacts(relations), NEW window
    PROVE  Alerts!ContactLeadsAreTrue(relations, window)
<1>1. \A f \in Alerts!PreIncident(relations, window) \cup Alerts!Bursts(relations) \cup Alerts!Relays(relations) \cup Alerts!Silences(relations) :
          Alerts!ToSet(f.rows) \subseteq Alerts!Supported(relations)
  BY IncidentRows, BurstsAreFound, RelaysAreFound, SilencesAreReal
<1>2. \A pair \in {{e.from, e.to} : e \in relations} :
            (\E f \in Alerts!Bursts(relations) : f.about = <<pair>>)
                <=> \E trio \in SUBSET {e \in Alerts!Supported(relations) : {e.from, e.to} = pair} :
                        Alerts!Cardinality(trio) = 3 /\ Alerts!Close(trio, Alerts!BurstWindow)
  BY BurstsAreFound
<1>3. \A d, e \in Alerts!Supported(relations) :
            d.at < e.at /\ e.at <= d.at + Alerts!RelayWindow /\ Alerts!Cardinality({d.from, d.to} \cup {e.from, e.to}) = 3
                => \E f \in Alerts!Relays(relations) :
                        Alerts!ToSet(f.about) = {d.from, d.to} \cup {e.from, e.to} /\ f.about[2] \in {d.from, d.to} \cap {e.from, e.to}
  BY RelaysAreFound
<1>4. \A f \in Alerts!Silences(relations) : \E e \in Alerts!Supported(relations) : {e.from, e.to} # f.about[1] /\ e.at > Alerts!Last(f.rows).at
  BY SilencesAreReal
<1> QED
  BY <1>1, <1>2, <1>3, <1>4, Zenon DEF Alerts!ContactLeadsAreTrue

\* One list after another.
LEMMA Concatenated ==
    ASSUME NEW S, NEW x \in Seq(S), NEW y \in Seq(S)
    PROVE  /\ x \o y \in Seq(S) /\ Len(x) \in Nat /\ Len(y) \in Nat /\ Len(x \o y) = Len(x) + Len(y)
           /\ \A i \in 1..Len(x) : (x \o y)[i] = x[i]
           /\ \A i \in 1..Len(y) : (x \o y)[Len(x) + i] = y[i]
OBVIOUS

-------------------------------------------------------------------------------
\* The lines that tell a lead

\* Pieces of which those of F end with the row that c gives, each row once, rows
\* with a time in their order and before the others.
Entry == [kind : {"fact", "gap", "closing"}, id : Nat]
Closes(p, x) ==
    /\ p \in Seq(Entry) /\ Len(p) \in Nat \ {0} /\ p[Len(p)] = x
    /\ \A q \in 1..(Len(p) - 1) : p[q].kind # "fact"
Carries(ps, F, c, rows) ==
    /\ ps \in Seq(Seq(Entry)) /\ F \subseteq 1..Len(ps)
    /\ \A i \in 1..Len(ps) : i \notin F => \A q \in 1..Len(ps[i]) : ps[i][q].kind # "fact"
    /\ \A i \in F : c[i] \in DOMAIN rows /\ Closes(ps[i], Alerts!Line("fact", rows[c[i]].id))
    /\ \A i, j \in F : c[i] = c[j] => i = j
    /\ \A x \in DOMAIN rows : \E i \in F : c[i] = x
    /\ \A i, j \in F : i < j /\ rows[c[j]].at # Alerts!Never =>
        rows[c[i]].at # Alerts!Never /\ rows[c[i]].at <= rows[c[j]].at

\* Such pieces tell the rows.
LEMMA PiecesTell ==
    ASSUME NEW rows, RowList(rows), NEW ps, NEW F, NEW c, Carries(ps, F, c, rows)
    PROVE  Alerts!Tells(Flattened(ps), rows)
<1> DEFINE lines == Flattened(ps)
           n == Len(ps)
<1>1. ps \in Seq(Seq(Entry)) /\ n \in Nat /\ F \subseteq 1..n /\ DOMAIN ps = 1..n
  BY DEF Carries
<1>2. lines \in Seq(Entry) /\ \E off : Parted(ps, lines, off)
  BY <1>1, FlatParts
<1>3. PICK off : Parted(ps, lines, off)
  BY <1>2
<1>4. Len(lines) \in Nat /\ DOMAIN lines = 1..Len(lines)
  BY <1>2
<1> HIDE DEF lines, n
<1>5. /\ off \in [0..n -> Nat] /\ off[0] = 0 /\ off[n] = Len(lines)
      /\ \A i \in 1..n :
          /\ off[i] = off[i - 1] + Len(ps[i])
          /\ \A k \in 1..Len(ps[i]) : off[i - 1] + k \in 1..Len(lines) /\ lines[off[i - 1] + k] = ps[i][k]
      /\ \A i, k \in 0..n : i <= k => off[i] <= off[k]
      /\ \A p \in 1..Len(lines) : \E i \in 1..n : off[i - 1] < p /\ p <= off[i]
  BY <1>3 DEF Parted, n
<1> DEFINE facts == {k \in DOMAIN lines : lines[k].kind = "fact"}
<1>6. \A i \in F : Len(ps[i]) \in Nat /\ Len(ps[i]) >= 1 /\ i \in 1..n /\ i - 1 \in 0..n /\ i \in 0..n
  BY <1>1 DEF Carries, Closes
<1>7. ASSUME NEW i \in F PROVE off[i] \in facts /\ lines[off[i]].id = rows[c[i]].id
  <2>1. Len(ps[i]) \in 1..Len(ps[i])
    BY <1>6
  <2>2. off[i - 1] + Len(ps[i]) \in 1..Len(lines) /\ lines[off[i - 1] + Len(ps[i])] = ps[i][Len(ps[i])]
    BY <1>5, <1>6, <2>1
  <2>3. off[i] = off[i - 1] + Len(ps[i])
    BY <1>5, <1>6
  <2>4. ps[i][Len(ps[i])].kind = "fact" /\ ps[i][Len(ps[i])].id = rows[c[i]].id
    <3>1. ps[i][Len(ps[i])] = Alerts!Line("fact", rows[c[i]].id)
      BY DEF Carries, Closes
    <3> QED
      BY <3>1 DEF Alerts!Line
  <2> QED
    BY <1>4, <2>2, <2>3, <2>4
<1>8. ASSUME NEW k \in facts PROVE \E i \in F : k = off[i]
  <2>1. k \in 1..Len(lines) /\ lines[k].kind = "fact"
    BY <1>4
  <2>2. PICK i \in 1..n : off[i - 1] < k /\ k <= off[i]
    BY <1>5, <2>1
  <2>3. off[i - 1] \in Nat /\ off[i] \in Nat /\ off[i] = off[i - 1] + Len(ps[i])
    <3>1. i - 1 \in 0..n /\ i \in 0..n
      BY <1>1
    <3> QED
      BY <1>5, <3>1
  <2>4. Len(ps[i]) \in Nat
    <3>1. \A x \in Seq(Entry) : Len(x) \in Nat
      OBVIOUS
    <3>2. ps[i] \in Seq(Entry)
      BY <1>1
    <3> QED
      BY <3>1, <3>2
  <2>5. PICK q \in 1..Len(ps[i]) : k = off[i - 1] + q
    <3>1. k - off[i - 1] \in 1..Len(ps[i]) /\ k = off[i - 1] + (k - off[i - 1])
      BY <1>4, <2>1, <2>2, <2>3, <2>4
    <3> QED
      BY <3>1
  <2>6. ps[i][q].kind = "fact"
    BY <1>5, <2>1, <2>5
  <2>7. i \in F
    BY <2>6 DEF Carries, n
  <2>8. q = Len(ps[i])
    <3>1. q \notin 1..(Len(ps[i]) - 1)
      BY <2>6, <2>7 DEF Carries, Closes
    <3> QED
      BY <2>4, <3>1
  <2> QED
    BY <2>3, <2>5, <2>7, <2>8
<1>9. \A i \in F : c[i] \in DOMAIN rows
  BY DEF Carries
<1>10. {lines[k].id : k \in facts} = Alerts!IdsOf(rows)
  <2>1. ASSUME NEW k \in facts PROVE \E x \in DOMAIN rows : lines[k].id = rows[x].id
    BY <1>7, <1>8, <1>9
  <2>2. ASSUME NEW x \in DOMAIN rows PROVE \E k \in facts : lines[k].id = rows[x].id
    <3>1. PICK i \in F : c[i] = x
      BY DEF Carries
    <3> QED
      BY <1>7, <3>1
  <2>3. Alerts!IdsOf(rows) = {rows[x].id : x \in DOMAIN rows}
    BY DEF Alerts!IdsOf, Alerts!ToSet
  <2> HIDE DEF facts
  <2> QED
    BY <2>1, <2>2, <2>3
<1>11. ASSUME NEW k \in facts, NEW l \in facts, k < l
       PROVE  /\ lines[k].id # lines[l].id
              /\ \A r, s \in Alerts!ToSet(rows) : r.id = lines[k].id /\ s.id = lines[l].id /\ s.at # Alerts!Never
                    => r.at # Alerts!Never /\ r.at <= s.at
  <2>1. PICK i \in F, j \in F : k = off[i] /\ l = off[j]
    BY <1>8
  <2>2. i < j
    <3>1. j <= i => off[j] <= off[i]
      BY <1>5, <1>6
    <3>2. off[i] \in Nat /\ off[j] \in Nat /\ i \in Nat /\ j \in Nat
      BY <1>5, <1>6
    <3> QED
      BY <1>11, <2>1, <3>1, <3>2
  <2>3. lines[k].id = rows[c[i]].id /\ lines[l].id = rows[c[j]].id
    BY <1>7, <2>1
  <2>4. c[i] \in DOMAIN rows /\ c[j] \in DOMAIN rows /\ c[i] # c[j]
    <3>1. i \in Nat /\ j \in Nat
      BY <1>6
    <3>2. i # j
      BY <2>2, <3>1
    <3> QED
      BY <1>9, <3>2 DEF Carries
  <2>5. lines[k].id # lines[l].id
    BY <2>3, <2>4 DEF RowList
  <2>6. ASSUME NEW r \in Alerts!ToSet(rows), NEW s \in Alerts!ToSet(rows), r.id = lines[k].id, s.id = lines[l].id, s.at # Alerts!Never
        PROVE  r.at # Alerts!Never /\ r.at <= s.at
    <3>1. PICK x \in DOMAIN rows, y \in DOMAIN rows : r = rows[x] /\ s = rows[y]
      BY DEF Alerts!ToSet
    <3>2. x = c[i] /\ y = c[j]
      BY <2>3, <2>4, <2>6, <3>1 DEF RowList
    <3> QED
      BY <2>2, <2>6, <3>1, <3>2 DEF Carries
  <2> QED
    BY <2>5, <2>6
<1> HIDE DEF facts
<1>12. Alerts!Tells(lines, rows)
  BY <1>10, <1>11 DEF Alerts!Tells, facts
<1> QED
  BY <1>12 DEF lines

\* A row's line ends the piece it stands in, after a silence or alone.
LEMMA PiecesClose ==
    ASSUME NEW x \in Entry, NEW g \in Entry, g.kind # "fact"
    PROVE  Closes(<<x>>, x) /\ Closes(<<g>> \o <<x>>, x)
<1>1. <<x>> \in Seq(Entry) /\ Len(<<x>>) = 1 /\ <<x>>[1] = x
  OBVIOUS
<1>2. Closes(<<x>>, x)
  BY <1>1 DEF Closes
<1>3. PICK y, z : y = <<g>> /\ z = <<x>>
  OBVIOUS
<1>4. y \in Seq(Entry) /\ z \in Seq(Entry) /\ Len(y) = 1 /\ Len(z) = 1 /\ y[1] = g /\ z[1] = x
  BY <1>3
<1>5. /\ y \o z \in Seq(Entry) /\ Len(y \o z) = Len(y) + Len(z)
      /\ \A i \in 1..Len(y) : (y \o z)[i] = y[i]
      /\ \A i \in 1..Len(z) : (y \o z)[Len(y) + i] = z[i]
  BY <1>4, Concatenated
<1>6. PICK p : p = y \o z
  OBVIOUS
<1>7. p \in Seq(Entry) /\ Len(p) = 2 /\ p[1] = g /\ p[2] = x
  <2>1. 1 \in 1..Len(y) /\ 1 \in 1..Len(z) /\ Len(y) + Len(z) = 2 /\ Len(y) + 1 = 2
    BY <1>4
  <2>2. (y \o z)[1] = y[1] /\ (y \o z)[Len(y) + 1] = z[1]
    BY <1>5, <2>1, Zenon
  <2> QED
    BY <1>4, <1>5, <1>6, <2>1, <2>2, Zenon
<1>8. \A q \in 1..(2 - 1) : q = 1
  OBVIOUS
<1>9. Closes(p, x)
  BY <1>4, <1>7, <1>8 DEF Closes
<1> QED
  BY <1>2, <1>3, <1>6, <1>9

\* What stands between is no row's line.
LEMMA NoFactsClose ==
    ASSUME NEW g \in Entry, g.kind # "fact"
    PROVE  \A p \in {<<>>, <<g>>} : p \in Seq(Entry) /\ \A q \in 1..Len(p) : p[q].kind # "fact"
<1>1. <<>> \in Seq(Entry) /\ Len(<<>>) = 0
  OBVIOUS
<1>2. PICK p : p = <<g>>
  OBVIOUS
<1>3. p \in Seq(Entry) /\ Len(p) = 1 /\ p[1] = g
  BY <1>2
<1>4. \A q \in 1..Len(p) : p[q].kind # "fact"
  BY <1>3
<1>5. PICK e : e = <<>>
  OBVIOUS
<1>6. e \in Seq(Entry) /\ \A q \in 1..Len(e) : e[q].kind # "fact"
  <2>1. \A q \in 1..0 : FALSE
    OBVIOUS
  <2> QED
    BY <1>1, <1>5, <2>1
<1> QED
  BY <1>2, <1>3, <1>4, <1>5, <1>6, Zenon

\* A list of places in the order of the times of the rows there.
Sooner(rows, S) == {p \in S \X S : rows[p[1]].at < rows[p[2]].at \/ (rows[p[1]].at = rows[p[2]].at /\ p[1] < p[2])}
LEMMA PlacesInOrder ==
    ASSUME NEW rows, RowList(rows), NEW S, S \subseteq DOMAIN rows
    PROVE  Listed(S, Sooner(rows, S), Ranked(S, Sooner(rows, S)))
<1>1. IsFiniteSet(S)
  <2>1. IsFiniteSet(1..Len(rows))
    BY FS_Interval DEF RowList
  <2> QED
    BY <2>1, FS_Subset DEF RowList
<1>2. Total(S, Sooner(rows, S))
  BY DEF Total, Sooner, RowList
<1> QED
  BY <1>1, <1>2, RankedList

\* What is told of rows tells them.
LEMMA ToldTruly ==
    ASSUME NEW rows, RowList(rows), NEW gaps \in BOOLEAN
    PROVE  Alerts!Tells(Alerts!Told(rows, gaps), rows)
<1> DEFINE T == {i \in DOMAIN rows : rows[i].at # Alerts!Never}
           U == {i \in DOMAIN rows : rows[i].at = Alerts!Never}
           t == Ranked(T, Sooner(rows, T))
           u == Ranked(U, Sooner(rows, U))
           silent(i) == gaps /\ i > 1 /\ rows[t[i]].at - rows[t[i - 1]].at >= Alerts!GapWorthStating
           fact(i) == <<Alerts!Line("fact", rows[i].id)>>
           early == [i \in DOMAIN t |-> IF silent(i) THEN <<Alerts!Line("gap", 0)>> \o fact(t[i]) ELSE fact(t[i])]
           break == IF u # <<>> /\ t # <<>> THEN <<Alerts!Line("gap", 0)>> ELSE <<>>
           late == [i \in DOMAIN u |-> fact(u[i])]
           end == <<Alerts!Line("closing", 0)>>
           ps == early \o <<break>> \o late \o <<end>>
<1>1. Alerts!Told(rows, gaps) = Flattened(ps)
  <2> DEFINE before(i, j) == rows[i].at < rows[j].at \/ (rows[i].at = rows[j].at /\ i < j)
  <2>1. ASSUME NEW S PROVE Alerts!InOrder(S, before) = Ranked(S, Sooner(rows, S))
    <3> DEFINE rank == [x \in S |-> Alerts!Cardinality({y \in S : before(y, x)})]
    <3>1. \A x \in S : {y \in S : <<y, x>> \in Sooner(rows, S)} = {y \in S : before(y, x)}
      BY DEF Sooner
    <3>2. rank = Ranks(S, Sooner(rows, S))
      BY <3>1, SameCount DEF Ranks
    <3>3. Alerts!InOrder(S, before) = [i \in 1..Alerts!Cardinality(S) |-> CHOOSE x \in S : rank[x] = i - 1]
      BY Zenon DEF Alerts!InOrder
    <3>4. Alerts!Cardinality(S) = Cardinality(S)
      BY SameCount
    <3> HIDE DEF rank
    <3> QED
      BY <3>2, <3>3, <3>4, Zenon DEF Ranked
  <2>2. Alerts!InOrder(T, before) = t /\ Alerts!InOrder(U, before) = u
    BY <2>1
  <2> HIDE DEF T, U, t, u
  <2> DEFINE tt == Alerts!InOrder(T, before)
             uu == Alerts!InOrder(U, before)
             quiet(i) == gaps /\ i > 1 /\ rows[tt[i]].at - rows[tt[i - 1]].at >= Alerts!GapWorthStating
  <2>3. Alerts!Told(rows, gaps) =
            Alerts!FlattenSeq([i \in DOMAIN tt |-> IF quiet(i) THEN <<Alerts!Line("gap", 0)>> \o fact(tt[i]) ELSE fact(tt[i])]
                   \o <<IF uu # <<>> /\ tt # <<>> THEN <<Alerts!Line("gap", 0)>> ELSE <<>> >>
                   \o [i \in DOMAIN uu |-> fact(uu[i])]
                   \o <<<<Alerts!Line("closing", 0)>>>>)
    BY Zenon DEF Alerts!Told, T, U
  <2> HIDE DEF before
  <2>4. Alerts!Told(rows, gaps) = Alerts!FlattenSeq(ps)
    BY <2>2, <2>3, Zenon
  <2> HIDE DEF ps
  <2> QED
    BY <2>4, SameFlat
<1>2. Listed(T, Sooner(rows, T), t) /\ Listed(U, Sooner(rows, U), u) /\ T \subseteq DOMAIN rows /\ U \subseteq DOMAIN rows
  BY PlacesInOrder
<1>3. \A i \in DOMAIN rows : (i \in T <=> rows[i].at # Alerts!Never) /\ (i \in U <=> rows[i].at = Alerts!Never)
  OBVIOUS
<1> HIDE DEF T, U, t, u
<1> DEFINE a == Len(t)
           b == Len(u)
<1>4. /\ a \in Nat /\ t \in Seq(T) /\ DOMAIN t = 1..a /\ \A i \in 1..a : t[i] \in T
      /\ b \in Nat /\ u \in Seq(U) /\ DOMAIN u = 1..b /\ \A i \in 1..b : u[i] \in U
  BY <1>2 DEF Listed
<1>5. /\ \A i, j \in 1..a : i < j => <<t[i], t[j]>> \in Sooner(rows, T)
      /\ \A i, j \in 1..a : t[i] = t[j] => i = j
      /\ \A x \in T : \E i \in 1..a : t[i] = x
      /\ \A i, j \in 1..b : u[i] = u[j] => i = j
      /\ \A x \in U : \E i \in 1..b : u[i] = x
  BY <1>2, <1>4 DEF Listed
<1> HIDE DEF a, b
<1>6. \A i \in DOMAIN rows : Alerts!Line("fact", rows[i].id) \in Entry
  BY DEF RowList, Alerts!Line, Entry
<1>7. /\ break \in Seq(Entry) /\ end \in Seq(Entry)
      /\ (\A q \in 1..Len(break) : break[q].kind # "fact") /\ (\A q \in 1..Len(end) : end[q].kind # "fact")
  <2>1. PICK g, e : g = Alerts!Line("gap", 0) /\ e = Alerts!Line("closing", 0)
    OBVIOUS
  <2>2. g \in Entry /\ e \in Entry /\ g.kind # "fact" /\ e.kind # "fact"
    BY <2>1 DEF Alerts!Line, Entry
  <2>3. end \in {<<>>, <<e>>} /\ break \in {<<>>, <<g>>}
    BY <2>1
  <2> HIDE DEF break, end
  <2> QED
    BY <2>2, <2>3, NoFactsClose, Zenon
<1>8. ASSUME NEW i \in 1..a
      PROVE  early[i] \in Seq(Entry) /\ Closes(early[i], Alerts!Line("fact", rows[t[i]].id))
  <2>1. t[i] \in DOMAIN rows /\ early[i] = IF silent(i) THEN <<Alerts!Line("gap", 0)>> \o fact(t[i]) ELSE fact(t[i])
    BY <1>2, <1>4
  <2>2. PICK x, g : x = Alerts!Line("fact", rows[t[i]].id) /\ g = Alerts!Line("gap", 0)
    OBVIOUS
  <2>3. x \in Entry
    BY <1>6, <2>1, <2>2
  <2>4. g \in Entry /\ g.kind # "fact"
    BY <2>2, SMTT(30) DEF Alerts!Line, Entry
  <2>5. early[i] = <<g>> \o <<x>> \/ early[i] = <<x>>
    BY <2>1, <2>2
  <2> HIDE DEF early
  <2>6. Closes(<<x>>, x) /\ Closes(<<g>> \o <<x>>, x)
    BY <2>3, <2>4, PiecesClose
  <2>7. Closes(early[i], x)
    BY <2>5, <2>6
  <2> QED
    BY <2>2, <2>7 DEF Closes
<1>9. ASSUME NEW i \in 1..b
      PROVE  late[i] \in Seq(Entry) /\ Closes(late[i], Alerts!Line("fact", rows[u[i]].id))
  <2>1. u[i] \in DOMAIN rows /\ late[i] = <<Alerts!Line("fact", rows[u[i]].id)>>
    BY <1>2, <1>4
  <2>2. PICK x, g : x = Alerts!Line("fact", rows[u[i]].id) /\ g = Alerts!Line("gap", 0)
    OBVIOUS
  <2>3. x \in Entry /\ g \in Entry /\ g.kind # "fact"
    BY <1>6, <2>1, <2>2 DEF Alerts!Line, Entry
  <2> HIDE DEF late
  <2>4. Closes(<<x>>, x)
    BY <2>3, PiecesClose
  <2> QED
    BY <2>1, <2>2, <2>4 DEF Closes
<1>10. early \in Seq(Seq(Entry)) /\ Len(early) = a /\ late \in Seq(Seq(Entry)) /\ Len(late) = b
  <2>1. DOMAIN early = 1..a /\ early = [i \in 1..a |-> early[i]] /\ DOMAIN late = 1..b /\ late = [i \in 1..b |-> late[i]]
    BY <1>4
  <2> HIDE DEF early, late
  <2> QED
    <3>1. a \in Nat /\ b \in Nat /\ (\A i \in 1..a : early[i] \in Seq(Entry)) /\ (\A i \in 1..b : late[i] \in Seq(Entry))
      BY <1>4, <1>8, <1>9
    <3>2. early \in Seq(Seq(Entry)) /\ Len(early) = a
      BY <2>1, <3>1
    <3>3. late \in Seq(Seq(Entry)) /\ Len(late) = b
      BY <2>1, <3>1, SMTT(30)
    <3> QED
      BY <3>2, <3>3
<1> HIDE DEF early, late, break, end
<1>11. /\ ps \in Seq(Seq(Entry)) /\ Len(ps) = a + b + 2
       /\ \A i \in 1..a : ps[i] = early[i]
       /\ ps[a + 1] = break
       /\ \A i \in 1..b : ps[a + 1 + i] = late[i]
       /\ ps[a + b + 2] = end
  <2>1. PICK p1 : p1 = early \o <<break>>
    OBVIOUS
  <2>2. p1 \in Seq(Seq(Entry)) /\ Len(p1) = a + 1 /\ (\A i \in 1..a : p1[i] = early[i]) /\ p1[a + 1] = break
    BY <1>4, <1>7, <1>10, <2>1
  <2>3. PICK p2 : p2 = p1 \o late
    OBVIOUS
  <2>4. p2 \in Seq(Seq(Entry)) /\ Len(p2) = a + 1 + b /\ (\A i \in 1..(a + 1) : p2[i] = p1[i]) /\ (\A i \in 1..b : p2[a + 1 + i] = late[i])
    <3>1. Len(p1) = a + 1 /\ Len(late) = b
      BY <1>10, <2>2
    <3>2. /\ p1 \o late \in Seq(Seq(Entry)) /\ Len(p1 \o late) = Len(p1) + Len(late)
          /\ \A i \in 1..Len(p1) : (p1 \o late)[i] = p1[i]
          /\ \A i \in 1..Len(late) : (p1 \o late)[Len(p1) + i] = late[i]
      <4>1. p1 \in Seq(Seq(Entry)) /\ late \in Seq(Seq(Entry))
        BY <1>10, <2>2, Zenon
      <4> QED
        BY <4>1, Concatenated
    <3> QED
      BY <2>3, <3>1, <3>2, Zenon
  <2>5. ps = p2 \o <<end>>
    BY <2>1, <2>3
  <2>6. p2 \o <<end>> \in Seq(Seq(Entry)) /\ Len(p2 \o <<end>>) = a + b + 2
        /\ (\A i \in 1..(a + 1 + b) : (p2 \o <<end>>)[i] = p2[i]) /\ (p2 \o <<end>>)[a + b + 2] = end
    <3>1. PICK z : z = <<end>>
      OBVIOUS
    <3>2. z \in Seq(Seq(Entry)) /\ Len(z) = 1 /\ z[1] = end
      BY <1>7, <3>1
    <3>3. /\ p2 \o z \in Seq(Seq(Entry)) /\ Len(p2 \o z) = a + 1 + b + 1
          /\ (\A i \in 1..(a + 1 + b) : (p2 \o z)[i] = p2[i]) /\ (p2 \o z)[a + 1 + b + 1] = end
      <4>1. 1 \in 1..Len(z)
        BY <3>2
      <4> QED
        <5>1. /\ p2 \o z \in Seq(Seq(Entry)) /\ Len(p2 \o z) = Len(p2) + Len(z)
              /\ \A i \in 1..Len(p2) : (p2 \o z)[i] = p2[i]
              /\ \A i \in 1..Len(z) : (p2 \o z)[Len(p2) + i] = z[i]
          <6>1. p2 \in Seq(Seq(Entry)) /\ z \in Seq(Seq(Entry))
            BY <2>4, <3>2, Zenon
          <6> QED
            BY <6>1, Concatenated
        <5>2. (p2 \o z)[Len(p2) + 1] = z[1]
          BY <4>1, <5>1, Zenon
        <5> QED
          BY <2>4, <3>2, <5>1, <5>2, Zenon
    <3>4. a + 1 + b + 1 = a + b + 2
      BY <1>4
    <3> QED
      BY <3>1, <3>3, <3>4
  <2> HIDE DEF ps
  <2> QED
    BY <1>4, <2>2, <2>4, <2>5, <2>6
<1> HIDE DEF ps
<1> DEFINE F == 1..a \cup {a + 1 + i : i \in 1..b}
           c == [i \in F |-> IF i <= a THEN t[i] ELSE u[i - a - 1]]
<1>12. /\ F \subseteq 1..(a + b + 2)
       /\ \A i \in 1..(a + b + 2) : i \in F \/ i = a + 1 \/ i = a + b + 2
       /\ \A i \in 1..a : i \in F /\ c[i] = t[i]
       /\ \A i \in 1..b : a + 1 + i \in F /\ c[a + 1 + i] = u[i]
       /\ \A i \in F : i \in 1..a \/ \E j \in 1..b : i = a + 1 + j
  <2>1. \A i \in 1..(a + b + 2) : i \in F \/ i = a + 1 \/ i = a + b + 2
    <3> SUFFICES ASSUME NEW i \in 1..(a + b + 2), i # a + 1, i # a + b + 2, i \notin 1..a PROVE i \in F
      OBVIOUS
    <3>1. i - a - 1 \in 1..b /\ i = a + 1 + (i - a - 1)
      BY <1>4
    <3> QED
      BY <3>1
  <2> QED
    BY <1>4, <2>1
<1> HIDE DEF F, c
<1>13. Carries(ps, F, c, rows)
  <2>1. ps \in Seq(Seq(Entry)) /\ F \subseteq 1..Len(ps)
    BY <1>11, <1>12
  <2>2. \A i \in 1..Len(ps) : i \notin F => \A q \in 1..Len(ps[i]) : ps[i][q].kind # "fact"
    BY <1>7, <1>11, <1>12
  <2>3. ASSUME NEW i \in F
        PROVE  c[i] \in DOMAIN rows /\ Closes(ps[i], Alerts!Line("fact", rows[c[i]].id))
    <3>1. CASE i \in 1..a
      <4>1. c[i] = t[i] /\ ps[i] = early[i] /\ t[i] \in DOMAIN rows
        BY <1>2, <1>4, <1>11, <1>12, <3>1
      <4>2. Closes(early[i], Alerts!Line("fact", rows[t[i]].id))
        BY <1>8, <3>1
      <4> QED
        BY <4>1, <4>2
    <3>2. CASE \E j \in 1..b : i = a + 1 + j
      <4>1. PICK j \in 1..b : i = a + 1 + j
        BY <3>2
      <4>2. c[i] = u[j] /\ ps[i] = late[j] /\ u[j] \in DOMAIN rows
        BY <1>2, <1>4, <1>11, <1>12, <4>1
      <4>3. Closes(late[j], Alerts!Line("fact", rows[u[j]].id))
        BY <1>9
      <4> QED
        BY <4>2, <4>3
    <3> QED
      BY <1>12, <3>1, <3>2
  <2>4. \A i \in 1..a, j \in 1..b : t[i] # u[j] /\ rows[u[j]].at = Alerts!Never /\ rows[t[i]].at # Alerts!Never
    BY <1>2, <1>3, <1>4
  <2>5. ASSUME NEW i \in F, NEW j \in F, c[i] = c[j] PROVE i = j
    BY <1>5, <1>12, <2>4, <2>5
  <2>6. ASSUME NEW x \in DOMAIN rows PROVE \E i \in F : c[i] = x
    <3>1. x \in T \/ x \in U
      BY <1>3
    <3>2. CASE x \in T
      BY <1>5, <1>12, <3>2
    <3>3. CASE x \in U
      <4>1. PICK j \in 1..b : u[j] = x
        BY <1>5, <3>3
      <4>2. a + 1 + j \in F /\ c[a + 1 + j] = u[j]
        BY <1>12
      <4> QED
        BY <4>1, <4>2
    <3> QED
      BY <3>1, <3>2, <3>3
  <2>7. ASSUME NEW i \in F, NEW j \in F, i < j, rows[c[j]].at # Alerts!Never
        PROVE  rows[c[i]].at # Alerts!Never /\ rows[c[i]].at <= rows[c[j]].at
    <3>1. j \in 1..a
      <4>1. ASSUME NEW k \in 1..b, j = a + 1 + k PROVE FALSE
        <5>1. c[j] = u[k] /\ u[k] \in U /\ u[k] \in DOMAIN rows
          BY <1>2, <1>4, <1>12, <4>1
        <5> QED
          BY <1>3, <2>7, <5>1
      <4> QED
        BY <1>12, <4>1
    <3>2. i \in 1..a
      BY <1>4, <1>12, <2>7, <3>1
    <3>3. <<t[i], t[j]>> \in Sooner(rows, T) /\ t[i] \in DOMAIN rows /\ t[j] \in DOMAIN rows /\ rows[t[i]].at # Alerts!Never
      BY <1>2, <1>3, <1>4, <1>5, <2>7, <3>1, <3>2
    <3> QED
      <4>1. c[i] = t[i] /\ c[j] = t[j]
        BY <1>12, <3>1, <3>2
      <4>2. rows[t[i]].at <= rows[t[j]].at
        BY <3>3 DEF Sooner, RowList
      <4> QED
        BY <3>3, <4>1, <4>2
  <2> QED
    BY <2>1, <2>2, <2>3, <2>5, <2>6, <2>7 DEF Carries
<1>14. Alerts!Tells(Flattened(ps), rows)
  BY <1>13, PiecesTell
<1> QED
  BY <1>1, <1>14 DEF ps

\* The rows of the leads that read the records are lists, each row once: those of
\* what is seen again at a place
LEMMA SightingRows ==
    ASSUME NEW records, AreRecords(records), NEW f \in Alerts!RecurringSightings(records)
    PROVE  RowList(f.rows)
<1> DEFINE F(about) == Alerts!ByTime(Alerts!Naming(records, about[1], about[2]))
           S == {p \in Alerts!AllOf(records, Alerts!Vehicles) \X Alerts!AllOf(records, Alerts!Places) :
                    Alerts!Cardinality(Alerts!Naming(records, p[1], p[2])) >= 3}
<1>1. Alerts!RecurringSightings(records) = {Alerts!Finding("RECURRING_VEHICLE_AT_LOCATION", about, F(about)) : about \in S}
  BY Zenon DEF Alerts!RecurringSightings
<1> HIDE DEF S, F
<1>2. PICK p \in S : f = Alerts!Finding("RECURRING_VEHICLE_AT_LOCATION", p, F(p))
  BY <1>1, Zenon
<1> DEFINE T == Alerts!Naming(records, p[1], p[2])
<1>3. f.rows = Alerts!ByTime(T)
  BY <1>2 DEF Alerts!Finding, F
<1>4. T \subseteq records
  BY DEF Alerts!Naming
<1> HIDE DEF T
<1>5. Numbered(T) /\ \A r \in T : r.at \in Nat
  BY <1>4, SomeRows DEF AreRecords
<1>6. Listed(T, InTime(T), Alerts!ByTime(T))
  BY <1>5, RowsInTime
<1> QED
  BY <1>3, <1>5, <1>6, ListedOnce

\* and those of a vehicle's corridor.
LEMMA CorridorRows ==
    ASSUME NEW records, AreRecords(records), NEW f \in Alerts!Corridors(records)
    PROVE  RowList(f.rows)
<1> DEFINE of(vehicle) == {r \in Alerts!Timed(records) : vehicle \in Alerts!ToSet(r.vehicles) /\ r.places # <<>>}
           F(vehicle) == Alerts!ByTime(of(vehicle))
           A(vehicle) == Len(Alerts!Route(F(vehicle)))
           S == {v \in Alerts!AllOf(records, Alerts!Vehicles) : Len(Alerts!Route(F(v))) >= 3}
<1>1. Alerts!Corridors(records) = {Alerts!Finding("VEHICLE_CORRIDOR", <<vehicle, A(vehicle)>>, F(vehicle)) : vehicle \in S}
  BY Zenon DEF Alerts!Corridors
<1>2. PICK v \in S : f = Alerts!Finding("VEHICLE_CORRIDOR", <<v, A(v)>>, F(v))
  <2> HIDE DEF A, F, S
  <2> QED
    BY <1>1, Zenon
<1> DEFINE T == of(v)
<1>3. f.rows = Alerts!ByTime(T)
  BY <1>2 DEF Alerts!Finding
<1>4. T \subseteq records
  BY DEF Alerts!Timed
<1> HIDE DEF T
<1>5. Numbered(T) /\ \A r \in T : r.at \in Nat
  BY <1>4, SomeRows DEF AreRecords
<1>6. Listed(T, InTime(T), Alerts!ByTime(T))
  BY <1>5, RowsInTime
<1> QED
  BY <1>3, <1>5, <1>6, ListedOnce

\* A lead is told from its rows: what is stored with it states every row once, those
\* with a time in its order and before those without.
THEOREM LeadsTellTheirRows ==
    ASSUME NEW relations, AreContacts(relations), NEW records, AreRecords(records), NEW window
    PROVE  Alerts!LeadsAreTold(relations, records, window)
<1>1. ASSUME NEW f \in Alerts!Findings(relations, records, window) PROVE RowList(f.rows)
  <2>1. CASE f \in Alerts!PreIncident(relations, window)
    BY <2>1, IncidentRows
  <2>2. CASE f \in Alerts!Bursts(relations)
    BY <2>2, BurstsAreFound
  <2>3. CASE f \in Alerts!RecurringSightings(records)
    BY <2>3, SightingRows
  <2>4. CASE f \in Alerts!Relays(relations)
    BY <2>4, RelaysAreFound
  <2>5. CASE f \in Alerts!Convergences(records)
    BY <2>5, ConvergesInTime
  <2>6. CASE f \in Alerts!Corridors(records)
    BY <2>6, CorridorRows
  <2>7. CASE f \in Alerts!Silences(relations)
    BY <2>7, SilencesAreReal
  <2>8. CASE f \in Alerts!SharedDevices(records)
    BY <2>8, DevicesAreShared
  <2> QED
    BY <1>1, <2>1, <2>2, <2>3, <2>4, <2>5, <2>6, <2>7, <2>8 DEF Alerts!Findings
<1>2. ASSUME NEW f \in Alerts!Findings(relations, records, window) PROVE Alerts!Tells(Alerts!Alert(f).sequence, f.rows)
  <2>1. Alerts!Alert(f).sequence = Alerts!Told(f.rows, f.rule \in Alerts!GapRules)
    BY DEF Alerts!Alert
  <2>2. (f.rule \in Alerts!GapRules) \in BOOLEAN
    OBVIOUS
  <2>3. RowList(f.rows)
    BY <1>1
  <2>4. Alerts!Tells(Alerts!Told(f.rows, f.rule \in Alerts!GapRules), f.rows)
    BY <2>2, <2>3, ToldTruly
  <2> QED
    BY <2>1, <2>4
<1> QED
  BY <1>2, Zenon DEF Alerts!LeadsAreTold

-------------------------------------------------------------------------------
\* Chains in a network

\* A graph of finitely many nodes; and whether a chain joins two of them.
Graph(g) == IsFiniteSet(g.nodes)
Joins(g, x, y) == \E e \in g.edges : e.ends = {x, y}
IsChain(g, c, k) ==
    /\ c \in [1..k -> g.nodes] /\ \A i, j \in 1..k : c[i] = c[j] => i = j
    /\ \A i \in 1..(k - 1) : Joins(g, c[i], c[i + 1])
Linked(g, x, y) == \E k \in Nat \ {0} : \E c : IsChain(g, c, k) /\ c[1] = x /\ c[k] = y

\* The chains that are looked for are all there are.
LEMMA ChainsAreChains ==
    ASSUME NEW g, Graph(g), NEW x, NEW y
    PROVE  /\ \A c : c \in Views!Chains(g, x, y) <=> \E k \in Nat \ {0} : IsChain(g, c, k) /\ c[1] = x /\ c[k] = y
           /\ Views!Chains(g, x, y) # {} <=> Linked(g, x, y)
<1> DEFINE n == Views!Cardinality(g.nodes)
<1>1. n = Cardinality(g.nodes) /\ n \in Nat
  BY SameCount, FS_CardinalityType DEF Graph
<1>2. Views!Chains(g, x, y) =
        {c \in UNION {[1..k -> g.nodes] : k \in 1..n} :
            /\ c[1] = x /\ c[Len(c)] = y /\ Views!IsInjective(c)
            /\ \A i \in 1..(Len(c) - 1) : \E e \in g.edges : e.ends = {c[i], c[i + 1]}}
  BY Zenon DEF Views!Chains
<1> HIDE DEF n
<1>3. ASSUME NEW c \in Views!Chains(g, x, y)
      PROVE  \E k \in Nat \ {0} : IsChain(g, c, k) /\ c[1] = x /\ c[k] = y
  <2>1. PICK k \in 1..n : c \in [1..k -> g.nodes]
    BY <1>2
  <2>2. Len(c) = k /\ k \in Nat \ {0} /\ DOMAIN c = 1..k
    BY <1>1, <2>1
  <2>3. /\ c[1] = x /\ c[Len(c)] = y /\ Views!IsInjective(c)
        /\ \A i \in 1..(Len(c) - 1) : \E e \in g.edges : e.ends = {c[i], c[i + 1]}
    BY <1>2
  <2>4. \A i, j \in 1..k : c[i] = c[j] => i = j
    BY <2>2, <2>3 DEF Views!IsInjective
  <2> QED
    BY <2>1, <2>2, <2>3, <2>4 DEF IsChain, Joins
<1>4. ASSUME NEW k \in Nat \ {0}, NEW c, IsChain(g, c, k), c[1] = x, c[k] = y
      PROVE  c \in Views!Chains(g, x, y)
  <2>1. /\ c \in [1..k -> g.nodes] /\ \A i, j \in 1..k : c[i] = c[j] => i = j
        /\ \A i \in 1..(k - 1) : \E e \in g.edges : e.ends = {c[i], c[i + 1]}
    BY <1>4 DEF IsChain, Joins
  <2>2. Len(c) = k /\ DOMAIN c = 1..k
    BY <2>1
  <2>3. Views!IsInjective(c)
    BY <2>1, <2>2 DEF Views!IsInjective
  <2>4. k <= n
    <3>1. c \in Injection(1..k, g.nodes)
      BY <2>1 DEF Injection, IsInjective
    <3>2. Cardinality(1..k) = k /\ IsFiniteSet(1..k)
      BY FS_Interval
    <3>3. Cardinality(1..k) <= Cardinality(g.nodes)
      BY <3>1, FS_Injection DEF Graph
    <3> QED
      BY <1>1, <3>2, <3>3
  <2>5. k \in 1..n
    BY <1>1, <2>4
  <2> QED
    BY <1>2, <1>4, <2>1, <2>2, <2>3, <2>5
<1>5. \A c : c \in Views!Chains(g, x, y) <=> \E k \in Nat \ {0} : IsChain(g, c, k) /\ c[1] = x /\ c[k] = y
  BY <1>3, <1>4
<1>6. Views!Chains(g, x, y) # {} <=> \E c : c \in Views!Chains(g, x, y)
  OBVIOUS
<1> QED
  BY <1>5, <1>6, Zenon DEF Linked

\* A node is linked to itself.
LEMMA LinkedToItself ==
    ASSUME NEW g, NEW x \in g.nodes
    PROVE  Linked(g, x, x)
<1> DEFINE c == [i \in 1..1 |-> x]
<1>1. IsChain(g, c, 1) /\ c[1] = x
  BY DEF IsChain
<1> HIDE DEF c
<1> QED
  BY <1>1 DEF Linked

\* Only nodes are linked.
LEMMA LinkedAreNodes ==
    ASSUME NEW g, NEW x, NEW y, Linked(g, x, y)
    PROVE  x \in g.nodes /\ y \in g.nodes
<1>1. PICK k \in Nat \ {0} : \E c : IsChain(g, c, k) /\ c[1] = x /\ c[k] = y
  BY DEF Linked
<1>2. PICK c : IsChain(g, c, k) /\ c[1] = x /\ c[k] = y
  BY <1>1
<1>3. 1 \in 1..k /\ k \in 1..k
  OBVIOUS
<1> QED
  BY <1>2, <1>3 DEF IsChain

\* A chain can be walked back.
LEMMA LinkedBack ==
    ASSUME NEW g, NEW x, NEW y, Linked(g, x, y)
    PROVE  Linked(g, y, x)
<1>1. PICK k \in Nat \ {0} : \E c : IsChain(g, c, k) /\ c[1] = x /\ c[k] = y
  BY DEF Linked
<1>2. PICK c : IsChain(g, c, k) /\ c[1] = x /\ c[k] = y
  BY <1>1
<1> DEFINE d == [i \in 1..k |-> c[k + 1 - i]]
<1>3. \A i \in 1..k : k + 1 - i \in 1..k
  OBVIOUS
<1>4. d \in [1..k -> g.nodes]
  BY <1>2, <1>3 DEF IsChain
<1>5. \A i, j \in 1..k : d[i] = d[j] => i = j
  <2> SUFFICES ASSUME NEW i \in 1..k, NEW j \in 1..k, d[i] = d[j] PROVE i = j
    OBVIOUS
  <2>1. c[k + 1 - i] = c[k + 1 - j]
    OBVIOUS
  <2>2. k + 1 - i = k + 1 - j
    BY <1>2, <1>3, <2>1 DEF IsChain
  <2> QED
    BY <2>2
<1>6. ASSUME NEW i \in 1..(k - 1) PROVE Joins(g, d[i], d[i + 1])
  <2>1. k - i \in 1..(k - 1) /\ i \in 1..k /\ i + 1 \in 1..k /\ k + 1 - (i + 1) = k - i /\ (k - i) + 1 = k + 1 - i
    OBVIOUS
  <2>2. d[i] = c[(k - i) + 1] /\ d[i + 1] = c[k - i]
    BY <2>1
  <2>3. Joins(g, c[k - i], c[(k - i) + 1])
    BY <1>2, <2>1 DEF IsChain
  <2> QED
    BY <2>2, <2>3 DEF Joins
<1>7. d[1] = y /\ d[k] = x
  <2>1. 1 \in 1..k /\ k \in 1..k /\ k + 1 - 1 = k /\ k + 1 - k = 1
    OBVIOUS
  <2> QED
    BY <1>2, <2>1
<1> HIDE DEF d
<1>8. IsChain(g, d, k)
  BY <1>4, <1>5, <1>6 DEF IsChain
<1> QED
  BY <1>7, <1>8 DEF Linked

\* A chain goes on over an edge, or ends earlier.
LEMMA LinkedOn ==
    ASSUME NEW g, NEW x, NEW y, Linked(g, x, y), NEW z \in g.nodes, Joins(g, y, z)
    PROVE  Linked(g, x, z)
<1>1. PICK k \in Nat \ {0} : \E c : IsChain(g, c, k) /\ c[1] = x /\ c[k] = y
  BY DEF Linked
<1>2. PICK c : IsChain(g, c, k) /\ c[1] = x /\ c[k] = y
  BY <1>1
<1>3. CASE \E i \in 1..k : c[i] = z
  <2>1. PICK i \in 1..k : c[i] = z
    BY <1>3
  <2> DEFINE d == [j \in 1..i |-> c[j]]
  <2>2. i \in Nat \ {0} /\ 1 \in 1..i /\ i \in 1..i /\ (\A j \in 1..i : j \in 1..k) /\ \A j \in 1..(i - 1) : j \in 1..(k - 1) /\ j \in 1..i /\ j + 1 \in 1..i
    OBVIOUS
  <2>3. d[1] = x /\ d[i] = z
    BY <1>2, <2>1, <2>2
  <2>4. IsChain(g, d, i)
    BY <1>2, <2>2 DEF IsChain
  <2> HIDE DEF d
  <2> QED
    BY <2>2, <2>3, <2>4 DEF Linked
<1>4. CASE \A i \in 1..k : c[i] # z
  <2> DEFINE d == [j \in 1..(k + 1) |-> IF j <= k THEN c[j] ELSE z]
  <2>1. /\ k + 1 \in Nat \ {0} /\ 1 \in 1..(k + 1) /\ k + 1 \in 1..(k + 1) /\ ~(k + 1 <= k) /\ 1 <= k
        /\ \A j \in 1..(k + 1) : IF j <= k THEN j \in 1..k ELSE j = k + 1
    OBVIOUS
  <2>2. d[1] = x /\ d[k + 1] = z
    BY <1>2, <2>1
  <2>3. d \in [1..(k + 1) -> g.nodes]
    BY <1>2, <2>1 DEF IsChain
  <2>4. \A i, j \in 1..(k + 1) : d[i] = d[j] => i = j
    BY <1>2, <1>4, <2>1 DEF IsChain
  <2>5. ASSUME NEW i \in 1..((k + 1) - 1) PROVE Joins(g, d[i], d[i + 1])
    <3>1. i \in 1..k /\ i <= k /\ i \in 1..(k + 1) /\ i + 1 \in 1..(k + 1) /\ (i # k => i \in 1..(k - 1) /\ i + 1 <= k)
          /\ (i = k => ~(i + 1 <= k))
      OBVIOUS
    <3>2. CASE i = k
      <4>1. d[i] = y /\ d[i + 1] = z
        BY <1>2, <3>1, <3>2
      <4> QED
        BY <4>1
    <3>3. CASE i # k
      <4>1. d[i] = c[i] /\ d[i + 1] = c[i + 1]
        BY <3>1, <3>3
      <4> QED
        BY <1>2, <3>1, <3>3, <4>1 DEF IsChain
    <3> QED
      BY <3>2, <3>3
  <2> HIDE DEF d
  <2>6. IsChain(g, d, k + 1)
    BY <2>3, <2>4, <2>5 DEF IsChain
  <2> QED
    BY <2>1, <2>2, <2>6 DEF Linked
<1> QED
  BY <1>3, <1>4

\* What the edges do not leave holds every chain that begins in it.
Closed(g, C) == \A y \in C : \A z \in g.nodes : Joins(g, y, z) => z \in C

\* No chain leaves a set that is closed under joining.
LEMMA LinkedWithin ==
    ASSUME NEW g, NEW C, Closed(g, C), NEW x \in C, NEW y, Linked(g, x, y)
    PROVE  y \in C
<1>1. PICK k \in Nat \ {0} : \E c : IsChain(g, c, k) /\ c[1] = x /\ c[k] = y
  BY DEF Linked
<1>2. PICK c : IsChain(g, c, k) /\ c[1] = x /\ c[k] = y
  BY <1>1
<1> SUFFICES ASSUME y \notin C PROVE FALSE
  OBVIOUS
<1> DEFINE out == {i \in 1..k : c[i] \notin C}
<1>3. out \subseteq Nat /\ out # {}
  BY <1>2
<1>4. PICK i \in out : \A j \in out : i <= j
  <2> HIDE DEF out
  <2> QED
    BY <1>3, LeastNumber
<1>5. i \in 1..k /\ c[i] \notin C
  OBVIOUS
<1>6. i # 1
  BY <1>2, <1>5
<1>7. i - 1 \in 1..k /\ i - 1 \in 1..(k - 1) /\ (i - 1) + 1 = i /\ ~(i <= i - 1)
  BY <1>5, <1>6
<1>8. c[i - 1] \in C
  BY <1>4, <1>7
<1>9. Joins(g, c[i - 1], c[i]) /\ c[i] \in g.nodes
  BY <1>2, <1>5, <1>7 DEF IsChain
<1> QED
  BY <1>5, <1>8, <1>9 DEF Closed

\* Links compose.
LEMMA LinkedThrough ==
    ASSUME NEW g, NEW x, NEW y, NEW z, Linked(g, x, y), Linked(g, y, z)
    PROVE  Linked(g, x, z)
<1> DEFINE C == {w \in g.nodes : Linked(g, x, w)}
<1>1. Closed(g, C)
  BY LinkedOn DEF Closed
<1>2. y \in C
  BY LinkedAreNodes
<1> HIDE DEF C
<1>3. z \in C
  BY <1>1, <1>2, LinkedWithin
<1> QED
  BY <1>3 DEF C

\* What joins two nodes of a part of a graph joins them in the graph.
LEMMA LinkedInMore ==
    ASSUME NEW g, NEW h, h.nodes \subseteq g.nodes, \A d \in h.edges : \E e \in g.edges : e.ends = d.ends,
           NEW x, NEW y, Linked(h, x, y)
    PROVE  Linked(g, x, y)
<1> DEFINE C == {w \in g.nodes : Linked(g, x, w)}
<1>1. x \in C
  BY LinkedAreNodes, LinkedToItself
<1>2. Closed(h, C)
  <2> SUFFICES ASSUME NEW w \in C, NEW z \in h.nodes, Joins(h, w, z) PROVE z \in C
    BY DEF Closed
  <2>1. Joins(g, w, z)
    BY DEF Joins
  <2> QED
    BY <2>1, LinkedOn
<1> HIDE DEF C
<1>3. y \in C
  BY <1>1, <1>2, LinkedWithin
<1> QED
  BY <1>3 DEF C

-------------------------------------------------------------------------------
\* Shortest paths

Weighed(g) == \A e \in g.edges : e.weight \in Nat

\* Every edge of a chain has a distance.
LEMMA DistanceIsNumber ==
    ASSUME NEW e, e.weight \in Nat
    PROVE  Views!Distance(e) \in Nat
<1> DEFINE T == {e.weight, 1}
           top == Views!Max(T)
<1>1. \E x \in T : \A y \in T : x >= y
  OBVIOUS
<1>2. top \in T /\ \A y \in T : top >= y
  <2> HIDE DEF T
  <2> QED
    BY <1>1 DEF Views!Max
<1>3. top \in Nat /\ top >= 1
  BY <1>2
<1>4. Views!Distance(e) = 6300 \div top
  BY DEF Views!Distance, Views!Scale
<1> HIDE DEF top
<1>5. \A n \in Nat : n >= 1 => 6300 \div n \in Nat
  OBVIOUS
<1> QED
  BY <1>3, <1>4, <1>5

\* Sums of numbers, one after the other.
Sums(k, d) == {f \in [0..k -> Nat] : \A i \in 0..k : f[i] = IF i = 0 THEN 0 ELSE f[i - 1] + d[i]}

\* Distances can be summed along a chain.
LEMMA SumsExist ==
    ASSUME NEW k \in Nat, NEW d \in [1..k -> Nat]
    PROVE  Sums(k, d) # {}
<1> DEFINE Bad == {n \in 0..k : Sums(n, d) = {}}
<1> SUFFICES ASSUME Sums(k, d) = {} PROVE FALSE
  OBVIOUS
<1>1. Bad \subseteq Nat /\ Bad # {}
  OBVIOUS
<1>2. PICK n \in Bad : \A m \in Bad : n <= m
  <2> HIDE DEF Bad
  <2> QED
    BY <1>1, LeastNumber
<1>3. n \in 0..k /\ Sums(n, d) = {}
  OBVIOUS
<1>4. CASE n = 0
  <2>1. [i \in 0..0 |-> 0] \in Sums(0, d)
    BY DEF Sums
  <2> QED
    BY <1>3, <1>4, <2>1
<1>5. CASE n # 0
  <2>1. n - 1 \in 0..k /\ n \in 1..k /\ ~(n <= n - 1) /\ n \in Nat
    BY <1>3, <1>5
  <2>2. Sums(n - 1, d) # {}
    BY <1>2, <2>1
  <2>3. PICK f \in [0..(n - 1) -> Nat] : \A i \in 0..(n - 1) : f[i] = IF i = 0 THEN 0 ELSE f[i - 1] + d[i]
    BY <2>2 DEF Sums
  <2> DEFINE h == [i \in 0..n |-> IF i = n THEN f[n - 1] + d[n] ELSE f[i]]
  <2>4. d[n] \in Nat /\ f[n - 1] \in Nat
    BY <2>1, <2>3
  <2>5. h \in [0..n -> Nat]
    BY <2>1, <2>3, <2>4
  <2>6. ASSUME NEW i \in 0..n PROVE h[i] = IF i = 0 THEN 0 ELSE h[i - 1] + d[i]
    <3>1. CASE i = n
      <4>1. i # 0 /\ i - 1 \in 0..n /\ i - 1 # n
        BY <2>1, <3>1
      <4>2. h[i - 1] = f[n - 1]
        BY <3>1, <4>1
      <4> QED
        BY <3>1, <4>1, <4>2
    <3>2. CASE i # n
      <4>1. i \in 0..(n - 1) /\ (i # 0 => i - 1 \in 0..n /\ i - 1 # n)
        BY <2>1, <3>2
      <4>2. h[i] = f[i] /\ (i # 0 => h[i - 1] = f[i - 1])
        BY <3>2, <4>1
      <4> QED
        BY <2>3, <4>1, <4>2
    <3> QED
      BY <3>1, <3>2
  <2> HIDE DEF h
  <2>7. h \in Sums(n, d)
    BY <2>5, <2>6 DEF Sums
  <2> QED
    BY <1>3, <2>7
<1> QED
  BY <1>4, <1>5

\* Every chain has a length.
LEMMA LengthIsNumber ==
    ASSUME NEW g, Weighed(g), NEW k \in Nat \ {0}, NEW c, IsChain(g, c, k)
    PROVE  Views!Length(g, c) \in Nat
<1> DEFINE links == Views!Links(g, c)
           n == k - 1
           d == [i \in 1..n |-> Views!Distance(links[i])]
           Body(f) == [i \in 0..n |-> IF i = 0 THEN 0 ELSE f[i - 1] + Views!Distance(links[i])]
           upto == CHOOSE f : f = Body(f)
<1>1. Len(c) = k /\ DOMAIN c = 1..k /\ n \in Nat
  BY DEF IsChain
<1>2. d \in [1..n -> Nat]
  <2> SUFFICES ASSUME NEW i \in 1..n PROVE Views!Distance(links[i]) \in Nat
    OBVIOUS
  <2>1. links[i] = CHOOSE e \in g.edges : e.ends = {c[i], c[i + 1]}
    BY <1>1 DEF Views!Links, Views!EdgeOf
  <2>2. \E e \in g.edges : e.ends = {c[i], c[i + 1]}
    BY DEF IsChain, Joins
  <2> HIDE DEF links
  <2>3. links[i] \in g.edges
    BY <2>1, <2>2
  <2> QED
    BY <2>3, DistanceIsNumber DEF Weighed
<1>3. Views!Length(g, c) = upto[n]
  <2>1. Views!Length(g, c) =
          (CHOOSE f : f = [i \in 0..(Len(c) - 1) |-> IF i = 0 THEN 0 ELSE f[i - 1] + Views!Distance(Views!Links(g, c)[i])])[Len(c) - 1]
    BY DEF Views!Length
  <2> QED
    BY <1>1, <2>1, Zenon
<1> HIDE DEF links, n, upto
<1>4. PICK f \in [0..n -> Nat] : \A i \in 0..n : f[i] = IF i = 0 THEN 0 ELSE f[i - 1] + d[i]
  <2> HIDE DEF d
  <2>1. Sums(n, d) # {}
    BY <1>1, <1>2, SumsExist
  <2>2. PICK f : f \in Sums(n, d)
    BY <2>1
  <2>3. f \in [0..n -> Nat] /\ \A i \in 0..n : f[i] = IF i = 0 THEN 0 ELSE f[i - 1] + d[i]
    BY <2>2 DEF Sums
  <2> QED
    BY <2>3
<1>5. f = Body(f)
  <2>1. \A i \in 0..n : i # 0 => d[i] = Views!Distance(links[i])
    BY <1>1
  <2>2. \A i \in 0..n : f[i] = IF i = 0 THEN 0 ELSE f[i - 1] + Views!Distance(links[i])
    <3> HIDE DEF d
    <3> QED
      BY <1>4, <2>1, Zenon
  <2>3. f = [i \in 0..n |-> f[i]]
    OBVIOUS
  <2> QED
    BY <2>2, <2>3, Zenon
<1>6. upto = Body(upto)
  <2> HIDE DEF Body
  <2> QED
    BY <1>5, Zenon DEF upto
<1>7. \A i \in 0..n : upto[i] = IF i = 0 THEN 0 ELSE upto[i - 1] + d[i]
  <2>1. \A h, i : i \in 0..n => Body(h)[i] = IF i = 0 THEN 0 ELSE h[i - 1] + Views!Distance(links[i])
    OBVIOUS
  <2>2. \A i \in 0..n : i # 0 => d[i] = Views!Distance(links[i])
    BY <1>1
  <2> HIDE DEF Body, d
  <2> QED
    BY <1>6, <2>1, <2>2, Zenon
<1> HIDE DEF Body, d
<1> DEFINE Wrong == {i \in 0..n : upto[i] \notin Nat}
<1>8. Wrong = {}
  <2> SUFFICES ASSUME Wrong # {} PROVE FALSE
    OBVIOUS
  <2>1. Wrong \subseteq Nat
    BY <1>1
  <2>2. PICK x \in Wrong : \A y \in Wrong : x <= y
    <3> HIDE DEF Wrong
    <3> QED
      BY <2>1, LeastNumber
  <2>3. x \in 0..n /\ upto[x] \notin Nat
    OBVIOUS
  <2>4. x # 0
    BY <1>7, <2>3
  <2>5. x - 1 \in 0..n /\ x \in 1..n /\ ~(x <= x - 1)
    BY <1>1, <2>3, <2>4
  <2>6. upto[x - 1] \in Nat
    BY <2>2, <2>5
  <2>7. upto[x] = upto[x - 1] + d[x] /\ d[x] \in Nat
    BY <1>2, <1>7, <2>3, <2>4, <2>5
  <2> QED
    BY <2>3, <2>6, <2>7
<1>9. n \in 0..n
  BY <1>1
<1> QED
  BY <1>3, <1>8, <1>9

\* A path is found exactly where a chain joins the two, and is one.
LEMMA PathIsFound ==
    ASSUME NEW g, Graph(g), NEW x, NEW y
    PROVE  /\ Views!ShortestPath(g, x, y).found \in BOOLEAN
           /\ Views!ShortestPath(g, x, y).found <=> Linked(g, x, y)
<1> DEFINE P == {x, y} \subseteq g.nodes /\ Views!Chains(g, x, y) # {}
<1>1. (P => Views!ShortestPath(g, x, y).found = TRUE) /\ (~P => Views!ShortestPath(g, x, y).found = FALSE)
  BY DEF Views!ShortestPath
<1>2. P <=> Linked(g, x, y)
  BY ChainsAreChains, LinkedAreNodes
<1> HIDE DEF P
<1>3. CASE P
  <2>1. Views!ShortestPath(g, x, y).found = TRUE
    BY <1>1, <1>3
  <2> QED
    BY <1>2, <1>3, <2>1
<1>4. CASE ~P
  <2>1. Views!ShortestPath(g, x, y).found = FALSE
    BY <1>1, <1>4
  <2> QED
    BY <1>2, <1>4, <2>1
<1> QED
  BY <1>3, <1>4

\* The path that is found between two linked nodes is a chain between them.
LEMMA PathIsChain ==
    ASSUME NEW g, Graph(g), Weighed(g), NEW x, NEW y, Linked(g, x, y)
    PROVE  \E k \in Nat \ {0} : LET c == Views!ShortestPath(g, x, y).nodes
                                IN  IsChain(g, c, k) /\ c[1] = x /\ c[k] = y /\ Len(c) = k
<1> DEFINE S == Views!Chains(g, x, y)
           best == CHOOSE c \in S : \A d \in S : Views!Length(g, c) <= Views!Length(g, d)
           L == {Views!Length(g, c) : c \in S}
<1>1. S # {} /\ {x, y} \subseteq g.nodes
  BY ChainsAreChains, LinkedAreNodes
<1>2. Views!ShortestPath(g, x, y).nodes = best
  BY <1>1 DEF Views!ShortestPath
<1>3. \A c \in S : Views!Length(g, c) \in Nat
  BY ChainsAreChains, LengthIsNumber
<1> HIDE DEF S
<1>4. best \in S
  <2>1. L \subseteq Nat /\ L # {}
    BY <1>1, <1>3
  <2>2. PICK l \in L : \A o \in L : l <= o
    <3> HIDE DEF L
    <3> QED
      BY <2>1, LeastNumber
  <2>3. \E c \in S : \A d \in S : Views!Length(g, c) <= Views!Length(g, d)
    BY <2>2
  <2> QED
    BY <2>3
<1> HIDE DEF best
<1>5. PICK k \in Nat \ {0} : IsChain(g, best, k) /\ best[1] = x /\ best[k] = y
  BY <1>4, ChainsAreChains DEF S
<1>6. Len(best) = k
  BY <1>5 DEF IsChain
<1> QED
  BY <1>2, <1>5, <1>6

\* An edge without which no path is left is on every path.
LEMMA EdgeOnPath ==
    ASSUME NEW g, Graph(g), Weighed(g), NEW e \in g.edges, NEW x, NEW y, Linked(g, x, y),
           ~Linked(Views!Unlinked(g, e), x, y)
    PROVE  \E i \in 1..(Len(Views!ShortestPath(g, x, y).nodes) - 1) :
               e.ends = {Views!ShortestPath(g, x, y).nodes[i], Views!ShortestPath(g, x, y).nodes[i + 1]}
<1> DEFINE c == Views!ShortestPath(g, x, y).nodes
           u == Views!Unlinked(g, e)
<1>1. PICK k \in Nat \ {0} : IsChain(g, c, k) /\ c[1] = x /\ c[k] = y /\ Len(c) = k
  BY PathIsChain
<1>2. u.nodes = g.nodes /\ u.edges = g.edges \ {e}
  <2>1. u = [g EXCEPT !.edges = g.edges \ {e}]
    BY DEF Views!Unlinked
  <2> QED
    BY <2>1
<1> HIDE DEF c, u
<1> SUFFICES ASSUME \A i \in 1..(k - 1) : e.ends # {c[i], c[i + 1]} PROVE FALSE
  BY <1>1 DEF c
<1>3. \A i \in 1..(k - 1) : Joins(u, c[i], c[i + 1])
  BY <1>1, <1>2 DEF IsChain, Joins
<1>4. IsChain(u, c, k)
  BY <1>1, <1>2, <1>3 DEF IsChain
<1>5. Linked(u, x, y)
  BY <1>1, <1>4 DEF Linked
<1> QED
  BY <1>5 DEF u

-------------------------------------------------------------------------------
\* Parts, fragile links and cut nodes

Proper(g) == \A d \in g.edges : \E x, y \in g.nodes : x # y /\ d.ends = {x, y}

\* What can be reached is what is linked.
LEMMA ReachIsLinked ==
    ASSUME NEW g, Graph(g), NEW x
    PROVE  /\ Views!Reach(g, x) = {m \in g.nodes : Linked(g, x, m)}
           /\ \A y : y \in Views!Reach(g, x) <=> Linked(g, x, y)
<1>1. \A m : Views!Chains(g, x, m) # {} <=> Linked(g, x, m)
  BY ChainsAreChains
<1>2. Views!Reach(g, x) = {m \in g.nodes : Linked(g, x, m)}
  BY <1>1 DEF Views!Reach
<1> QED
  BY <1>2, LinkedAreNodes

\* Linked nodes reach the same.
LEMMA SameReach ==
    ASSUME NEW g, Graph(g), NEW x, NEW y, Linked(g, x, y)
    PROVE  Views!Reach(g, x) = Views!Reach(g, y)
<1>1. \A m : Linked(g, x, m) <=> Linked(g, y, m)
  BY LinkedBack, LinkedThrough
<1> QED
  BY <1>1, ReachIsLinked

\* A network has finitely many parts.
LEMMA PartsAreFinite ==
    ASSUME NEW g, Graph(g)
    PROVE  IsFiniteSet(Views!Parts(g)) /\ Cardinality(Views!Parts(g)) \in Nat
<1> DEFINE f == [x \in g.nodes |-> Views!Reach(g, x)]
           P == Views!Parts(g)
<1>1. f = [x \in g.nodes |-> f[x]] /\ P = {f[x] : x \in g.nodes}
  BY DEF Views!Parts
<1> HIDE DEF f, P
<1>2. IsFiniteSet(P)
  BY <1>1, FiniteRange DEF Graph
<1> QED
  BY <1>2, FS_CardinalityType DEF P

\* Two nodes are in one part exactly when a chain joins them.
LEMMA PartsAreLinked ==
    ASSUME NEW g, Graph(g), NEW x \in g.nodes, NEW y \in g.nodes
    PROVE  (\E part \in Views!Parts(g) : {x, y} \subseteq part) <=> Linked(g, x, y)
<1>1. ASSUME NEW part \in Views!Parts(g), {x, y} \subseteq part PROVE Linked(g, x, y)
  <2>1. PICK z \in g.nodes : part = Views!Reach(g, z)
    BY DEF Views!Parts
  <2>2. Linked(g, z, x) /\ Linked(g, z, y)
    BY <1>1, <2>1, ReachIsLinked
  <2> QED
    BY <2>2, LinkedBack, LinkedThrough
<1>2. ASSUME Linked(g, x, y) PROVE \E part \in Views!Parts(g) : {x, y} \subseteq part
  <2>1. {x, y} \subseteq Views!Reach(g, x)
    BY <1>2, ReachIsLinked, LinkedToItself
  <2>2. Views!Reach(g, x) \in Views!Parts(g)
    BY DEF Views!Parts
  <2> QED
    BY <2>1, <2>2
<1> QED
  BY <1>1, <1>2

\* A bridge is all that joins its ends.
LEMMA BridgesPart ==
    ASSUME NEW g, Graph(g), Proper(g), DOMAIN g = {"nodes", "edges"}, NEW e \in Views!Bridges(g), NEW x, NEW y, e.ends = {x, y}
    PROVE  e \in g.edges /\ ~Linked(Views!Unlinked(g, e), x, y)
<1> DEFINE u == Views!Unlinked(g, e)
<1>1. e \in g.edges /\ Views!Cardinality(Views!Parts(u)) > Views!Cardinality(Views!Parts(g))
  BY DEF Views!Bridges
<1>2. u.nodes = g.nodes /\ u.edges = g.edges \ {e}
  <2>1. u = [g EXCEPT !.edges = g.edges \ {e}]
    BY DEF Views!Unlinked
  <2> QED
    BY <2>1
<1> HIDE DEF u
<1>3. Graph(u)
  BY <1>2 DEF Graph
<1> SUFFICES ASSUME Linked(u, x, y) PROVE FALSE
  BY <1>1 DEF u
<1>4. ASSUME NEW a, NEW b, Linked(u, a, b) PROVE Linked(g, a, b)
  BY <1>2, <1>4, LinkedInMore
<1>5. ASSUME NEW a, NEW b, Linked(g, a, b) PROVE Linked(u, a, b)
  <2> DEFINE C == {w \in u.nodes : Linked(u, a, w)}
  <2>1. a \in C
    BY <1>2, <1>5, LinkedAreNodes, LinkedToItself
  <2>2. Closed(g, C)
    <3> SUFFICES ASSUME NEW w \in C, NEW z \in g.nodes, Joins(g, w, z) PROVE z \in C
      BY DEF Closed
    <3>1. PICK d \in g.edges : d.ends = {w, z}
      BY DEF Joins
    <3>2. CASE d = e
      <4>1. {w, z} = {x, y}
        BY <3>1, <3>2
      <4>2. Linked(u, w, z)
        BY <4>1, LinkedBack, LinkedToItself, <1>2
      <4> QED
        BY <1>2, <4>2, LinkedThrough
    <3>3. CASE d # e
      <4>1. Joins(u, w, z)
        BY <1>2, <3>1, <3>3 DEF Joins
      <4> QED
        BY <1>2, <4>1, LinkedOn
    <3> QED
      BY <3>2, <3>3
  <2> HIDE DEF C
  <2>3. b \in C
    BY <1>5, <2>1, <2>2, LinkedWithin
  <2> QED
    BY <2>3 DEF C
<1>6. \A z : Views!Reach(u, z) = Views!Reach(g, z)
  <2> SUFFICES ASSUME NEW z PROVE Views!Reach(u, z) = Views!Reach(g, z)
    OBVIOUS
  <2>1. Views!Reach(u, z) = {m \in u.nodes : Linked(u, z, m)}
    BY <1>3, ReachIsLinked
  <2>2. Views!Reach(g, z) = {m \in g.nodes : Linked(g, z, m)}
    BY ReachIsLinked
  <2> QED
    BY <1>2, <1>4, <1>5, <2>1, <2>2
<1>7. Views!Parts(u) = Views!Parts(g)
  BY <1>2, <1>6 DEF Views!Parts
<1>8. Cardinality(Views!Parts(g)) \in Nat /\ Cardinality(Views!Parts(g)) > Cardinality(Views!Parts(g))
  BY <1>1, <1>7, PartsAreFinite, SameCount, Zenon
<1> QED
  BY <1>8

\* Neighbours are the other ends of edges.
LEMMA NeighboursAreJoined ==
    ASSUME NEW g, Graph(g), Proper(g), NEW n
    PROVE  /\ \A j \in Views!Neighbours(g, n) : j # n /\ j \in g.nodes /\ \E d \in g.edges : d.ends = {n, j}
           /\ IsFiniteSet(Views!Neighbours(g, n))
<1>1. ASSUME NEW j \in Views!Neighbours(g, n)
      PROVE  j # n /\ j \in g.nodes /\ \E d \in g.edges : d.ends = {n, j}
  <2>1. PICK d \in g.edges : n \in d.ends /\ j \in d.ends /\ j # n
    <3> DEFINE near == {d \in g.edges : n \in d.ends}
    <3>1. j \in (UNION {d.ends : d \in near}) \ {n}
      BY Zenon DEF Views!Neighbours
    <3> HIDE DEF near
    <3>2. PICK d \in near : j \in d.ends
      BY <3>1
    <3> QED
      BY <3>1, <3>2 DEF near
  <2>2. PICK x \in g.nodes, y \in g.nodes : x # y /\ d.ends = {x, y}
    BY DEF Proper
  <2>3. d.ends = {n, j} /\ j \in g.nodes
    BY <2>1, <2>2
  <2> QED
    BY <2>1, <2>3
<1>2. Views!Neighbours(g, n) \subseteq g.nodes
  BY <1>1
<1> QED
  BY <1>1, <1>2, FS_Subset DEF Graph

\* An end of a bridge that has another neighbour is a cut node.
LEMMA BridgeEndsCut ==
    ASSUME NEW g, Graph(g), Proper(g), DOMAIN g = {"nodes", "edges"}, NEW e \in Views!Bridges(g), NEW n \in e.ends,
           Views!Cardinality(Views!Neighbours(g, n)) > 1
    PROVE  n \in Views!CutNodes(g)
<1> DEFINE w == Views!Without(g, n)
           u == Views!Unlinked(g, e)
<1>1. e \in g.edges
  BY DEF Views!Bridges
<1>2. PICK k \in g.nodes : k # n /\ e.ends = {n, k} /\ n \in g.nodes
  <2>1. PICK x \in g.nodes, y \in g.nodes : x # y /\ e.ends = {x, y}
    BY <1>1 DEF Proper
  <2>2. CASE n = x
    BY <2>1, <2>2
  <2>3. CASE n = y
    BY <2>1, <2>3
  <2> QED
    BY <2>1, <2>2, <2>3
<1>3. ~Linked(u, n, k)
  BY <1>2, BridgesPart
<1>4. PICK j \in g.nodes : j # n /\ j # k /\ \E d \in g.edges : d.ends = {n, j}
  <2> DEFINE N == Views!Neighbours(g, n)
  <2>1. IsFiniteSet(N) /\ \A j \in N : j # n /\ j \in g.nodes /\ \E d \in g.edges : d.ends = {n, j}
    BY NeighboursAreJoined
  <2> HIDE DEF N
  <2>2. Cardinality(N) > 1 /\ Cardinality(N) \in Nat
    BY <2>1, SameCount, FS_CardinalityType DEF N
  <2>3. Cardinality(N) >= 2
    BY <2>2
  <2>4. PICK a \in N, b \in N : a # b
    BY <2>1, <2>3, TwoOrMore
  <2> QED
    BY <2>1, <2>4
<1>5. u.nodes = g.nodes /\ u.edges = g.edges \ {e}
  <2>1. u = [g EXCEPT !.edges = g.edges \ {e}]
    BY DEF Views!Unlinked
  <2> QED
    BY <2>1
<1>6. w.nodes = g.nodes \ {n} /\ w.edges = {d \in g.edges : n \notin d.ends}
  BY DEF Views!Without, Views!At
<1> HIDE DEF w, u
<1>7. Graph(w) /\ Graph(u)
  <2>1. IsFiniteSet(g.nodes \ {n})
    BY FS_RemoveElement, FS_Subset DEF Graph
  <2> QED
    BY <1>5, <1>6, <2>1 DEF Graph
<1>8. ~Linked(w, j, k)
  <2> SUFFICES ASSUME Linked(w, j, k) PROVE FALSE
    OBVIOUS
  <2>1. w.nodes \subseteq u.nodes /\ \A d \in w.edges : \E c \in u.edges : c.ends = d.ends
    BY <1>2, <1>5, <1>6
  <2>2. Linked(u, j, k)
    BY <2>1, LinkedInMore
  <2>3. Joins(u, n, j)
    <3>1. PICK d \in g.edges : d.ends = {n, j}
      BY <1>4
    <3>2. d # e
      BY <1>2, <1>4, <3>1
    <3> QED
      BY <1>5, <3>1, <3>2 DEF Joins
  <2>4. Linked(u, n, j)
    BY <1>2, <1>4, <1>5, <2>3, LinkedToItself, LinkedOn
  <2> QED
    BY <1>3, <2>2, <2>4, LinkedThrough
<1>9. ASSUME NEW a, NEW b, Linked(w, a, b) PROVE Linked(g, a, b)
  BY <1>6, <1>9, LinkedInMore
<1> DEFINE P == Views!Parts(w)
           Q == Views!Parts(g)
           f == [p \in P |-> Views!Reach(g, CHOOSE x \in p : TRUE)]
<1>10. ASSUME NEW x \in w.nodes
       PROVE  Views!Reach(w, x) \in P /\ x \in Views!Reach(w, x) /\ f[Views!Reach(w, x)] = Views!Reach(g, x)
  <2> DEFINE p == Views!Reach(w, x)
             y == CHOOSE z \in p : TRUE
  <2>1. p \in P
    BY DEF Views!Parts
  <2>2. x \in p
    BY <1>7, LinkedToItself, ReachIsLinked
  <2>3. f[p] = Views!Reach(g, y)
    BY <2>1
  <2> HIDE DEF p
  <2>4. y \in p
    BY <2>2
  <2> HIDE DEF y, f
  <2>5. Linked(w, x, y)
    BY <1>7, <2>4, ReachIsLinked DEF p
  <2>6. Views!Reach(g, x) = Views!Reach(g, y)
    BY <1>9, <2>5, SameReach
  <2> QED
    BY <2>1, <2>2, <2>3, <2>6 DEF p
<1>11. \A p \in P : \E x \in w.nodes : p = Views!Reach(w, x)
  BY DEF Views!Parts
<1>12. \A x \in w.nodes : Views!Reach(g, x) \in Q
  BY <1>6 DEF Views!Parts
<1>13. \A p \in P : f[p] \in Q
  <2> HIDE DEF f, P, Q
  <2> QED
    BY <1>10, <1>11, <1>12
<1>14. f = [p \in P |-> f[p]]
  OBVIOUS
<1>15. Linked(g, n, j) /\ Linked(g, n, k)
  <2>1. Joins(g, n, j) /\ Joins(g, n, k)
    BY <1>1, <1>2, <1>4 DEF Joins
  <2> QED
    BY <1>2, <1>4, <2>1, LinkedToItself, LinkedOn
<1>16. Views!Reach(g, n) = Views!Reach(g, j) /\ Views!Reach(g, n) = Views!Reach(g, k)
  BY <1>15, SameReach
<1>17. j \in w.nodes /\ k \in w.nodes
  BY <1>2, <1>4, <1>6
<1>18. \A q \in Q : \E p \in P : f[p] = q
  <2> SUFFICES ASSUME NEW q \in Q PROVE \E p \in P : f[p] = q
    OBVIOUS
  <2>1. PICK z \in g.nodes : q = Views!Reach(g, z)
    BY DEF Views!Parts
  <2> HIDE DEF f, P, Q
  <2>2. CASE z = n
    BY <1>10, <1>16, <1>17, <2>1, <2>2
  <2>3. CASE z # n
    <3>1. z \in w.nodes
      BY <1>6, <2>3
    <3> QED
      BY <1>10, <2>1, <3>1
  <2> QED
    BY <2>2, <2>3
<1> HIDE DEF f, P, Q
<1>19. f \in Surjection(P, Q)
  <2>1. f \in [P -> Q]
    BY <1>13, <1>14
  <2> QED
    BY <1>18, <2>1 DEF Surjection
<1>20. f \notin Injection(P, Q)
  <2>1. f[Views!Reach(w, j)] = f[Views!Reach(w, k)] /\ Views!Reach(w, j) \in P /\ Views!Reach(w, k) \in P
    BY <1>10, <1>16, <1>17
  <2>2. Views!Reach(w, j) # Views!Reach(w, k)
    BY <1>7, <1>8, <1>10, <1>17, ReachIsLinked
  <2> SUFFICES ASSUME f \in Injection(P, Q) PROVE FALSE
    OBVIOUS
  <2>3. \A a, b \in P : f[a] = f[b] => a = b
    BY DEF Injection, IsInjective
  <2> QED
    BY <2>1, <2>2, <2>3
<1>21. IsFiniteSet(P) /\ Cardinality(P) \in Nat /\ Cardinality(Q) \in Nat
  BY <1>7, PartsAreFinite DEF P, Q
<1>22. Cardinality(Q) <= Cardinality(P) /\ Cardinality(Q) # Cardinality(P)
  BY <1>19, <1>20, <1>21, FS_Surjection
<1>23. Cardinality(P) > Cardinality(Q)
  BY <1>21, <1>22
<1>24. Views!Cardinality(Views!Parts(Views!Without(g, n))) > Views!Cardinality(Views!Parts(g))
  BY <1>23, SameCount DEF P, Q, w
<1> QED
  BY <1>2, <1>24 DEF Views!CutNodes

-------------------------------------------------------------------------------
\* The network and the summary

\* The rows that make an edge, and the edge they make.
PairRows(rows, pair) == {e \in rows : Views!Ends(e) = pair}
EdgeFrom(rows, pair) ==
    [ends |-> pair, weight |-> Views!Max({e.weight : e \in PairRows(rows, pair)}),
     observations |-> Views!Cardinality(PairRows(rows, pair)),
     kinds |-> {e.kind : e \in PairRows(rows, pair)}, evidence |-> {e.evidence : e \in PairRows(rows, pair)}]
Standing(relations) == {r \in relations : r.status # "rejected"}

\* The weight of rows is that of one of them, and none weighs more.
LEMMA GreatestOfRows ==
    ASSUME NEW T, IsFiniteSet(T), T # {}, \A e \in T : e.weight \in Nat
    PROVE  /\ Views!Max({e.weight : e \in T}) \in Nat
           /\ \A e \in T : Views!Max({d.weight : d \in T}) >= e.weight
           /\ \E e \in T : Views!Max({d.weight : d \in T}) = e.weight
<1> DEFINE f == [e \in T |-> e.weight]
           W == {e.weight : e \in T}
<1>1. f = [e \in T |-> f[e]] /\ W = {f[e] : e \in T}
  OBVIOUS
<1>2. W \subseteq Nat /\ W # {} /\ (\A e \in T : e.weight \in W) /\ \A w \in W : \E e \in T : w = e.weight
  OBVIOUS
<1> HIDE DEF f, W
<1>3. IsFiniteSet(W)
  BY <1>1, FiniteRange
<1>4. PICK top \in W : \A y \in W : top >= y
  BY <1>2, <1>3, GreatestNumber
<1>5. Views!Max(W) \in W /\ \A y \in W : Views!Max(W) >= y
  BY <1>4 DEF Views!Max
<1>6. Views!Max(W) \in Nat /\ (\A e \in T : Views!Max(W) >= e.weight) /\ \E e \in T : Views!Max(W) = e.weight
  BY <1>2, <1>5
<1> QED
  BY <1>6 DEF W

\* The network: an edge for every pair a standing row states, made from those rows.
LEMMA NetworkIs ==
    ASSUME NEW relations, AreRelations(relations)
    PROVE  LET g == Views!Network(relations, 0, FALSE)
               rows == Standing(relations)
           IN  /\ g.nodes = UNION {Views!Ends(r) : r \in rows}
               /\ g.edges = {EdgeFrom(rows, pair) : pair \in {Views!Ends(r) : r \in rows}}
               /\ DOMAIN g = {"nodes", "edges"}
               /\ IsFiniteSet(rows)
<1> DEFINE g == Views!Network(relations, 0, FALSE)
           rows == Standing(relations)
           kept == Views!Kept(relations, 0, FALSE)
<1>1. kept = rows
  BY DEF Views!Kept, Standing, AreRelations
<1>2. g = [nodes |-> UNION {Views!Ends(e) : e \in kept}, edges |-> Views!Collapsed(kept)]
  BY Zenon DEF Views!Network
<1>3. Views!Collapsed(kept) = {EdgeFrom(kept, pair) : pair \in {Views!Ends(r) : r \in kept}}
  BY Zenon DEF Views!Collapsed, EdgeFrom, PairRows
<1>4. IsFiniteSet(rows)
  BY FS_Subset DEF Standing, AreRelations, Numbered
<1> HIDE DEF g, kept, rows
<1>5. g.nodes = UNION {Views!Ends(e) : e \in kept} /\ g.edges = Views!Collapsed(kept) /\ DOMAIN g = {"nodes", "edges"}
  BY <1>2
<1> QED
  BY <1>1, <1>3, <1>4, <1>5, Zenon DEF g, rows

\* The network is a graph: every standing row is on an edge, every edge has standing rows.
LEMMA NetworkIsGraph ==
    ASSUME NEW relations, AreRelations(relations)
    PROVE  LET g == Views!Network(relations, 0, FALSE)
           IN  /\ Graph(g) /\ Proper(g) /\ Weighed(g) /\ DOMAIN g = {"nodes", "edges"}
               /\ \A n \in g.nodes : \E r \in Standing(relations) : n \in Views!Ends(r)
               /\ \A r \in Standing(relations) : EdgeFrom(Standing(relations), Views!Ends(r)) \in g.edges /\ Views!Ends(r) \subseteq g.nodes
               /\ \A e \in g.edges : \E r \in Standing(relations) : e = EdgeFrom(Standing(relations), Views!Ends(r))
<1> DEFINE g == Views!Network(relations, 0, FALSE)
           rows == Standing(relations)
<1>1. /\ g.nodes = UNION {Views!Ends(r) : r \in rows}
      /\ g.edges = {EdgeFrom(rows, pair) : pair \in {Views!Ends(r) : r \in rows}}
      /\ DOMAIN g = {"nodes", "edges"} /\ IsFiniteSet(rows)
  BY NetworkIs
<1>2. \A r \in rows : r \in relations /\ r.from # r.to /\ r.weight \in Nat
  BY DEF Standing, AreRelations
<1> HIDE DEF g, rows
<1>3. Graph(g)
  <2> DEFINE f == [r \in rows |-> Views!Ends(r)]
             E == {Views!Ends(r) : r \in rows}
  <2>1. f = [r \in rows |-> f[r]] /\ E = {f[r] : r \in rows} /\ \A T \in E : \E r \in rows : T = Views!Ends(r)
    OBVIOUS
  <2>2. \A r \in rows : IsFiniteSet(Views!Ends(r))
    BY OfThree DEF Views!Ends
  <2> HIDE DEF f, E
  <2>3. IsFiniteSet(E) /\ \A T \in E : IsFiniteSet(T)
    BY <1>1, <2>1, <2>2, FiniteRange
  <2>4. IsFiniteSet(UNION E)
    BY <2>3, FS_UNION
  <2> QED
    BY <1>1, <2>4 DEF Graph, E
<1>4. \A r \in rows : EdgeFrom(rows, Views!Ends(r)) \in g.edges /\ Views!Ends(r) \subseteq g.nodes
  <2> SUFFICES ASSUME NEW r \in rows PROVE EdgeFrom(rows, Views!Ends(r)) \in g.edges /\ Views!Ends(r) \subseteq g.nodes
    OBVIOUS
  <2>1. Views!Ends(r) \in {Views!Ends(q) : q \in rows}
    OBVIOUS
  <2>2. EdgeFrom(rows, Views!Ends(r)) \in g.edges
    BY <1>1, <2>1, Zenon
  <2>3. Views!Ends(r) \subseteq g.nodes
    BY <1>1, <2>1
  <2> QED
    BY <2>2, <2>3
<1>5. \A e \in g.edges : \E r \in rows : e = EdgeFrom(rows, Views!Ends(r))
  <2> SUFFICES ASSUME NEW e \in g.edges PROVE \E r \in rows : e = EdgeFrom(rows, Views!Ends(r))
    OBVIOUS
  <2>1. PICK pair \in {Views!Ends(q) : q \in rows} : e = EdgeFrom(rows, pair)
    BY <1>1, Zenon
  <2> QED
    BY <2>1
<1>6. \A n \in g.nodes : \E r \in rows : n \in Views!Ends(r)
  BY <1>1
<1>7. ASSUME NEW e \in g.edges
      PROVE  (\E x, y \in g.nodes : x # y /\ e.ends = {x, y}) /\ e.weight \in Nat
  <2>1. PICK r \in rows : e = EdgeFrom(rows, Views!Ends(r))
    BY <1>5
  <2> DEFINE T == PairRows(rows, Views!Ends(r))
  <2>2. e.ends = Views!Ends(r) /\ e.weight = Views!Max({d.weight : d \in T})
    BY <2>1 DEF EdgeFrom
  <2>3. r \in T /\ T \subseteq rows
    BY DEF PairRows
  <2> HIDE DEF T
  <2>4. IsFiniteSet(T)
    BY <1>1, <2>3, FS_Subset
  <2>5. Views!Max({d.weight : d \in T}) \in Nat
    BY <1>2, <2>3, <2>4, GreatestOfRows
  <2>6. r.from \in g.nodes /\ r.to \in g.nodes /\ Views!Ends(r) = {r.from, r.to}
    BY <1>4 DEF Views!Ends
  <2> QED
    BY <1>2, <2>2, <2>5, <2>6
<1> QED
  BY <1>1, <1>3, <1>4, <1>5, <1>6, <1>7 DEF Proper, Weighed, g, rows

\* An entry of the summary is made from the rows of its kind between its two.
KeyOf(e) == <<e.kind, e.from, e.to>>
KeyRows(relations, key) == {e \in relations : KeyOf(e) = key}

\* The summary has one entry for the rows of each key.
LEMMA EntriesAre ==
    ASSUME NEW relations
    PROVE  /\ \A s \in Views!Summary(relations) : \E r \in relations : s = Views!Entry(KeyRows(relations, KeyOf(r)))
           /\ \A r \in relations : Views!Entry(KeyRows(relations, KeyOf(r))) \in Views!Summary(relations)
           /\ \A r \in relations : LET s == Views!Entry(KeyRows(relations, KeyOf(r)))
                                   IN  /\ s.kind = r.kind /\ s.from = r.from /\ s.to = r.to /\ Views!Ends(s) = Views!Ends(r)
                                       /\ s.observations = {e.id : e \in KeyRows(relations, KeyOf(r))}
                                       /\ s.evidence = {e.evidence : e \in KeyRows(relations, KeyOf(r))}
                                       /\ s.weight = Views!Max({e.weight : e \in KeyRows(relations, KeyOf(r))})
                                       /\ s.status = Views!Ruling(KeyRows(relations, KeyOf(r)))
<1> DEFINE keys == {KeyOf(e) : e \in relations}
<1>1. Views!Summary(relations) = {Views!Entry(KeyRows(relations, key)) : key \in keys}
  BY Zenon DEF Views!Summary, KeyRows, KeyOf
<1>2. \A k \in keys : \E r \in relations : k = KeyOf(r)
  OBVIOUS
<1>3. \A r \in relations : KeyOf(r) \in keys
  OBVIOUS
<1> HIDE DEF keys
<1>4. \A s \in Views!Summary(relations) : \E r \in relations : s = Views!Entry(KeyRows(relations, KeyOf(r)))
  <2> SUFFICES ASSUME NEW s \in Views!Summary(relations)
               PROVE  \E r \in relations : s = Views!Entry(KeyRows(relations, KeyOf(r)))
    OBVIOUS
  <2>1. PICK key \in keys : s = Views!Entry(KeyRows(relations, key))
    BY <1>1, Zenon
  <2> QED
    BY <1>2, <2>1
<1>5. \A r \in relations : Views!Entry(KeyRows(relations, KeyOf(r))) \in Views!Summary(relations)
  BY <1>1, <1>3, Zenon
<1>6. ASSUME NEW r \in relations
      PROVE  LET s == Views!Entry(KeyRows(relations, KeyOf(r)))
             IN  /\ s.kind = r.kind /\ s.from = r.from /\ s.to = r.to /\ Views!Ends(s) = Views!Ends(r)
                 /\ s.observations = {e.id : e \in KeyRows(relations, KeyOf(r))}
                 /\ s.evidence = {e.evidence : e \in KeyRows(relations, KeyOf(r))}
                 /\ s.weight = Views!Max({e.weight : e \in KeyRows(relations, KeyOf(r))})
                 /\ s.status = Views!Ruling(KeyRows(relations, KeyOf(r)))
  <2> DEFINE T == KeyRows(relations, KeyOf(r))
             one == CHOOSE e \in T : TRUE
  <2>1. r \in T /\ \A e \in T : e.kind = r.kind /\ e.from = r.from /\ e.to = r.to
    BY DEF KeyRows, KeyOf
  <2> HIDE DEF T
  <2>2. one \in T
    BY <2>1
  <2>3. Views!Entry(T) = [kind |-> one.kind, from |-> one.from, to |-> one.to,
         observations |-> {e.id : e \in T},
         evidence |-> {e.evidence : e \in T},
         weight |-> Views!Max({e.weight : e \in T}),
         status |-> Views!Ruling(T),
         span |-> Views!Span({e.at : e \in T} \ {0})]
    BY Zenon DEF Views!Entry
  <2>4. one.kind = r.kind /\ one.from = r.from /\ one.to = r.to
    BY <2>1, <2>2
  <2> HIDE DEF one
  <2> DEFINE s == Views!Entry(T)
  <2> HIDE DEF s
  <2>5. /\ s.kind = one.kind /\ s.from = one.from /\ s.to = one.to
        /\ s.observations = {e.id : e \in T} /\ s.evidence = {e.evidence : e \in T}
        /\ s.weight = Views!Max({e.weight : e \in T}) /\ s.status = Views!Ruling(T)
    BY <2>3 DEF s
  <2>6. Views!Ends(s) = Views!Ends(r)
    BY <2>4, <2>5 DEF Views!Ends
  <2> QED
    BY <2>4, <2>5, <2>6, Zenon DEF s, T
<1> QED
  BY <1>4, <1>5, <1>6

\* An entry that stands is an edge of the network a reader analyses.
LEMMA EntriesAreEdges ==
    ASSUME NEW relations, AreRelations(relations), NEW s \in Views!Summary(relations), s.status # "rejected"
    PROVE  \E e \in Views!Network(relations, 0, FALSE).edges :
               /\ e.ends = Views!Ends(s) /\ s.kind \in e.kinds
               /\ (\A r \in relations : r.id \in s.observations => r.status # "rejected")
                   => e.weight >= s.weight /\ s.evidence \subseteq e.evidence
<1> DEFINE g == Views!Network(relations, 0, FALSE)
           rows == Standing(relations)
<1>1. PICK r \in relations : s = Views!Entry(KeyRows(relations, KeyOf(r)))
  BY EntriesAre
<1> DEFINE T == KeyRows(relations, KeyOf(r))
<1>2. /\ s.kind = r.kind /\ Views!Ends(s) = Views!Ends(r)
      /\ s.observations = {e.id : e \in T} /\ s.evidence = {e.evidence : e \in T}
      /\ s.weight = Views!Max({e.weight : e \in T}) /\ s.status = Views!Ruling(T)
  BY <1>1, EntriesAre
<1>3. r \in T /\ T \subseteq relations /\ \A e \in T : Views!Ends(e) = Views!Ends(r) /\ e.kind = r.kind
  BY DEF KeyRows, KeyOf, Views!Ends
<1> HIDE DEF T
<1>4. PICK k \in T : k \in rows
  <2>1. "human_verified" \in {e.status : e \in T} \/ "rejected" \notin {e.status : e \in T}
    BY <1>2 DEF Views!Ruling
  <2>2. CASE "human_verified" \in {e.status : e \in T}
    <3>1. PICK e \in T : e.status = "human_verified"
      BY <2>2
    <3> QED
      BY <1>3, <3>1 DEF Standing
  <2>3. CASE "rejected" \notin {e.status : e \in T}
    BY <1>3, <2>3 DEF Standing
  <2> QED
    BY <2>1, <2>2, <2>3
<1> DEFINE all == PairRows(rows, Views!Ends(r))
           e == EdgeFrom(rows, Views!Ends(r))
<1>5. e \in g.edges
  <2>1. Views!Ends(k) = Views!Ends(r)
    BY <1>3
  <2>2. EdgeFrom(rows, Views!Ends(k)) \in g.edges
    BY <1>4, NetworkIsGraph
  <2> HIDE DEF g, rows
  <2> QED
    BY <2>1, <2>2
<1>6. e.ends = Views!Ends(r) /\ e.kinds = {d.kind : d \in all} /\ e.evidence = {d.evidence : d \in all}
      /\ e.weight = Views!Max({d.weight : d \in all})
  BY DEF EdgeFrom
<1>7. k \in all /\ all \subseteq relations
  BY <1>3, <1>4 DEF PairRows, Standing
<1>8. IsFiniteSet(all) /\ IsFiniteSet(T) /\ \A d \in relations : d.weight \in Nat
  <2>1. IsFiniteSet(relations) /\ \A d \in relations : d.weight \in Nat
    BY DEF AreRelations, Numbered
  <2> HIDE DEF all
  <2> QED
    BY <1>3, <1>7, <2>1, FS_Subset
<1>9. ASSUME \A d \in relations : d.id \in s.observations => d.status # "rejected"
      PROVE  e.weight >= s.weight /\ s.evidence \subseteq e.evidence
  <2>1. T \subseteq all
    <3> SUFFICES ASSUME NEW d \in T PROVE d \in all
      OBVIOUS
    <3>1. d \in relations /\ d.id \in s.observations
      BY <1>2, <1>3
    <3>2. d \in rows
      BY <1>9, <3>1 DEF Standing
    <3> QED
      BY <1>3, <3>2 DEF PairRows
  <2> HIDE DEF all, e, rows, g
  <2>2. s.evidence \subseteq e.evidence
    BY <1>2, <1>6, <2>1
  <2>3. PICK d \in T : s.weight = d.weight
    BY <1>2, <1>3, <1>8, GreatestOfRows
  <2>4. e.weight >= d.weight
    BY <1>6, <1>7, <1>8, <2>1, GreatestOfRows
  <2> QED
    BY <2>2, <2>3, <2>4
<1>10. e.ends = Views!Ends(s) /\ s.kind \in e.kinds
  <2> HIDE DEF all, e
  <2>1. k.kind = s.kind
    BY <1>2, <1>3, <1>4
  <2> QED
    BY <1>2, <1>6, <1>7, <2>1
<1> HIDE DEF e, g
<1> QED
  BY <1>5, <1>9, <1>10 DEF g

\* An edge has the rows that stand, and no file that no entry has.
LEMMA EdgesAreEntries ==
    ASSUME NEW relations, AreRelations(relations), NEW e \in Views!Network(relations, 0, FALSE).edges
    PROVE  /\ e.evidence \subseteq UNION {s.evidence : s \in {t \in Views!Summary(relations) : Views!Ends(t) = e.ends}}
           /\ e.observations = Views!Cardinality({r \in relations : Views!Ends(r) = e.ends /\ r.status # "rejected"})
<1> DEFINE rows == Standing(relations)
<1>1. PICK r \in rows : e = EdgeFrom(rows, Views!Ends(r))
  BY NetworkIsGraph
<1> DEFINE all == PairRows(rows, Views!Ends(r))
<1>2. e.ends = Views!Ends(r) /\ e.evidence = {d.evidence : d \in all} /\ e.observations = Views!Cardinality(all)
  BY <1>1 DEF EdgeFrom
<1>3. all = {d \in relations : Views!Ends(d) = Views!Ends(r) /\ d.status # "rejected"}
  BY DEF PairRows, Standing
<1>4. ASSUME NEW d \in all
      PROVE  \E s \in Views!Summary(relations) : Views!Ends(s) = e.ends /\ d.evidence \in s.evidence
  <2>1. d \in relations /\ Views!Ends(d) = e.ends
    BY <1>2, <1>3
  <2> DEFINE T == KeyRows(relations, KeyOf(d))
             s == Views!Entry(T)
  <2>2. s \in Views!Summary(relations) /\ Views!Ends(s) = Views!Ends(d) /\ s.evidence = {c.evidence : c \in T}
    BY <2>1, EntriesAre
  <2>3. d \in T
    BY <2>1 DEF KeyRows
  <2> HIDE DEF s, T
  <2> QED
    BY <2>1, <2>2, <2>3
<1>5. e.evidence \subseteq UNION {s.evidence : s \in {t \in Views!Summary(relations) : Views!Ends(t) = e.ends}}
  <2> HIDE DEF all
  <2> QED
    BY <1>2, <1>4
<1>6. e.observations = Views!Cardinality({d \in relations : Views!Ends(d) = e.ends /\ d.status # "rejected"})
  <2> HIDE DEF all
  <2>1. all = {d \in relations : Views!Ends(d) = e.ends /\ d.status # "rejected"}
    BY <1>2, <1>3
  <2> QED
    BY <1>2, <2>1, Zenon
<1> QED
  BY <1>5, <1>6

\* What is shown of a network agrees: the summary with the graph, the paths with the
\* parts, the fragile links with the paths and with the cut nodes.
THEOREM NetworkViewsAgree ==
    ASSUME NEW relations, AreRelations(relations)
    PROVE  Views!ViewsAgree(relations)
<1> DEFINE g == Views!Network(relations, 0, FALSE)
           entries == Views!Summary(relations)
<1>1. Graph(g) /\ Proper(g) /\ Weighed(g) /\ DOMAIN g = {"nodes", "edges"}
  BY NetworkIsGraph
<1>2. \A s \in entries : s.status # "rejected" =>
                \E e \in g.edges :
                    /\ e.ends = Views!Ends(s) /\ s.kind \in e.kinds
                    /\ (\A r \in relations : r.id \in s.observations => r.status # "rejected")
                        => e.weight >= s.weight /\ s.evidence \subseteq e.evidence
  BY EntriesAreEdges
<1>3. \A e \in g.edges :
            /\ e.evidence \subseteq UNION {s.evidence : s \in {t \in entries : Views!Ends(t) = e.ends}}
            /\ e.observations = Views!Cardinality({r \in relations : Views!Ends(r) = e.ends /\ r.status # "rejected"})
  BY EdgesAreEntries
<1> HIDE DEF g, entries
<1>4. ASSUME NEW n \in g.nodes, NEW m \in g.nodes
      PROVE  /\ Views!ShortestPath(g, n, m).found = (\E part \in Views!Parts(g) : {n, m} \subseteq part)
             /\ \A e \in Views!Bridges(g) : (Views!ShortestPath(g, n, m).found /\ ~Views!ShortestPath(Views!Unlinked(g, e), n, m).found)
                    => \E i \in 1..(Len(Views!ShortestPath(g, n, m).nodes) - 1) :
                           e.ends = {Views!ShortestPath(g, n, m).nodes[i], Views!ShortestPath(g, n, m).nodes[i + 1]}
  <2>1. Views!ShortestPath(g, n, m).found = (\E part \in Views!Parts(g) : {n, m} \subseteq part)
    <3>1. Views!ShortestPath(g, n, m).found \in BOOLEAN /\ (Views!ShortestPath(g, n, m).found <=> Linked(g, n, m))
      BY <1>1, PathIsFound
    <3>2. (\E part \in Views!Parts(g) : {n, m} \subseteq part) <=> Linked(g, n, m)
      BY <1>1, PartsAreLinked
    <3> QED
      BY <3>1, <3>2
  <2>2. ASSUME NEW e \in Views!Bridges(g), Views!ShortestPath(g, n, m).found, ~Views!ShortestPath(Views!Unlinked(g, e), n, m).found
        PROVE  \E i \in 1..(Len(Views!ShortestPath(g, n, m).nodes) - 1) :
                           e.ends = {Views!ShortestPath(g, n, m).nodes[i], Views!ShortestPath(g, n, m).nodes[i + 1]}
    <3>1. e \in g.edges
      BY DEF Views!Bridges
    <3>2. Graph(Views!Unlinked(g, e))
      <4>1. Views!Unlinked(g, e) = [g EXCEPT !.edges = g.edges \ {e}]
        BY DEF Views!Unlinked
      <4>2. Views!Unlinked(g, e).nodes = g.nodes
        BY <1>1, <4>1
      <4> QED
        BY <1>1, <4>2 DEF Graph
    <3>3. Linked(g, n, m) /\ ~Linked(Views!Unlinked(g, e), n, m)
      BY <1>1, <2>2, <3>2, PathIsFound
    <3> QED
      BY <1>1, <3>1, <3>3, EdgeOnPath
  <2> QED
    BY <2>1, <2>2
<1>5. \A e \in Views!Bridges(g) : \A n \in e.ends : Views!Cardinality(Views!Neighbours(g, n)) > 1 => n \in Views!CutNodes(g)
  BY <1>1, BridgeEndsCut
<1> QED
  BY <1>2, <1>3, <1>4, <1>5, Zenon DEF Views!ViewsAgree, g, entries

-------------------------------------------------------------------------------
\* What a case rests on

\* The network, as the report and the request read it.
LEMMA SameNetworks ==
    /\ \A e : Asking!Ends(e) = Views!Ends(e)
    /\ \A rows, floor, verified : Asking!Network(rows, floor, verified) = Views!Network(rows, floor, verified)
    /\ \A g : Asking!Bridges(g) = Views!Bridges(g)
    /\ \A g, x, y : Asking!ShortestPath(g, x, y).found = Views!ShortestPath(g, x, y).found
<1>1. \A e : Asking!Ends(e) = Views!Ends(e)
  BY Zenon DEF Asking!Ends, Views!Ends
<1>2. \A rows : Asking!Collapsed(rows) = Views!Collapsed(rows)
  BY Zenon DEF Asking!Collapsed, Views!Collapsed, Asking!Ends, Views!Ends, Asking!Max, Views!Max, Asking!Cardinality, Views!Cardinality
<1>3. \A rows, floor, verified : Asking!Kept(rows, floor, verified) = Views!Kept(rows, floor, verified)
  BY Zenon DEF Asking!Kept, Views!Kept
<1>4. \A rows, floor, verified : Asking!Network(rows, floor, verified) = Views!Network(rows, floor, verified)
  <2> SUFFICES ASSUME NEW rows, NEW floor, NEW verified PROVE Asking!Network(rows, floor, verified) = Views!Network(rows, floor, verified)
    OBVIOUS
  <2>1. PICK kept : kept = Views!Kept(rows, floor, verified) /\ kept = Asking!Kept(rows, floor, verified)
    BY <1>3
  <2>2. Asking!Network(rows, floor, verified) = [nodes |-> UNION {Asking!Ends(e) : e \in kept}, edges |-> Asking!Collapsed(kept)]
    BY <2>1, Zenon DEF Asking!Network
  <2>3. Views!Network(rows, floor, verified) = [nodes |-> UNION {Views!Ends(e) : e \in kept}, edges |-> Views!Collapsed(kept)]
    BY <2>1, Zenon DEF Views!Network
  <2>4. {Asking!Ends(e) : e \in kept} = {Views!Ends(e) : e \in kept}
    BY <1>1
  <2> QED
    BY <1>2, <2>2, <2>3, <2>4, Zenon
<1>5. \A g, x, y : Asking!Chains(g, x, y) = Views!Chains(g, x, y)
  BY Zenon DEF Asking!Chains, Views!Chains, Asking!Cardinality, Views!Cardinality, Asking!IsInjective, Views!IsInjective
<1>6. \A g, x : Asking!Reach(g, x) = Views!Reach(g, x)
  BY <1>5 DEF Asking!Reach, Views!Reach
<1>7. \A g : Asking!Parts(g) = Views!Parts(g)
  BY <1>6 DEF Asking!Parts, Views!Parts
<1>8. \A g, e : Asking!Unlinked(g, e) = Views!Unlinked(g, e)
  BY Zenon DEF Asking!Unlinked, Views!Unlinked
<1>9. \A S : Asking!Cardinality(S) = Views!Cardinality(S)
  BY SameCount
<1>10. \A g : Asking!Bridges(g) = Views!Bridges(g)
  BY <1>7, <1>8, <1>9 DEF Asking!Bridges, Views!Bridges
<1>11. ASSUME NEW g, NEW x, NEW y PROVE Asking!ShortestPath(g, x, y).found = Views!ShortestPath(g, x, y).found
  <2> DEFINE P == {x, y} \subseteq g.nodes /\ Views!Chains(g, x, y) # {}
  <2>1. CASE P
    <3>1. Views!ShortestPath(g, x, y).found = TRUE
      BY <2>1 DEF Views!ShortestPath
    <3>2. Asking!ShortestPath(g, x, y).found = TRUE
      BY <1>5, <2>1 DEF Asking!ShortestPath
    <3> QED
      BY <3>1, <3>2
  <2>2. CASE ~P
    <3>1. Views!ShortestPath(g, x, y).found = FALSE
      BY <2>2 DEF Views!ShortestPath
    <3>2. Asking!ShortestPath(g, x, y).found = FALSE
      BY <1>5, <2>2 DEF Asking!ShortestPath
    <3> QED
      BY <3>1, <3>2
  <2> QED
    BY <2>1, <2>2
<1> QED
  BY <1>1, <1>4, <1>10, <1>11

\* The pairs a case rests on are those of its bridges.
LEMMA BearingPairs ==
    ASSUME NEW relations, AreRelations(relations), NEW pair \in Asking!LoadBearing(relations)
    PROVE  /\ \E r \in Standing(relations) : Views!Ends(r) = pair
           /\ \A x, y : pair = {x, y} /\ x # y =>
                ~Views!ShortestPath(Views!Network({r \in relations : Views!Ends(r) # {x, y}}, 0, FALSE), x, y).found
<1> DEFINE g == Views!Network(relations, 0, FALSE)
           rows == Standing(relations)
<1>1. PICK e \in Views!Bridges(g) : e.ends = pair
  <2>1. PICK bridges : bridges = Views!Bridges(g) /\ bridges = Asking!Bridges(g)
    BY SameNetworks, Zenon
  <2>2. Asking!FragileLinks(g) = {[ends |-> e.ends, evidence |-> e.evidence, weight |-> e.weight] : e \in bridges}
    BY <2>1, Zenon DEF Asking!FragileLinks
  <2>3. Asking!LoadBearing(relations) = {l.ends : l \in Asking!FragileLinks(g)}
    BY SameNetworks, Zenon DEF Asking!LoadBearing
  <2> HIDE DEF g
  <2>4. PICK l \in Asking!FragileLinks(g) : pair = l.ends
    BY <2>3, Zenon
  <2>5. PICK e \in bridges : l = [ends |-> e.ends, evidence |-> e.evidence, weight |-> e.weight]
    BY <2>2, Zenon
  <2> QED
    BY <2>1, <2>4, <2>5
<1>2. /\ Graph(g) /\ Proper(g) /\ DOMAIN g = {"nodes", "edges"}
      /\ \A r \in rows : EdgeFrom(rows, Views!Ends(r)) \in g.edges /\ Views!Ends(r) \subseteq g.nodes
      /\ \A d \in g.edges : \E r \in rows : d = EdgeFrom(rows, Views!Ends(r))
  BY NetworkIsGraph
<1> HIDE DEF g
<1>3. e \in g.edges
  BY DEF Views!Bridges
<1>4. \E r \in rows : Views!Ends(r) = pair
  <2>1. PICK r \in rows : e = EdgeFrom(rows, Views!Ends(r))
    BY <1>2, <1>3
  <2>2. e.ends = Views!Ends(r)
    BY <2>1 DEF EdgeFrom
  <2> QED
    BY <1>1, <2>2
<1>5. ASSUME NEW x, NEW y, pair = {x, y}, x # y
      PROVE  ~Views!ShortestPath(Views!Network({r \in relations : Views!Ends(r) # {x, y}}, 0, FALSE), x, y).found
  <2> DEFINE others == {r \in relations : Views!Ends(r) # {x, y}}
             h == Views!Network(others, 0, FALSE)
             left == Standing(others)
             u == Views!Unlinked(g, e)
  <2>1. AreRelations(others)
    <3>1. others \subseteq relations
      OBVIOUS
    <3> HIDE DEF others
    <3>2. Numbered(others)
      BY <3>1, SomeRows DEF AreRelations
    <3> QED
      BY <3>1, <3>2 DEF AreRelations
  <2>2. \A r \in left : r \in rows /\ Views!Ends(r) # {x, y}
    BY DEF Standing
  <2> HIDE DEF others
  <2>3. /\ Graph(h)
        /\ \A n \in h.nodes : \E r \in left : n \in Views!Ends(r)
        /\ \A d \in h.edges : \E r \in left : d = EdgeFrom(left, Views!Ends(r))
    BY <2>1, NetworkIsGraph
  <2> HIDE DEF h, left, rows
  <2>4. ~Linked(u, x, y)
    BY <1>1, <1>2, <1>5, BridgesPart
  <2>5. u.nodes = g.nodes /\ u.edges = g.edges \ {e}
    <3>1. u = [g EXCEPT !.edges = g.edges \ {e}]
      BY DEF Views!Unlinked
    <3> QED
      BY <1>2, <3>1
  <2> HIDE DEF u
  <2>6. h.nodes \subseteq u.nodes
    BY <1>2, <2>2, <2>3, <2>5
  <2>7. ASSUME NEW d \in h.edges PROVE \E c \in u.edges : c.ends = d.ends
    <3>1. PICK r \in left : d = EdgeFrom(left, Views!Ends(r))
      BY <2>3
    <3>2. d.ends = Views!Ends(r) /\ EdgeFrom(rows, Views!Ends(r)).ends = Views!Ends(r)
      BY <3>1 DEF EdgeFrom
    <3>3. EdgeFrom(rows, Views!Ends(r)) \in g.edges /\ Views!Ends(r) # {x, y}
      BY <1>2, <2>2
    <3>4. EdgeFrom(rows, Views!Ends(r)) # e
      BY <1>1, <1>5, <3>2, <3>3
    <3> QED
      BY <2>5, <3>2, <3>3, <3>4
  <2>8. ~Linked(h, x, y)
    BY <2>4, <2>6, <2>7, LinkedInMore
  <2>9. ~Views!ShortestPath(h, x, y).found
    BY <2>3, <2>8, PathIsFound
  <2> QED
    BY <2>9 DEF h, others
<1> QED
  BY <1>4, <1>5

-------------------------------------------------------------------------------
\* The order of findings and of requests

\* The places that ranks give are the list of the ranked.
LEMMA PlacesOfRanks ==
    ASSUME NEW S, NEW R, NEW rank, rank = Ranks(S, R),
           NEW o, o = [i \in 1..Cardinality(S) |-> CHOOSE x \in S : rank[x] = i - 1]
    PROVE  o = Ranked(S, R)
<1>1. Ranked(S, R) = [i \in 1..Cardinality(S) |-> CHOOSE x \in S : Ranks(S, R)[x] = i - 1]
  BY Zenon DEF Ranked
<1> QED
  BY <1>1

\* Whether a case rests on a relation, and the order a report numbers them in.
Bears(relations, r) == Asking!Ends(r) \in Asking!LoadBearing(relations)
ByBearing(relations) ==
    {p \in relations \X relations :
        \/ Bears(relations, p[1]) /\ ~Bears(relations, p[2])
        \/ Bears(relations, p[1]) = Bears(relations, p[2])
            /\ (p[1].weight > p[2].weight \/ (p[1].weight = p[2].weight /\ p[1].id < p[2].id))}

\* The findings are the relations in that order.
LEMMA FindingsAreListed ==
    ASSUME NEW relations, AreRelations(relations)
    PROVE  \E o : /\ Listed(relations, ByBearing(relations), o)
                  /\ Asking!NumberedFindings(relations)
                     = [i \in DOMAIN o |-> [relation |-> o[i], loadBearing |-> Bears(relations, o[i])]]
<1> DEFINE S == relations
           R == ByBearing(relations)
           fragile == Asking!LoadBearing(relations)
           bears(r) == Asking!Ends(r) \in fragile
           before(r, s) == \/ bears(r) /\ ~bears(s)
                           \/ bears(r) = bears(s) /\ (r.weight > s.weight \/ (r.weight = s.weight /\ r.id < s.id))
           rank == [x \in S |-> Asking!Cardinality({y \in S : before(y, x)})]
           o == [i \in 1..Asking!Cardinality(S) |-> CHOOSE x \in S : rank[x] = i - 1]
<1>1. Asking!NumberedFindings(relations) = [i \in DOMAIN o |-> [relation |-> o[i], loadBearing |-> bears(o[i])]]
  BY Zenon DEF Asking!NumberedFindings, Asking!InOrder
<1>2. IsFiniteSet(S) /\ \A r, s \in S : r.weight \in Nat /\ r.id \in Nat /\ (r.id = s.id => r = s)
  BY DEF AreRelations, Numbered
<1>3. \A x \in S : {y \in S : <<y, x>> \in R} = {y \in S : before(y, x)}
  BY DEF ByBearing, Bears
<1>4. Total(S, R)
  <2>1. \A x, y \in S : <<x, y>> \in R <=> before(x, y)
    BY DEF ByBearing, Bears
  <2> HIDE DEF R
  <2>2. PICK b : b = [x \in S |-> bears(x)]
    OBVIOUS
  <2>3. \A x, y \in S : <<x, y>> \in R <=>
          \/ b[x] /\ ~b[y]
          \/ b[x] = b[y] /\ (x.weight > y.weight \/ (x.weight = y.weight /\ x.id < y.id))
    BY <2>1, <2>2
  <2>4. \A x \in S : b[x] \in BOOLEAN
    BY <2>2
  <2> HIDE DEF S
  <2> QED
    BY <1>2, <2>3, <2>4 DEF Total
<1>5. o = Ranked(S, R)
  <2> HIDE DEF S, R, fragile
  <2>2. rank = Ranks(S, R)
    BY <1>3, SameCount DEF Ranks
  <2>3. Asking!Cardinality(S) = Cardinality(S)
    BY SameCount
  <2> HIDE DEF rank
  <2>4. o = [i \in 1..Cardinality(S) |-> CHOOSE x \in S : rank[x] = i - 1]
    BY <2>3, Zenon
  <2> HIDE DEF o
  <2> QED
    BY <2>2, <2>4, PlacesOfRanks
<1>6. Listed(S, R, o)
  <2> HIDE DEF S, R, o
  <2> QED
    BY <1>2, <1>4, <1>5, RankedList, Zenon
<1> HIDE DEF o
<1>7. Asking!NumberedFindings(relations) = [i \in DOMAIN o |-> [relation |-> o[i], loadBearing |-> Bears(relations, o[i])]]
  BY <1>1, Zenon DEF Bears
<1> QED
  BY <1>6, <1>7

\* A node is met first at one side of one relation, where no other is.
LEMMA NodesAreMet ==
    ASSUME NEW relations, AreRelations(relations),
           NEW n \in UNION {Asking!Ends(r) : r \in relations}, NEW m \in UNION {Asking!Ends(r) : r \in relations}
    PROVE  /\ Asking!Met(relations, n) \in Nat
           /\ Asking!Met(relations, n) = Asking!Met(relations, m) => n = m
<1> DEFINE At(x) == {2 * r.id : r \in {q \in relations : q.from = x}} \cup {2 * r.id + 1 : r \in {q \in relations : q.to = x}}
<1>1. ASSUME NEW x \in UNION {Asking!Ends(r) : r \in relations}
      PROVE  Asking!Met(relations, x) \in At(x) /\ At(x) \subseteq Nat
  <2>1. At(x) \subseteq Nat
    BY DEF AreRelations, Numbered
  <2>2. At(x) # {}
    BY DEF Asking!Ends
  <2> HIDE DEF At
  <2>3. \E i \in At(x) : \A j \in At(x) : i <= j
    BY <2>1, <2>2, LeastNumber
  <2>4. Asking!Met(relations, x) = Asking!Min(At(x))
    BY DEF Asking!Met, At
  <2> QED
    BY <2>1, <2>3, <2>4 DEF Asking!Min
<1>2. ASSUME Asking!Met(relations, n) = Asking!Met(relations, m) PROVE n = m
  <2>1. PICK i \in Nat : i \in At(n) /\ i \in At(m)
    BY <1>1, <1>2
  <2>2. PICK r \in relations : (i = 2 * r.id /\ r.from = n) \/ (i = 2 * r.id + 1 /\ r.to = n)
    BY <2>1
  <2>3. PICK s \in relations : (i = 2 * s.id /\ s.from = m) \/ (i = 2 * s.id + 1 /\ s.to = m)
    BY <2>1
  <2>4. r.id \in Nat /\ s.id \in Nat /\ (r.id = s.id => r = s)
    BY DEF AreRelations, Numbered
  <2> HIDE DEF At
  <2>5. r.id = s.id
    BY <2>2, <2>3, <2>4
  <2>6. (i = 2 * r.id /\ i = 2 * r.id + 1) <=> FALSE
    BY <2>4
  <2> QED
    BY <2>2, <2>3, <2>4, <2>5, <2>6
<1> QED
  BY <1>1, <1>2

\* What is asked about an identity, the identities asked about and their order.
Involving(relations, n) == {r \in relations : n \in Asking!Ends(r)}
SubjectOf(relations, name, n) ==
    [node |-> n, period |-> Asking!Period(Involving(relations, n)),
     evidence |-> {Asking!NameOf(r.evidence, name) : r \in Involving(relations, n)},
     loadBearing |-> \E r \in Involving(relations, n) : Bears(relations, r)]
Askable(relations, type) == {m \in UNION {Asking!Ends(r) : r \in relations} : type[m] \in Asking!Requestable}
Asked(relations, name, type) == {SubjectOf(relations, name, n) : n \in Askable(relations, type)}
AskedFirst(relations, asked, label) ==
    {p \in asked \X asked :
        \/ p[1].loadBearing /\ ~p[2].loadBearing
        \/ p[1].loadBearing = p[2].loadBearing
            /\ (Cardinality(p[1].evidence) > Cardinality(p[2].evidence)
                \/ (Cardinality(p[1].evidence) = Cardinality(p[2].evidence)
                    /\ \/ label[p[1].node] < label[p[2].node]
                       \/ label[p[1].node] = label[p[2].node]
                            /\ Asking!Met(relations, p[1].node) < Asking!Met(relations, p[2].node)))}

\* The subjects are the first of those in that order.
SubjectsAreFirst(relations, type, label, name, limit) ==
    \E o : /\ Listed(Asked(relations, name, type), AskedFirst(relations, Asked(relations, name, type), label), o)
           /\ Asking!Subjects(relations, type, label, name, limit) = SubSeq(o, 1, Asking!Min({limit, Len(o)}))

\* So they are, of any relations of a case.
LEMMA SubjectsAreListed ==
    ASSUME NEW relations, AreRelations(relations), NEW type, NEW label, NEW name, NEW limit,
           \A r \in relations : {r.from, r.to} \subseteq DOMAIN label,
           \A n \in DOMAIN label : label[n] \in Nat
    PROVE  SubjectsAreFirst(relations, type, label, name, limit)
<1> DEFINE S == Asked(relations, name, type)
           R == AskedFirst(relations, S, label)
           files(s) == Asking!Cardinality(s.evidence)
           sooner(s, t) == \/ label[s.node] < label[t.node]
                           \/ label[s.node] = label[t.node] /\ Asking!Met(relations, s.node) < Asking!Met(relations, t.node)
           before(s, t) == \/ s.loadBearing /\ ~t.loadBearing
                           \/ s.loadBearing = t.loadBearing
                                /\ (files(s) > files(t) \/ (files(s) = files(t) /\ sooner(s, t)))
           rank == [x \in S |-> Asking!Cardinality({y \in S : before(y, x)})]
           o == [i \in 1..Asking!Cardinality(S) |-> CHOOSE x \in S : rank[x] = i - 1]
<1>1. Asking!Subjects(relations, type, label, name, limit) = SubSeq(o, 1, Asking!Min({limit, Len(o)}))
  BY Zenon DEF Asking!Subjects, Asking!InOrder, Asked, Askable, SubjectOf, Involving, Bears
<1>2. \A s \in S : \E n \in Askable(relations, type) : s = SubjectOf(relations, name, n)
  BY DEF Asked
<1>3. \A x, y \in S : <<x, y>> \in R <=> before(x, y)
  BY SameCount DEF AskedFirst
<1>4. IsFiniteSet(S)
  <2> DEFINE N == Askable(relations, type)
             U == {Asking!Ends(r) : r \in relations}
             g == [n \in N |-> SubjectOf(relations, name, n)]
  <2>1. IsFiniteSet(UNION U)
    <3> DEFINE h == [r \in relations |-> Asking!Ends(r)]
    <3>1. h = [r \in relations |-> h[r]] /\ U = {h[r] : r \in relations}
      OBVIOUS
    <3>2. \A u \in U : IsFiniteSet(u)
      <4>1. \A r \in relations : IsFiniteSet(Asking!Ends(r))
        <5> TAKE r \in relations
        <5>1. IsFiniteSet({r.from}) /\ Asking!Ends(r) = {r.from} \cup {r.to}
          BY FS_Singleton DEF Asking!Ends
        <5> QED
          BY <5>1, FS_AddElement
      <4> QED
        BY <4>1
    <3> HIDE DEF h
    <3>3. IsFiniteSet(U)
      <4> HIDE DEF U
      <4> QED
        BY <3>1, FiniteRange DEF AreRelations, Numbered
    <3> HIDE DEF U
    <3> QED
      BY <3>2, <3>3, FS_UNION
  <2>2. IsFiniteSet(N)
    <3>1. N \subseteq UNION U
      BY DEF Askable
    <3> HIDE DEF N, U
    <3> QED
      BY <2>1, <3>1, FS_Subset
  <2>3. g = [n \in N |-> g[n]] /\ S = {g[n] : n \in N}
    BY DEF Asked
  <2> HIDE DEF g, N, S
  <2> QED
    BY <2>2, <2>3, FiniteRange
<1>5. \A s \in S : /\ Asking!Cardinality(s.evidence) \in Nat /\ label[s.node] \in Nat
                   /\ Asking!Met(relations, s.node) \in Nat /\ s.loadBearing \in BOOLEAN
                   /\ \A t \in S : Asking!Met(relations, s.node) = Asking!Met(relations, t.node) => s = t
  <2>1. \A n \in Askable(relations, type) : n \in DOMAIN label
    BY DEF Askable, Asking!Ends
  <2>2. ASSUME NEW n \in Askable(relations, type) PROVE Asking!Cardinality(SubjectOf(relations, name, n).evidence) \in Nat
    <3> DEFINE T == Involving(relations, n)
               g == [r \in T |-> Asking!NameOf(r.evidence, name)]
    <3>1. SubjectOf(relations, name, n).evidence = {g[r] : r \in T}
      BY DEF SubjectOf
    <3>2. g = [r \in T |-> g[r]]
      OBVIOUS
    <3>3. IsFiniteSet(T)
      BY FS_Subset DEF AreRelations, Numbered, Involving
    <3> HIDE DEF g, T
    <3> QED
      BY <3>1, <3>2, <3>3, FiniteRange, FS_CardinalityType, SameCount
  <2>3. \A n : SubjectOf(relations, name, n).node = n /\ SubjectOf(relations, name, n).loadBearing \in BOOLEAN
    BY DEF SubjectOf
  <2>4. \A n \in Askable(relations, type) : n \in UNION {Asking!Ends(r) : r \in relations}
    BY DEF Askable
  <2>5. \A n, m \in Askable(relations, type) :
            Asking!Met(relations, n) \in Nat /\ (Asking!Met(relations, n) = Asking!Met(relations, m) => n = m)
    BY <2>4, NodesAreMet
  <2> HIDE DEF S
  <2> QED
    BY <1>2, <2>1, <2>2, <2>3, <2>5
<1>6. Total(S, R)
  <2> HIDE DEF R, S
  <2>1. PICK f : f = [x \in S |-> files(x)]
    OBVIOUS
  <2>2. PICK k : k = [x \in S |-> label[x.node]]
    OBVIOUS
  <2>3. PICK m : m = [x \in S |-> Asking!Met(relations, x.node)]
    OBVIOUS
  <2>4. \A x \in S : f[x] \in Nat /\ k[x] \in Nat /\ m[x] \in Nat /\ x.loadBearing \in BOOLEAN
    BY <1>5, <2>1, <2>2, <2>3
  <2>5. \A x, y \in S : m[x] = m[y] => x = y
    BY <1>5, <2>3
  <2>6. \A x, y \in S : <<x, y>> \in R <=>
          \/ x.loadBearing /\ ~y.loadBearing
          \/ x.loadBearing = y.loadBearing
                /\ (f[x] > f[y] \/ (f[x] = f[y] /\ (k[x] < k[y] \/ (k[x] = k[y] /\ m[x] < m[y]))))
    BY <1>3, <2>1, <2>2, <2>3
  <2> QED
    BY <2>4, <2>5, <2>6 DEF Total
<1>7. o = Ranked(S, R)
  <2> HIDE DEF S, R
  <2>1. \A x \in S : {y \in S : <<y, x>> \in R} = {y \in S : before(y, x)}
    BY <1>3
  <2>2. rank = Ranks(S, R)
    BY <2>1, SameCount DEF Ranks
  <2>3. Asking!Cardinality(S) = Cardinality(S)
    BY SameCount
  <2> HIDE DEF rank
  <2>4. o = [i \in 1..Cardinality(S) |-> CHOOSE x \in S : rank[x] = i - 1]
    BY <2>3, Zenon
  <2> HIDE DEF o
  <2> QED
    BY <2>2, <2>4, PlacesOfRanks
<1>8. Listed(S, R, o)
  <2> HIDE DEF S, R, o
  <2> QED
    BY <1>4, <1>6, <1>7, RankedList, Zenon
<1> HIDE DEF o
<1> QED
  BY <1>1, <1>8 DEF SubjectsAreFirst

-------------------------------------------------------------------------------
\* Findings and periods

\* What a list of findings is, of the relations it numbers.
FindingsHold(relations) ==
    LET findings == Asking!NumberedFindings(relations)
    IN  /\ Len(findings) = Asking!Cardinality(relations) /\ {findings[i].relation : i \in DOMAIN findings} = relations
        /\ \A i \in DOMAIN findings :
            /\ findings[i].loadBearing =>
                /\ \E r \in Standing(relations) : Asking!Ends(r) = Asking!Ends(findings[i].relation)
                /\ \A j \in 1..i : findings[j].loadBearing
            /\ \A n, m \in Asking!Ends(findings[i].relation) :
                findings[i].loadBearing /\ n # m =>
                    ~Asking!ShortestPath(Asking!Network({r \in relations : Asking!Ends(r) # {n, m}}, 0, FALSE), n, m).found

\* The findings are so, of any relations of a case.
LEMMA FindingsAreTrue ==
    ASSUME NEW relations, AreRelations(relations)
    PROVE  FindingsHold(relations)
<1> DEFINE findings == Asking!NumberedFindings(relations)
           R == ByBearing(relations)
<1>1. PICK o : /\ Listed(relations, R, o)
               /\ findings = [i \in DOMAIN o |-> [relation |-> o[i], loadBearing |-> Bears(relations, o[i])]]
  BY FindingsAreListed
<1> HIDE DEF findings
<1>2. /\ DOMAIN findings = DOMAIN o /\ DOMAIN o = 1..Cardinality(relations) /\ Cardinality(relations) \in Nat
      /\ \A i \in DOMAIN o : findings[i].relation = o[i] /\ findings[i].loadBearing = Bears(relations, o[i])
      /\ \A i \in DOMAIN o : o[i] \in relations
      /\ \A r \in relations : \E i \in DOMAIN o : o[i] = r
  BY <1>1 DEF Listed
<1>3. Len(findings) = Asking!Cardinality(relations)
  <2>1. findings = [i \in 1..Cardinality(relations) |-> [relation |-> o[i], loadBearing |-> Bears(relations, o[i])]]
    BY <1>1, <1>2
  <2> QED
    BY <1>2, <2>1, SameCount
<1>4. {findings[i].relation : i \in DOMAIN findings} = relations
  <2> DEFINE T == {findings[i].relation : i \in DOMAIN findings}
  <2>1. \A r \in relations : r \in T
    BY <1>2
  <2>2. \A r \in T : r \in relations
    BY <1>2
  <2> QED
    BY <2>1, <2>2
<1>10. ASSUME NEW pair \in Asking!LoadBearing(relations)
       PROVE  /\ \E r \in Standing(relations) : Views!Ends(r) = pair
              /\ \A x, y : pair = {x, y} /\ x # y =>
                   ~Views!ShortestPath(Views!Network({r \in relations : Views!Ends(r) # {x, y}}, 0, FALSE), x, y).found
  BY BearingPairs
<1>5. ASSUME NEW i \in DOMAIN findings
      PROVE  /\ findings[i].loadBearing =>
                /\ \E r \in Standing(relations) : Asking!Ends(r) = Asking!Ends(findings[i].relation)
                /\ \A j \in 1..i : findings[j].loadBearing
             /\ \A n, m \in Asking!Ends(findings[i].relation) :
                findings[i].loadBearing /\ n # m =>
                    ~Asking!ShortestPath(Asking!Network({r \in relations : Asking!Ends(r) # {n, m}}, 0, FALSE), n, m).found
  <2>1. CASE ~findings[i].loadBearing
    BY <2>1
  <2>2. CASE findings[i].loadBearing
    <3>1. PICK pair : pair = Asking!Ends(o[i]) /\ pair \in Asking!LoadBearing(relations)
      BY <1>2, <2>2 DEF Bears
    <3>2. /\ \E r \in Standing(relations) : Views!Ends(r) = pair
          /\ \A x, y : pair = {x, y} /\ x # y =>
               ~Views!ShortestPath(Views!Network({r \in relations : Views!Ends(r) # {x, y}}, 0, FALSE), x, y).found
      BY <1>10, <3>1
    <3>3. \E r \in Standing(relations) : Asking!Ends(r) = Asking!Ends(findings[i].relation)
      BY <1>2, <3>1, <3>2, SameNetworks
    <3>4. ASSUME NEW j \in 1..i PROVE findings[j].loadBearing
      <4>1. j \in DOMAIN o
        BY <1>2
      <4>2. CASE j = i
        BY <2>2, <4>2
      <4>3. CASE j < i
        <5>1. <<o[j], o[i]>> \in R
          BY <1>1, <1>2, <4>1, <4>3 DEF Listed
        <5>2. Bears(relations, o[j])
          BY <1>2, <2>2, <5>1 DEF ByBearing
        <5> QED
          BY <1>2, <4>1, <5>2
      <4> QED
        BY <1>2, <4>2, <4>3
    <3>5. ASSUME NEW n \in Asking!Ends(findings[i].relation), NEW m \in Asking!Ends(findings[i].relation), n # m
          PROVE  ~Asking!ShortestPath(Asking!Network({r \in relations : Asking!Ends(r) # {n, m}}, 0, FALSE), n, m).found
      <4>1. pair = {n, m}
        BY <1>2, <3>1, <3>5 DEF Asking!Ends
      <4>2. PICK others : others = {r \in relations : Views!Ends(r) # {n, m}}
        OBVIOUS
      <4>3. others = {r \in relations : Asking!Ends(r) # {n, m}}
        BY <4>2, SameNetworks
      <4>4. ~Views!ShortestPath(Views!Network(others, 0, FALSE), n, m).found
        BY <3>2, <3>5, <4>1, <4>2
      <4>5. ~Asking!ShortestPath(Asking!Network(others, 0, FALSE), n, m).found
        BY <4>4, SameNetworks
      <4> QED
        BY <4>3, <4>5
    <3> QED
      BY <3>3, <3>4, <3>5
  <2> QED
    BY <2>1, <2>2
<1> QED
  BY <1>3, <1>4, <1>5 DEF FindingsHold, findings

\* A period lies around what was timed, from the first of it to the last.
PeriodHolds(timed, period) ==
    IF timed = {} THEN period = Asking!NoPeriod
    ELSE /\ \A r \in timed : period[1] <= r.at - Asking!Margin /\ r.at + Asking!Margin <= period[2]
         /\ \E r, s \in timed : period = <<r.at - Asking!Margin, s.at + Asking!Margin>>

\* The period of any rows is such.
LEMMA PeriodsHold ==
    ASSUME NEW rows, IsFiniteSet(rows), \A r \in rows : r.at \in Nat
    PROVE  PeriodHolds({r \in rows : r.at # 0}, Asking!Period(rows))
<1> DEFINE all == {r.at : r \in rows}
           times == all \ {0}
           timed == {r \in rows : r.at # 0}
           period == Asking!Period(rows)
<1>1. period = IF times = {} THEN Asking!NoPeriod ELSE <<Asking!Min(times) - Asking!Margin, Asking!Max(times) + Asking!Margin>>
  BY Zenon DEF Asking!Period
<1>2. \A r \in timed : r.at \in times
  OBVIOUS
<1>3. \A t \in times : \E r \in timed : t = r.at
  OBVIOUS
<1>4. times \subseteq Nat
  OBVIOUS
<1>5. IsFiniteSet(times)
  <2> DEFINE g == [r \in rows |-> r.at]
  <2>1. g = [r \in rows |-> g[r]] /\ all = {g[r] : r \in rows}
    OBVIOUS
  <2> HIDE DEF g, all
  <2>2. IsFiniteSet(all)
    BY <2>1, FiniteRange
  <2> QED
    BY <2>2, FS_Subset
<1> HIDE DEF times, timed, period, all
<1>6. ASSUME times = {} PROVE PeriodHolds(timed, period)
  BY <1>1, <1>2, <1>6 DEF PeriodHolds
<1>7. ASSUME times # {} PROVE PeriodHolds(timed, period)
  <2>1. PICK low \in times : \A t \in times : low <= t
    BY <1>4, <1>7, LeastNumber
  <2>2. PICK high \in times : \A t \in times : high >= t
    BY <1>4, <1>5, <1>7, GreatestNumber
  <2>3. Asking!Min(times) \in times /\ \A t \in times : Asking!Min(times) <= t
    BY <2>1 DEF Asking!Min
  <2>4. Asking!Max(times) \in times /\ \A t \in times : Asking!Max(times) >= t
    BY <2>2 DEF Asking!Max
  <2>5. PICK first, last : first = Asking!Min(times) /\ last = Asking!Max(times)
    OBVIOUS
  <2>6. period = <<first - 2, last + 2>> /\ Asking!Margin = 2
    BY <1>1, <1>7, <2>5 DEF Asking!Margin
  <2>7. /\ first \in times /\ last \in times
        /\ \A t \in times : first <= t /\ t <= last /\ t \in Nat
    BY <1>4, <2>3, <2>4, <2>5
  <2>8. timed # {}
    BY <1>3, <1>7
  <2>9. \A r \in timed : period[1] <= r.at - 2 /\ r.at + 2 <= period[2]
    <3> TAKE r \in timed
    <3>1. first <= r.at /\ r.at <= last /\ r.at \in Nat /\ first \in Nat /\ last \in Nat
      BY <1>2, <2>7
    <3> QED
      BY <2>6, <3>1
  <2>10. \E r, s \in timed : period = <<r.at - 2, s.at + 2>>
    BY <1>3, <2>6, <2>7
  <2> QED
    BY <2>6, <2>8, <2>9, <2>10 DEF PeriodHolds
<1> QED
  BY <1>6, <1>7 DEF timed, period

-------------------------------------------------------------------------------
\* Requests

\* The identities that the findings a case rests on name.
NamedBy(findings) == UNION {Asking!Ends(findings[i].relation) : i \in {j \in DOMAIN findings : findings[j].loadBearing}}

\* Those are the nodes on which a pair that the case rests on ends.
LEMMA NamedNodes ==
    ASSUME NEW relations, AreRelations(relations), NEW n
    PROVE  n \in NamedBy(Asking!NumberedFindings(relations))
           <=> \E r \in Involving(relations, n) : Bears(relations, r)
<1> DEFINE findings == Asking!NumberedFindings(relations)
<1>1. PICK o : /\ Listed(relations, ByBearing(relations), o)
               /\ findings = [i \in DOMAIN o |-> [relation |-> o[i], loadBearing |-> Bears(relations, o[i])]]
  BY FindingsAreListed
<1> HIDE DEF findings
<1>2. /\ DOMAIN findings = DOMAIN o
      /\ \A i \in DOMAIN o : findings[i].relation = o[i] /\ findings[i].loadBearing = Bears(relations, o[i])
      /\ \A i \in DOMAIN o : o[i] \in relations
      /\ \A r \in relations : \E i \in DOMAIN o : o[i] = r
  BY <1>1 DEF Listed
<1>3. n \in NamedBy(findings) <=> \E i \in DOMAIN findings : findings[i].loadBearing /\ n \in Asking!Ends(findings[i].relation)
  BY DEF NamedBy
<1>4. ASSUME NEW i \in DOMAIN findings, findings[i].loadBearing, n \in Asking!Ends(findings[i].relation)
      PROVE  \E r \in Involving(relations, n) : Bears(relations, r)
  BY <1>2, <1>4 DEF Involving
<1>5. ASSUME NEW r \in Involving(relations, n), Bears(relations, r)
      PROVE  \E i \in DOMAIN findings : findings[i].loadBearing /\ n \in Asking!Ends(findings[i].relation)
  BY <1>2, <1>5 DEF Involving
<1> QED
  BY <1>3, <1>4, <1>5 DEF findings

\* What a list of requests is, of the identities the findings name.
SubjectsHold(relations, type, label, name, limit) ==
    LET subjects == Asking!Subjects(relations, type, label, name, limit)
        named == NamedBy(Asking!NumberedFindings(relations))
    IN  /\ \A i \in DOMAIN subjects : subjects[i].loadBearing <=> subjects[i].node \in named
        /\ \A n \in {m \in named : type[m] \in Asking!Requestable} \ {subjects[i].node : i \in DOMAIN subjects} :
            \A i \in DOMAIN subjects : subjects[i].loadBearing
        /\ \A i \in DOMAIN subjects :
            PeriodHolds({r \in relations : subjects[i].node \in Asking!Ends(r) /\ r.at # 0}, subjects[i].period)

\* The requests are so, of any relations of a case.
LEMMA SubjectsAreTrue ==
    ASSUME NEW relations, AreRelations(relations), NEW type, NEW label, NEW name, NEW limit \in Nat,
           \A r \in relations : {r.from, r.to} \subseteq DOMAIN label,
           \A n \in DOMAIN label : label[n] \in Nat
    PROVE  SubjectsHold(relations, type, label, name, limit)
<1> DEFINE subjects == Asking!Subjects(relations, type, label, name, limit)
           named == NamedBy(Asking!NumberedFindings(relations))
           S == Asked(relations, name, type)
           R == AskedFirst(relations, S, label)
<1>1. PICK o : Listed(S, R, o) /\ subjects = SubSeq(o, 1, Asking!Min({limit, Len(o)}))
  <2>1. SubjectsAreFirst(relations, type, label, name, limit)
    BY SubjectsAreListed
  <2> QED
    BY <2>1, Zenon DEF SubjectsAreFirst
<1>2. /\ \A s \in S : \E n \in Askable(relations, type) : s = SubjectOf(relations, name, n)
      /\ \A n \in Askable(relations, type) : SubjectOf(relations, name, n) \in S
  BY DEF Asked
<1>3. \A s, t \in S : <<s, t>> \in R => \/ s.loadBearing /\ ~t.loadBearing
                                       \/ s.loadBearing = t.loadBearing
  BY DEF AskedFirst
<1>4. \A n : n \in named <=> \E r \in Involving(relations, n) : Bears(relations, r)
  BY NamedNodes
<1>5. \A n : /\ SubjectOf(relations, name, n).node = n
             /\ SubjectOf(relations, name, n).loadBearing <=> \E r \in Involving(relations, n) : Bears(relations, r)
             /\ SubjectOf(relations, name, n).period = Asking!Period(Involving(relations, n))
  BY DEF SubjectOf
<1> HIDE DEF S, R, subjects, named
<1>6. PICK k \in Nat : /\ k <= Len(o) /\ Len(o) \in Nat /\ DOMAIN o = 1..Len(o)
                       /\ DOMAIN subjects = 1..k /\ \A i \in 1..k : subjects[i] = o[i] /\ o[i] \in S
  <2>1. Len(o) \in Nat /\ DOMAIN o = 1..Len(o) /\ \A i \in DOMAIN o : o[i] \in S
    BY <1>1 DEF Listed
  <2>2. PICK k : k = Asking!Min({limit, Len(o)})
    OBVIOUS
  <2>3. k \in Nat /\ k <= Len(o)
    BY <2>1, <2>2 DEF Asking!Min
  <2>4. subjects = SubSeq(o, 1, k) /\ o \in Seq(S)
    BY <1>1, <2>2 DEF Listed
  <2>5. DOMAIN subjects = 1..k /\ \A i \in 1..k : subjects[i] = o[i]
    BY <2>1, <2>3, <2>4
  <2> QED
    BY <2>1, <2>3, <2>5
<1>7. \A i \in 1..k : \E n \in Askable(relations, type) : subjects[i] = SubjectOf(relations, name, n)
  BY <1>2, <1>6
<1>8. \A i \in DOMAIN subjects : subjects[i].loadBearing <=> subjects[i].node \in named
  BY <1>4, <1>5, <1>6, <1>7
<1>9. ASSUME NEW n \in named, type[n] \in Asking!Requestable, n \notin {subjects[i].node : i \in DOMAIN subjects},
             NEW i \in DOMAIN subjects
      PROVE  subjects[i].loadBearing
  <2>1. n \in Askable(relations, type)
    BY <1>4, <1>9 DEF Askable, Involving
  <2>2. PICK p \in 1..Len(o) : o[p] = SubjectOf(relations, name, n)
    BY <1>1, <1>2, <1>6, <2>1 DEF Listed
  <2>3. p \notin 1..k
    BY <1>5, <1>6, <1>9, <2>2
  <2>4. i \in 1..Len(o) /\ i < p /\ o[p] \in S
    BY <1>2, <1>6, <2>1, <2>2, <2>3
  <2>5. <<o[i], o[p]>> \in R
    BY <1>1, <1>6, <2>2, <2>4 DEF Listed
  <2>6. o[p].loadBearing
    BY <1>4, <1>5, <2>2
  <2>7. o[i] \in S /\ subjects[i] = o[i]
    BY <1>6
  <2>8. (o[i].loadBearing /\ ~o[p].loadBearing) \/ o[i].loadBearing = o[p].loadBearing
    BY <1>3, <2>4, <2>5, <2>7
  <2>9. o[p].loadBearing = TRUE
    BY <1>5, <2>2, <2>6 DEF SubjectOf
  <2> QED
    BY <2>6, <2>7, <2>8, <2>9
<1>10. ASSUME NEW i \in DOMAIN subjects
       PROVE  PeriodHolds({r \in relations : subjects[i].node \in Asking!Ends(r) /\ r.at # 0}, subjects[i].period)
  <2>1. PICK n : subjects[i] = SubjectOf(relations, name, n)
    BY <1>6, <1>7
  <2>2. PICK rows : rows = Involving(relations, n)
    OBVIOUS
  <2>3. IsFiniteSet(rows) /\ \A r \in rows : r.at \in Nat
    BY <2>2, FS_Subset DEF Involving, AreRelations, Numbered
  <2>4. PeriodHolds({r \in rows : r.at # 0}, Asking!Period(rows))
    BY <2>3, PeriodsHold
  <2>5. {r \in rows : r.at # 0} = {r \in relations : n \in Asking!Ends(r) /\ r.at # 0}
    BY <2>2 DEF Involving
  <2>6. subjects[i].node = n /\ subjects[i].period = Asking!Period(rows)
    BY <1>5, <2>1, <2>2
  <2> QED
    BY <2>4, <2>5, <2>6
<1> QED
  BY <1>8, <1>9, <1>10 DEF SubjectsHold, subjects, named

\* A report and a request for records agree on what a case rests on: of any
\* relations of a case, the findings are those relations, load-bearing ones come
\* first and are true of the network, identities they name are asked about before
\* any other, and a period is asked for only around what was timed.
THEOREM FindingsAndRequests ==
    ASSUME NEW relations, AreRelations(relations), NEW type, NEW label, NEW name, NEW limit \in Nat,
           \A r \in relations : {r.from, r.to} \subseteq DOMAIN label,
           \A n \in DOMAIN label : label[n] \in Nat
    PROVE  Asking!FindingsAndRequestsAgree(relations, type, label, name, limit)
<1>1. FindingsHold(relations)
  BY FindingsAreTrue
<1>2. SubjectsHold(relations, type, label, name, limit)
  BY SubjectsAreTrue
<1> QED
  BY <1>1, <1>2, Zenon DEF FindingsHold, SubjectsHold, PeriodHolds, NamedBy, Standing, Asking!FindingsAndRequestsAgree

-------------------------------------------------------------------------------
\* The list of links

\* The links of a case in the order of the list, which says where each stands.
LinkOrder(links, alphabet) ==
    {p \in links \X links :
        \E i \in 1..4 : /\ Asking!Place(p[1], alphabet)[i] < Asking!Place(p[2], alphabet)[i]
                        /\ \A j \in 1..(i - 1) : Asking!Place(p[1], alphabet)[j] = Asking!Place(p[2], alphabet)[j]}
ListOf(links, alphabet, limit, o) ==
    /\ Listed(links, LinkOrder(links, alphabet), o)
    /\ Asking!Shown(links, alphabet, limit) = SubSeq(o, 1, Asking!Min({limit, Len(o)}))

\* Of two places of four numbers, the first difference decides.
LEMMA FirstDifference ==
    ASSUME NEW a, NEW b, \A i \in 1..4 : a[i] \in Nat /\ b[i] \in Nat
    PROVE  (\E i \in 1..4 : a[i] < b[i] /\ \A j \in 1..(i - 1) : a[j] = b[j])
           <=> \/ a[1] < b[1]
               \/ a[1] = b[1] /\ a[2] < b[2]
               \/ a[1] = b[1] /\ a[2] = b[2] /\ a[3] < b[3]
               \/ a[1] = b[1] /\ a[2] = b[2] /\ a[3] = b[3] /\ a[4] < b[4]
<1> DEFINE At(i) == a[i] < b[i] /\ \A j \in 1..(i - 1) : a[j] = b[j]
<1>1. At(1) <=> a[1] < b[1]
  OBVIOUS
<1>2. At(2) <=> a[1] = b[1] /\ a[2] < b[2]
  OBVIOUS
<1>3. At(3) <=> a[1] = b[1] /\ a[2] = b[2] /\ a[3] < b[3]
  OBVIOUS
<1>4. At(4) <=> a[1] = b[1] /\ a[2] = b[2] /\ a[3] = b[3] /\ a[4] < b[4]
  OBVIOUS
<1>5. (\E i \in 1..4 : At(i)) <=> At(1) \/ At(2) \/ At(3) \/ At(4)
  <2> HIDE DEF At
  <2>1. 1..4 = {1, 2, 3, 4}
    OBVIOUS
  <2> QED
    BY <2>1
<1> QED
  BY <1>1, <1>2, <1>3, <1>4, <1>5

\* Rows with such places, of which no two have one, are in a total order.
Precedes(f, g, h, k, x, y) ==
    \/ f[x] < f[y]
    \/ f[x] = f[y] /\ g[x] < g[y]
    \/ f[x] = f[y] /\ g[x] = g[y] /\ h[x] < h[y]
    \/ f[x] = f[y] /\ g[x] = g[y] /\ h[x] = h[y] /\ k[x] < k[y]

LEMMA PlacesOrder ==
    ASSUME NEW S, NEW f, NEW g, NEW h, NEW k,
           \A x \in S : f[x] \in Nat /\ g[x] \in Nat /\ h[x] \in Nat /\ k[x] \in Nat,
           \A x, y \in S : k[x] = k[y] => x = y,
           NEW R, \A x, y \in S : <<x, y>> \in R <=> Precedes(f, g, h, k, x, y)
    PROVE  Total(S, R)
<1>1. \A x \in S : <<x, x>> \notin R
  BY DEF Precedes
<1>2. ASSUME NEW x \in S, NEW y \in S, NEW z \in S, <<x, y>> \in R, <<y, z>> \in R
      PROVE  <<x, z>> \in R
  <2>1. Precedes(f, g, h, k, x, y) /\ Precedes(f, g, h, k, y, z)
    BY <1>2
  <2>2. Precedes(f, g, h, k, x, z)
    BY <2>1 DEF Precedes
  <2> QED
    BY <2>2
<1>3. ASSUME NEW x \in S, NEW y \in S, x # y
      PROVE  <<x, y>> \in R \/ <<y, x>> \in R
  <2>1. k[x] # k[y]
    BY <1>3
  <2>2. Precedes(f, g, h, k, x, y) \/ Precedes(f, g, h, k, y, x)
    BY <2>1 DEF Precedes
  <2> QED
    BY <2>2
<1> QED
  BY <1>1, <1>2, <1>3 DEF Total

\* A link stands for one row of another case, by whose number it is told apart.
LEMMA LinksAreNumbered ==
    ASSUME NEW rows, NEW alphabet, AreSignals(rows, alphabet), NEW c, NEW visible, NEW p \in Asking!Pickings(rows, c)
    PROVE  LET links == Asking!SharedLinks(p, rows, c, visible)
           IN  /\ IsFiniteSet(links)
               /\ \A l \in links : l.linked \in Nat /\ alphabet[l.key[1]] \in Nat /\ alphabet[l.case] \in Nat
               /\ \A l, m \in links : l.linked = m.linked => l = m
<1> DEFINE links == Asking!SharedLinks(p, rows, c, visible)
           theirs == {t \in Asking!Theirs(rows, c, visible) : Asking!Key(t) \in DOMAIN p}
           Told(r) == [key |-> Asking!Key(r), current |-> p[Asking!Key(r)].id, case |-> r.case, linked |-> r.id,
                       confidence |-> Asking!Confidence(p[Asking!Key(r)], r)]
<1>1. theirs \subseteq rows /\ IsFiniteSet(rows)
  BY DEF Asking!Theirs, Numbered, AreSignals
<1>2. links = {Told(r) : r \in theirs}
  BY DEF Asking!SharedLinks
<1>3. IsFiniteSet(links)
  <2>1. IsFiniteSet(theirs)
    <3> HIDE DEF theirs
    <3> QED
      BY <1>1, FS_Subset
  <2>2. DEFINE f == [r \in theirs |-> Told(r)]
  <2>3. f = [r \in theirs |-> f[r]] /\ links = {f[r] : r \in theirs}
    BY <1>2
  <2> HIDE DEF f, theirs, links
  <2> QED
    BY <2>1, <2>3, FiniteRange
<1>4. \A r \in rows : /\ Told(r).linked = r.id /\ r.id \in Nat /\ Told(r).case = r.case /\ Told(r).key[1] = r.kind
                      /\ alphabet[r.kind] \in Nat /\ alphabet[r.case] \in Nat
  BY DEF AreSignals, Numbered, Asking!Key
<1>5. \A r, s \in rows : r.id = s.id => r = s
  BY DEF AreSignals, Numbered
<1>6. \A l \in links : \E r \in rows : l = Told(r)
  BY <1>1, <1>2
<1>7. \A l \in links : l.linked \in Nat /\ alphabet[l.key[1]] \in Nat /\ alphabet[l.case] \in Nat
  <2> HIDE DEF links, Told
  <2> QED
    BY <1>4, <1>6
<1>8. \A l, m \in links : l.linked = m.linked => l = m
  <2> HIDE DEF links, Told
  <2> QED
    BY <1>4, <1>5, <1>6
<1> QED
  BY <1>3, <1>7, <1>8

\* What is shown of the links are the first in that order.
LEMMA LinksAreListed ==
    ASSUME NEW rows, NEW alphabet, AreSignals(rows, alphabet), NEW c, NEW visible, NEW p \in Asking!Pickings(rows, c), NEW limit
    PROVE  \E o : ListOf(Asking!SharedLinks(p, rows, c, visible), alphabet, limit, o)
<1> DEFINE S == Asking!SharedLinks(p, rows, c, visible)
           R == LinkOrder(S, alphabet)
           before(a, b) == \E i \in 1..4 : /\ Asking!Place(a, alphabet)[i] < Asking!Place(b, alphabet)[i]
                                           /\ \A j \in 1..(i - 1) : Asking!Place(a, alphabet)[j] = Asking!Place(b, alphabet)[j]
           rank == [x \in S |-> Asking!Cardinality({y \in S : before(y, x)})]
           o == [i \in 1..Asking!Cardinality(S) |-> CHOOSE x \in S : rank[x] = i - 1]
<1>1. IsFiniteSet(S) /\ (\A l \in S : l.linked \in Nat /\ alphabet[l.key[1]] \in Nat /\ alphabet[l.case] \in Nat)
      /\ \A l, m \in S : l.linked = m.linked => l = m
  BY LinksAreNumbered
<1> HIDE DEF S
<1>2. Asking!Shown(S, alphabet, limit) = SubSeq(o, 1, Asking!Min({limit, Len(o)}))
  BY Zenon DEF Asking!Shown, Asking!InOrder
<1>3. \A x, y \in S : <<x, y>> \in R <=> before(x, y)
  BY DEF LinkOrder
<1>4. Total(S, R)
  <2>1. PICK f : f = [x \in S |-> IF x.confidence = "high" THEN 0 ELSE 1]
    OBVIOUS
  <2>2. PICK g : g = [x \in S |-> alphabet[x.key[1]]]
    OBVIOUS
  <2>3. PICK h : h = [x \in S |-> alphabet[x.case]]
    OBVIOUS
  <2>4. PICK k : k = [x \in S |-> x.linked]
    OBVIOUS
  <2>5. \A x \in S : f[x] \in Nat /\ g[x] \in Nat /\ h[x] \in Nat /\ k[x] \in Nat
    BY <1>1, <2>1, <2>2, <2>3, <2>4
  <2>6. \A x \in S : Asking!Place(x, alphabet) = <<f[x], g[x], h[x], k[x]>>
    BY <2>1, <2>2, <2>3, <2>4 DEF Asking!Place
  <2>7. ASSUME NEW x \in S, NEW y \in S
        PROVE  <<x, y>> \in R <=> Precedes(f, g, h, k, x, y)
    <3>1. PICK a : a = Asking!Place(x, alphabet)
      OBVIOUS
    <3>2. PICK b : b = Asking!Place(y, alphabet)
      OBVIOUS
    <3>3. a[1] = f[x] /\ a[2] = g[x] /\ a[3] = h[x] /\ a[4] = k[x] /\ b[1] = f[y] /\ b[2] = g[y] /\ b[3] = h[y] /\ b[4] = k[y]
      BY <2>6, <3>1, <3>2
    <3>4. \A i \in 1..4 : a[i] \in Nat /\ b[i] \in Nat
      <4>1. \A i \in 1..4 : i = 1 \/ i = 2 \/ i = 3 \/ i = 4
        OBVIOUS
      <4> QED
        BY <2>5, <3>3, <4>1
    <3>5. before(x, y) <=> \E i \in 1..4 : a[i] < b[i] /\ \A j \in 1..(i - 1) : a[j] = b[j]
      BY <3>1, <3>2
    <3> HIDE DEF before, R
    <3> QED
      BY <1>3, <3>3, <3>4, <3>5, FirstDifference DEF Precedes
  <2>8. \A x, y \in S : k[x] = k[y] => x = y
    BY <1>1, <2>4
  <2> HIDE DEF R
  <2>9. \A x, y \in S : <<x, y>> \in R <=> Precedes(f, g, h, k, x, y)
    BY <2>7
  <2> QED
    BY <2>5, <2>8, <2>9, PlacesOrder
<1>5. o = Ranked(S, R)
  <2> HIDE DEF R
  <2>1. \A x \in S : {y \in S : <<y, x>> \in R} = {y \in S : before(y, x)}
    BY <1>3
  <2> HIDE DEF before
  <2>2. rank = Ranks(S, R)
    BY <2>1, SameCount DEF Ranks
  <2>3. Asking!Cardinality(S) = Cardinality(S)
    BY SameCount
  <2> HIDE DEF rank
  <2>4. o = [i \in 1..Cardinality(S) |-> CHOOSE x \in S : rank[x] = i - 1]
    BY <2>3, Zenon
  <2> HIDE DEF o
  <2> QED
    BY <2>2, <2>4, PlacesOfRanks
<1>6. Listed(S, R, o)
  <2> HIDE DEF R, o
  <2> QED
    BY <1>1, <1>4, <1>5, RankedList, Zenon
<1> HIDE DEF o
<1> QED
  BY <1>2, <1>6, Zenon DEF ListOf, S

\* The beginning of a list.
LEMMA FirstOfList ==
    ASSUME NEW S, NEW o \in Seq(S), NEW k \in Nat, k <= Len(o)
    PROVE  /\ Len(SubSeq(o, 1, k)) = k /\ DOMAIN SubSeq(o, 1, k) = 1..k
           /\ \A i \in 1..k : i \in 1..Len(o) /\ SubSeq(o, 1, k)[i] = o[i]
OBVIOUS

\* A list is the links, or it is full; what it leaves out is no better than what
\* it shows.
LEMMA ListIsCut ==
    ASSUME NEW rows, NEW alphabet, AreSignals(rows, alphabet), NEW c, NEW visible, NEW p \in Asking!Pickings(rows, c), NEW limit \in Nat
    PROVE  LET links == Asking!SharedLinks(p, rows, c, visible)
               list == Asking!Shown(links, alphabet, limit)
           IN  /\ \A i \in DOMAIN list : list[i] \in links
               /\ \A l \in links : (\E i \in DOMAIN list : list[i] = l) \/ Len(list) = limit
               /\ \A l \in links \ {list[i] : i \in DOMAIN list} :
                    l.confidence = "high" => \A i \in DOMAIN list : list[i].confidence = "high"
<1> DEFINE links == Asking!SharedLinks(p, rows, c, visible)
           list == Asking!Shown(links, alphabet, limit)
<1>1. PICK o : ListOf(links, alphabet, limit, o)
  BY LinksAreListed
<1> HIDE DEF links
<1>2. list = SubSeq(o, 1, Asking!Min({limit, Len(o)})) /\ Listed(links, LinkOrder(links, alphabet), o)
  BY <1>1 DEF ListOf
<1>3. o \in Seq(links) /\ Len(o) \in Nat /\ DOMAIN o = 1..Len(o) /\ \A i \in 1..Len(o) : o[i] \in links
  BY <1>2 DEF Listed
<1>4. PICK k : k = Asking!Min({limit, Len(o)})
  OBVIOUS
<1>5. k \in Nat /\ k <= Len(o) /\ k <= limit /\ (k = limit \/ k = Len(o))
  <2>1. PICK n \in Nat : n = Len(o)
    BY <1>3, Zenon
  <2>2. \E i \in {limit, n} : \A j \in {limit, n} : i <= j
    OBVIOUS
  <2>3. k \in {limit, n} /\ \A j \in {limit, n} : k <= j
    BY <1>4, <2>1, <2>2 DEF Asking!Min
  <2> QED
    BY <2>1, <2>3
<1>6. list = SubSeq(o, 1, k)
  BY <1>2, <1>4
<1> HIDE DEF list
<1>7. Len(list) = k /\ DOMAIN list = 1..k /\ \A i \in 1..k : i \in 1..Len(o) /\ list[i] = o[i]
  BY <1>3, <1>5, <1>6, FirstOfList, Zenon
<1>8. \A i \in DOMAIN list : list[i] \in links
  BY <1>3, <1>5, <1>7, Zenon
<1>9. ASSUME NEW l \in links
      PROVE  \E i \in 1..Len(o) : o[i] = l
  BY <1>2, <1>3, <1>9 DEF Listed
<1>10. \A l \in links : (\E i \in DOMAIN list : list[i] = l) \/ Len(list) = limit
  BY <1>3, <1>5, <1>7, <1>9, Zenon
<1>11. ASSUME NEW l \in links \ {list[i] : i \in DOMAIN list}, l.confidence = "high", NEW i \in DOMAIN list
       PROVE  list[i].confidence = "high"
  <2>1. PICK q \in 1..Len(o) : o[q] = l
    BY <1>9
  <2>2. i \in 1..Len(o) /\ i < q /\ list[i] = o[i]
    <3>1. i \in 1..k /\ i \in 1..Len(o) /\ list[i] = o[i]
      BY <1>7
    <3>2. q \notin 1..k
      BY <1>7, <1>11, <2>1
    <3>3. PICK n \in Nat : n = Len(o)
      BY <1>3, Zenon
    <3> QED
      BY <1>5, <2>1, <3>1, <3>2, <3>3
  <2>3. <<o[i], l>> \in LinkOrder(links, alphabet)
    BY <1>2, <1>3, <2>1, <2>2 DEF Listed
  <2>4. PICK n \in 1..4 : /\ Asking!Place(o[i], alphabet)[n] < Asking!Place(l, alphabet)[n]
                          /\ \A j \in 1..(n - 1) : Asking!Place(o[i], alphabet)[j] = Asking!Place(l, alphabet)[j]
    BY <2>3 DEF LinkOrder
  <2>5. Asking!Place(l, alphabet)[1] = 0
    BY <1>11 DEF Asking!Place
  <2>6. Asking!Place(o[i], alphabet)[1] = (IF o[i].confidence = "high" THEN 0 ELSE 1)
    BY DEF Asking!Place
  <2>7. n = 1 \/ 1 \in 1..(n - 1)
    OBVIOUS
  <2>8. CASE n = 1
    BY <2>2, <2>4, <2>5, <2>6, <2>8
  <2>9. CASE 1 \in 1..(n - 1)
    BY <2>2, <2>4, <2>5, <2>6, <2>9
  <2> QED
    BY <2>7, <2>8, <2>9
<1> QED
  BY <1>8, <1>10, <1>11 DEF links, list

\* Of two cases a reader may open, what the list of one shows of the other the
\* list of the other shows of it or is full; a link rests on no row a reviewer
\* rejected; only a full list leaves a link out, and no reviewed one for an
\* unreviewed one.
THEOREM LinkedCasesAgree ==
    ASSUME NEW rows, NEW alphabet, AreSignals(rows, alphabet), NEW visible, NEW limit \in Nat
    PROVE  Asking!LinksAreMutual(rows, visible, alphabet, limit)
<1> SUFFICES ASSUME NEW here \in visible, NEW there \in visible,
                    NEW pick \in Asking!Pickings(rows, here), NEW back \in Asking!Pickings(rows, there)
             PROVE  LET links == Asking!SharedLinks(pick, rows, here, visible)
                        list == Asking!Shown(links, alphabet, limit)
                        answer == Asking!Shown(Asking!SharedLinks(back, rows, there, visible), alphabet, limit)
                    IN  /\ \A i \in DOMAIN list :
                            /\ list[i].case \in visible \ {here}
                            /\ \A r \in rows : r.id \in {list[i].current, list[i].linked} => r.kind = "file" \/ r.status # "rejected"
                            /\ list[i].case = there =>
                                \/ \E j \in DOMAIN answer : answer[j].case = here /\ answer[j].key = list[i].key
                                \/ Len(answer) = limit
                        /\ \A l \in links \ {list[i] : i \in DOMAIN list} :
                            /\ Len(list) = limit
                            /\ l.confidence = "high" => \A i \in DOMAIN list : list[i].confidence = "high"
  BY DEF Asking!LinksAreMutual
<1> DEFINE links == Asking!SharedLinks(pick, rows, here, visible)
           others == Asking!SharedLinks(back, rows, there, visible)
           list == Asking!Shown(links, alphabet, limit)
           answer == Asking!Shown(others, alphabet, limit)
<1>1. /\ \A i \in DOMAIN list : list[i] \in links
      /\ \A l \in links : (\E i \in DOMAIN list : list[i] = l) \/ Len(list) = limit
      /\ \A l \in links \ {list[i] : i \in DOMAIN list} :
            l.confidence = "high" => \A i \in DOMAIN list : list[i].confidence = "high"
      /\ \A l \in others : (\E j \in DOMAIN answer : answer[j] = l) \/ Len(answer) = limit
  BY ListIsCut
<1>2. ASSUME NEW l \in links, l.case = there
      PROVE  \E m \in others : m.case = here /\ m.key = l.key
  <2>1. PICK r \in rows : /\ r.case = there /\ there # here /\ Asking!Standing(r)
                          /\ Asking!Key(r) \in DOMAIN pick /\ l.key = Asking!Key(r)
    BY <1>2, LinkOfRow
  <2>2. PICK own \in rows : own = pick[l.key]
    BY <2>1, PickedRows DEF Asking!Mine
  <2>3. own.case = here /\ Asking!Standing(own) /\ Asking!Key(own) = l.key
    BY <2>1, <2>2, PickedRows DEF Asking!Mine
  <2>4. r \in Asking!Mine(rows, there)
    BY <2>1 DEF Asking!Mine
  <2>5. Asking!Key(own) \in DOMAIN back
    BY <2>1, <2>3, <2>4, PickedRows
  <2>6. own.case \in visible \ {there}
    BY <2>1, <2>3
  <2> QED
    BY <2>3, <2>5, <2>6, RowMakesLink
<1>3. ASSUME NEW l \in links
      PROVE  /\ l.case \in visible \ {here}
             /\ \A r \in rows : r.id \in {l.current, l.linked} => r.kind = "file" \/ r.status # "rejected"
  <2>1. PICK r \in rows : /\ r.case \in visible \ {here} /\ Asking!Standing(r) /\ Asking!Key(r) \in DOMAIN pick
                          /\ l.current = pick[Asking!Key(r)].id /\ l.case = r.case /\ l.linked = r.id
    BY LinkOfRow
  <2>2. pick[Asking!Key(r)] \in rows /\ Asking!Standing(pick[Asking!Key(r)])
    BY <2>1, PickedRows DEF Asking!Mine
  <2>3. \A s \in rows : s.id \in {l.current, l.linked} => s = r \/ s = pick[Asking!Key(r)]
    BY <2>1, <2>2 DEF AreSignals, Numbered
  <2> QED
    BY <2>1, <2>2, <2>3 DEF Asking!Standing
<1> HIDE DEF links, others, list, answer
<1>4. ASSUME NEW i \in DOMAIN list
      PROVE  /\ list[i].case \in visible \ {here}
             /\ \A r \in rows : r.id \in {list[i].current, list[i].linked} => r.kind = "file" \/ r.status # "rejected"
             /\ list[i].case = there =>
                    \/ \E j \in DOMAIN answer : answer[j].case = here /\ answer[j].key = list[i].key
                    \/ Len(answer) = limit
  <2>1. PICK l \in links : l = list[i]
    BY <1>1
  <2>2. ASSUME l.case = there
        PROVE  (\E j \in DOMAIN answer : answer[j].case = here /\ answer[j].key = l.key) \/ Len(answer) = limit
    BY <1>1, <1>2, <2>2
  <2> QED
    BY <1>3, <2>1, <2>2
<1>5. ASSUME NEW l \in links \ {list[i] : i \in DOMAIN list}
      PROVE  /\ Len(list) = limit
             /\ l.confidence = "high" => \A i \in DOMAIN list : list[i].confidence = "high"
  BY <1>1
<1> QED
  BY <1>4, <1>5 DEF links, others, list, answer

-------------------------------------------------------------------------------
\* Every question

\* Whatever is asked about the rows of a case, of whatever values and rows the
\* tables may hold: what is computed from them is true of them, and what the network
\* views, the leads, the report, the request and the other cases tell agrees.
THEOREM ReadingsAreTrue == ReadingSpec => []AnswersAgree
<1>1. ASSUME ReadingInit PROVE AnswersAgree
  <2>1. CASE question = NoQuestion
    BY <2>1 DEF AnswersAgree, NoQuestion
  <2>2. ASSUME NEW v \in ValuePool, question = [topic |-> "value", value |-> v] PROVE AnswersAgree
    <3>1. Rules!OneNodePerValue(v)
      BY ValuesAreTexts, ValuesHaveOneNode
    <3> QED
      BY <2>2, <3>1 DEF AnswersAgree
  <2>3. ASSUME NEW r \in RecordPool, question = [topic |-> "record", record |-> r] PROVE AnswersAgree
    <3>1. Rules!RecordsStateOnce(r)
      BY RecordsHoldTexts, RecordsAreStatedOnce
    <3> QED
      BY <2>3, <3>1 DEF AnswersAgree
  <2>4. ASSUME NEW rows \in RelationPool, question = [topic |-> "relations", relations |-> rows] PROVE AnswersAgree
    <3>1. Views!ViewsAgree(rows)
      BY RelationsAreRows, NetworkViewsAgree
    <3>2. Asking!FindingsAndRequestsAgree(rows, TypeOf, LabelOf, FileName, Limit)
      <4>1. AreRelations(rows) /\ \A e \in rows : {e.from, e.to} \subseteq DOMAIN LabelOf
        BY RelationsAreRows
      <4>2. \A n \in DOMAIN LabelOf : LabelOf[n] \in Nat
        BY RelationsAreRows
      <4> QED
        BY <4>1, <4>2, LimitIsNumber, FindingsAndRequests
    <3> QED
      BY <2>4, <3>1, <3>2 DEF AnswersAgree
  <2>5. ASSUME NEW rows \in ContactPool, question = [topic |-> "contacts", contacts |-> rows] PROVE AnswersAgree
    <3>1. Alerts!ContactLeadsAreTrue(rows, Window)
      BY ContactsAreRows, ContactLeadsAreThere
    <3>2. Alerts!LeadsAreRaisedOnce(rows, {}, Window)
      BY LeadsStandOnce
    <3>3. Alerts!LeadsAreTold(rows, {}, Window)
      <4>1. AreContacts(rows) /\ AreRecords({})
        BY ContactsAreRows, FS_EmptySet DEF AreRecords, Numbered
      <4> QED
        BY <4>1, LeadsTellTheirRows
    <3> QED
      BY <2>5, <3>1, <3>2, <3>3 DEF AnswersAgree
  <2>6. ASSUME NEW rows \in SeenPool, question = [topic |-> "seen", seen |-> rows] PROVE AnswersAgree
    <3>1. Alerts!RecordLeadsAreTrue(rows)
      BY SightingsAreRows, RecordLeadsAreThere
    <3>2. Alerts!LeadsAreRaisedOnce({}, rows, Window)
      BY LeadsStandOnce
    <3>3. Alerts!LeadsAreTold({}, rows, Window)
      <4>1. AreRecords(rows) /\ AreContacts({})
        BY SightingsAreRows, FS_EmptySet DEF AreContacts, Numbered
      <4> QED
        BY <4>1, LeadsTellTheirRows
    <3> QED
      BY <2>6, <3>1, <3>2, <3>3 DEF AnswersAgree
  <2>7. ASSUME NEW t \in TrailPool, question = [topic |-> "trail", trail |-> t] PROVE AnswersAgree
    <3>1. Trail!TrailLeadsAreTrue(t.early, t.late, t.nodes, Lures)
      BY TransfersAreRows, TrailsAreReadTruly
    <3> QED
      BY <2>7, <3>1 DEF AnswersAgree
  <2>8. ASSUME NEW rows \in LinkPool, question = [topic |-> "cases", rows |-> rows] PROVE AnswersAgree
    <3>1. Asking!LinksAreMutual(rows, Visible, Alphabet, Limit)
      BY LinksAreRows, LimitIsNumber, LinkedCasesAgree
    <3> QED
      BY <2>8, <3>1 DEF AnswersAgree
  <2>9. ASSUME NEW rows \in RegisterPool, question = [topic |-> "register", register |-> rows] PROVE AnswersAgree
    <3>1. Asking!RecordIsCountedWhole(rows, Identity)
      BY RegisterIsFinite, RecordsAreCountedWhole
    <3> QED
      BY <2>9, <3>1 DEF AnswersAgree
  <2>10. ASSUME NEW rows \in TimelinePool, question = [topic |-> "timeline", events |-> rows] PROVE AnswersAgree
    <3>1. Asking!TimelineKeepsFiles(rows)
      BY ReadingsAreNoRawText, TimelinesKeepFiles
    <3> QED
      BY <2>10, <3>1 DEF AnswersAgree
  <2>11. ASSUME NEW page \in PagePool, question = [topic |-> "page", page |-> page] PROVE AnswersAgree
    <3>1. Texts!PageIsReadOnce(page)
      BY PagesAreTexts, PagesAreReadOnce
    <3> QED
      BY <2>11, <3>1 DEF AnswersAgree
  <2>12. ASSUME NEW q \in RowPool, question = [topic |-> "row", header |-> q.header, row |-> q.row] PROVE AnswersAgree
    <3>1. Texts!BalanceNeverMoves(q.header, q.row)
      BY RowsHaveColumns, BalancesNeverMove
    <3> QED
      BY <2>12, <3>1 DEF AnswersAgree
  <2>13. ASSUME NEW lines \in ChatPool, question = [topic |-> "chat", lines |-> lines] PROVE AnswersAgree
    <3>1. Texts!ChatKeepsWording(lines)
      BY ChatsAreLines, ChatsKeepWording
    <3> QED
      BY <2>13, <3>1 DEF AnswersAgree
  <2>14. ASSUME NEW line \in LinePool, question = [topic |-> "line", line |-> line] PROVE AnswersAgree
    <3>1. Texts!NamesAreStated(line)
      BY LinesAreTokens, NamesAndLinks
    <3> QED
      BY <2>14, <3>1 DEF AnswersAgree
  <2> QED
    BY <1>1, <2>1, <2>2, <2>3, <2>4, <2>5, <2>6, <2>7, <2>8, <2>9, <2>10,
       <2>11, <2>12, <2>13, <2>14 DEF ReadingInit, Put
<1>2. AnswersAgree /\ UNCHANGED question => AnswersAgree'
  BY DEF AnswersAgree
<1>3. AnswersAgree /\ [FALSE]_question => AnswersAgree'
  BY <1>2
<1> QED
  BY <1>1, <1>3, PTL DEF ReadingSpec

==================================================================================
