----------------------------- MODULE NetworkProofs -----------------------------
(***************************************************************************)
(* Proofs about RecordRelations, ModelRouter, EntityGraph and              *)
(* SchemaHistory: that correlating runs find every link and store it once  *)
(* and rulings on links stand; what the model router stores of a file      *)
(* whatever its models say and however they fail; that resolver runs in    *)
(* turn store the network exactly, no run fails on its own rows and the    *)
(* merge script loses no fact; and that however a database is upgraded and *)
(* taken back, what is served is what the models declare.                  *)
(***************************************************************************)
EXTENDS EntityGraph, RecordRelations, ModelRouter, SchemaHistory, FiniteSetTheorems, WellFoundedInduction, TLAPS

-----------------------------------------------------------------------------
\* RecordRelations.

\* Tables are sequences of rows: what is in them, appended to them, written in them.
LEMMA TableRows ==
    ASSUME NEW S, NEW s \in Seq(S)
    PROVE  Len(s) \in Nat /\ DOMAIN s = 1..Len(s) /\ \A n \in 1..Len(s) : s[n] \in S
  OBVIOUS

LEMMA JoinedRows ==
    ASSUME NEW S, NEW s \in Seq(S), NEW t \in Seq(S)
    PROVE  /\ s \o t \in Seq(S) /\ Len(s \o t) = Len(s) + Len(t)
           /\ \A n \in 1..Len(s) : (s \o t)[n] = s[n]
           /\ \A n \in 1..Len(t) : (s \o t)[Len(s) + n] = t[n]
  OBVIOUS

LEMMA WrittenRow ==
    ASSUME NEW S, NEW s \in Seq(S), NEW i \in 1..Len(s), NEW x \in S
    PROVE  /\ [s EXCEPT ![i] = x] \in Seq(S) /\ Len([s EXCEPT ![i] = x]) = Len(s)
           /\ [s EXCEPT ![i] = x][i] = x /\ \A n \in 1..Len(s) : n # i => [s EXCEPT ![i] = x][n] = s[n]
  OBVIOUS

LEMMA AppendedRow ==
    ASSUME NEW S, NEW s \in Seq(S), NEW x \in S
    PROVE  /\ Append(s, x) \in Seq(S) /\ Len(Append(s, x)) = Len(s) + 1
           /\ Append(s, x)[Len(s) + 1] = x /\ \A n \in 1..Len(s) : Append(s, x)[n] = s[n]
  OBVIOUS

\* The members of a finite set, listed: each once.
LEMMA SetListed ==
    ASSUME NEW S, IsFiniteSet(S)
    PROVE  /\ SetToSeq(S) \in Seq(S)
           /\ \A x \in S : \E n \in DOMAIN SetToSeq(S) : SetToSeq(S)[n] = x
           /\ \A m, n \in DOMAIN SetToSeq(S) : SetToSeq(S)[m] = SetToSeq(S)[n] => m = n
<1> DEFINE n == Cardinality(S)
           s == SetToSeq(S)
<1>1. n \in Nat /\ ExistsBijection(1..n, S)
  BY FS_CardinalityType
<1>2. PICK f \in [1..n -> S] : IsInjective(f)
  BY <1>1 DEF ExistsBijection, Bijection, Injection, IsInjective
<1>3. s \in [1..n -> S] /\ IsInjective(s)
  BY <1>2 DEF SetToSeq
<1>4. s \in Injection(1..n, S)
  BY <1>3 DEF Injection, IsInjective
<1>5. Cardinality(1..n) = n /\ IsFiniteSet(1..n)
  BY <1>1, FS_Interval
<1>6. s \in Surjection(1..n, S)
  BY <1>4, <1>5, FS_Surjection, FS_Injection
<1> QED
  BY <1>1, <1>3, <1>6 DEF Surjection, IsInjective

Conflictable == {"amount", "amount_currency", "event_time"}
Keys == [type : {"corroboration", "contradiction"}, method : {"exact_match", "semantic"},
         fields : SUBSET (Identifiers \cup Conflictable), records : SUBSET DOMAIN FileOf]
Candidates == [key : Keys, confidence : Nat]

\* What the three rules make, taken apart.
LEMMA CandidateParts ==
    ASSUME NEW type, NEW method, NEW fields, NEW p, NEW confidence
    PROVE  LET c == Candidate(type, method, fields, p, confidence)
           IN  /\ c = [key |-> c.key, confidence |-> confidence]
               /\ c.key = [type |-> type, method |-> method, fields |-> fields, records |-> p]
               /\ c.key.type = type /\ c.key.method = method /\ c.key.fields = fields
               /\ c.key.records = p /\ c.confidence = confidence
  BY DEF Candidate

\* What correlation works on: readings of some records.
Readings(readings) == DOMAIN readings \subseteq DOMAIN FileOf /\ \A r \in DOMAIN readings : IsReading(readings[r])

\* A pair is two records of the case.
LEMMA PairsAreRecords ==
    ASSUME NEW readings, Readings(readings), NEW p \in Pairs(readings)
    PROVE  p \subseteq DOMAIN readings /\ p \in SUBSET DOMAIN FileOf /\ p # {} /\ Cardinality(p) = 2
<1>1. p \subseteq DOMAIN readings /\ Cardinality(p) = 2
  BY DEF Pairs, kSubset
<1>2. p # {}
  BY <1>1, FS_EmptySet
<1> QED
  BY <1>1, <1>2 DEF Readings

\* What two records share are identifying fields.
LEMMA SharedAreIdentifiers ==
    ASSUME NEW readings, Readings(readings), NEW p \in Pairs(readings)
    PROVE  Shared(readings, p) \subseteq Identifiers
<1>1. p \subseteq DOMAIN readings
  BY PairsAreRecords
<1>2. \A r \in p : DOMAIN readings[r].ids \subseteq Identifiers
  BY <1>1 DEF Readings, IsReading
<1> QED
  BY <1>2 DEF Shared

\* The weight of the strongest of the shared fields is above that of the weak rule.
LEMMA StrongestWeight ==
    ASSUME NEW fields, fields \subseteq Identifiers, fields # {}
    PROVE  Max({Weight(f) : f \in fields}) \in Nat /\ Max({Weight(f) : f \in fields}) > SemanticConfidence
<1> DEFINE weights == {Weight(f) : f \in fields}
<1>1. weights \subseteq {90, 86, 85, 80, 78} /\ weights # {}
  BY DEF Weight, Identifiers
<1> HIDE DEF weights
<1>2. \E x \in weights : \A y \in weights : x >= y
  <2>1. CASE 90 \in weights
    BY <1>1, <2>1
  <2>2. CASE 90 \notin weights /\ 86 \in weights
    BY <1>1, <2>2
  <2>3. CASE 90 \notin weights /\ 86 \notin weights /\ 85 \in weights
    BY <1>1, <2>3
  <2>4. CASE 90 \notin weights /\ 86 \notin weights /\ 85 \notin weights /\ 80 \in weights
    BY <1>1, <2>4
  <2>5. CASE 90 \notin weights /\ 86 \notin weights /\ 85 \notin weights /\ 80 \notin weights
    <3>1. \A x \in weights : x = 78
      BY <1>1, <2>5
    <3>2. PICK x \in weights : TRUE
      BY <1>1
    <3> QED
      BY <3>1, <3>2
  <2> QED
    BY <2>1, <2>2, <2>3, <2>4, <2>5
<1>3. Max(weights) \in weights
  BY <1>2 DEF Max
<1>4. Max(weights) \in {90, 86, 85, 80, 78}
  BY <1>1, <1>3
<1>5. Max(weights) \in Nat /\ Max(weights) > SemanticConfidence
  BY <1>4 DEF SemanticConfidence
<1> QED
  BY <1>5 DEF weights

\* What an exact match is.
LEMMA ExactMatchesAre ==
    ASSUME NEW readings, Readings(readings), NEW c \in ExactMatches(readings)
    PROVE  /\ c \in Candidates /\ c.key.records \in Pairs(readings)
           /\ c.key.type = "corroboration" /\ c.key.method = "exact_match"
           /\ c.key.fields = Shared(readings, c.key.records)
           /\ c.confidence = Max({Weight(f) : f \in Shared(readings, c.key.records)})
           /\ c.confidence > SemanticConfidence
<1>1. PICK p \in Pairs(readings) : /\ Shared(readings, p) # {}
                                /\ c = Candidate("corroboration", "exact_match", Shared(readings, p), p,
                                                 Max({Weight(f) : f \in Shared(readings, p)}))
  BY DEF ExactMatches
<1>2. Shared(readings, p) \subseteq Identifiers /\ p \in SUBSET DOMAIN FileOf
  BY SharedAreIdentifiers, PairsAreRecords
<1>3. PICK m : m = Max({Weight(f) : f \in Shared(readings, p)})
  OBVIOUS
<1>4. m \in Nat /\ m > SemanticConfidence
  BY <1>1, <1>2, <1>3, StrongestWeight
<1>5. PICK s : s = Shared(readings, p)
  OBVIOUS
<1>6. /\ c = [key |-> c.key, confidence |-> m]
      /\ c.key = [type |-> "corroboration", method |-> "exact_match", fields |-> s, records |-> p]
      /\ c.key.type = "corroboration" /\ c.key.method = "exact_match" /\ c.key.fields = s
      /\ c.key.records = p /\ c.confidence = m
  BY <1>1, <1>3, <1>5, CandidateParts
<1>7. c.key \in Keys
  BY <1>2, <1>5, <1>6 DEF Keys
<1>8. c \in Candidates
  BY <1>4, <1>6, <1>7 DEF Candidates
<1> QED
  BY <1>3, <1>4, <1>5, <1>6, <1>8

\* What a contradiction is.
LEMMA ContradictionsAre ==
    ASSUME NEW readings, Readings(readings), NEW c \in Contradictions(readings)
    PROVE  /\ c \in Candidates /\ c.key.records \in Pairs(readings)
           /\ c.key.type = "contradiction" /\ c.key.method = "exact_match"
           /\ AgreeOn(readings, c.key.records, "transaction_reference")
           /\ c.confidence = 80
<1>1. PICK p \in Pairs(readings) : /\ AgreeOn(readings, p, "transaction_reference")
                                /\ c = Candidate("contradiction", "exact_match", Conflicting(readings, p), p, 80)
  BY DEF Contradictions
<1>2. PICK s : s = Conflicting(readings, p)
  OBVIOUS
<1>3. s \subseteq Conflictable /\ p \in SUBSET DOMAIN FileOf
  BY <1>2, PairsAreRecords DEF Conflicting, Conflictable
<1>4. /\ c = [key |-> c.key, confidence |-> 80]
      /\ c.key = [type |-> "contradiction", method |-> "exact_match", fields |-> s, records |-> p]
      /\ c.key.type = "contradiction" /\ c.key.method = "exact_match"
      /\ c.key.records = p /\ c.confidence = 80
  BY <1>1, <1>2, CandidateParts
<1>5. c.key \in Keys
  BY <1>3, <1>4 DEF Keys
<1>6. c \in Candidates
  BY <1>4, <1>5 DEF Candidates
<1> QED
  BY <1>1, <1>4, <1>6

\* What a weak lead is.
LEMMA SemanticCandidatesAre ==
    ASSUME NEW readings, Readings(readings), NEW c \in SemanticCandidates(readings)
    PROVE  /\ c \in Candidates /\ c.key.records \in Pairs(readings)
           /\ c.key.type = "corroboration" /\ c.key.method = "semantic"
           /\ c.confidence = SemanticConfidence
<1>1. PICK p \in Pairs(readings) :
        c = Candidate("corroboration", "semantic", {"amount", "event_time"}, p, SemanticConfidence)
  BY DEF SemanticCandidates
<1>2. p \in SUBSET DOMAIN FileOf
  BY PairsAreRecords
<1>3. PICK s : s = {"amount", "event_time"}
  OBVIOUS
<1>4. /\ c = [key |-> c.key, confidence |-> SemanticConfidence]
      /\ c.key = [type |-> "corroboration", method |-> "semantic", fields |-> s, records |-> p]
      /\ c.key.type = "corroboration" /\ c.key.method = "semantic"
      /\ c.key.records = p /\ c.confidence = SemanticConfidence
  BY <1>1, <1>3, CandidateParts
<1>5. s \subseteq Conflictable
  BY <1>3 DEF Conflictable
<1>6. c.key \in Keys
  BY <1>2, <1>4, <1>5 DEF Keys
<1>7. c \in Candidates
  BY <1>4, <1>6 DEF Candidates, SemanticConfidence
<1> QED
  BY <1>4, <1>7

\* What correlation finds; only the weak rule finds with a weak confidence.
LEMMA CorrelatedAre ==
    ASSUME NEW readings, Readings(readings), NEW c \in Correlated(readings)
    PROVE  /\ c \in Candidates /\ c.key.records \in Pairs(readings)
           /\ c.key.records \subseteq DOMAIN readings
           /\ (c.confidence <= SemanticConfidence) <=> (c.key.method = "semantic")
<1>1. c \in ExactMatches(readings) \/ c \in Contradictions(readings) \/ c \in SemanticCandidates(readings)
  BY DEF Correlated
<1>2. c \in Candidates /\ c.key.records \in Pairs(readings)
  BY <1>1, ExactMatchesAre, ContradictionsAre, SemanticCandidatesAre
<1>3. c.key.records \subseteq DOMAIN readings
  BY <1>2, PairsAreRecords
<1>4. (c.confidence <= SemanticConfidence) <=> (c.key.method = "semantic")
  <2>1. CASE c \in ExactMatches(readings)
    <3>1. c.confidence > SemanticConfidence /\ c.key.method = "exact_match" /\ c.confidence \in Nat
      BY <2>1, ExactMatchesAre DEF Candidates
    <3> QED
      BY <3>1 DEF SemanticConfidence
  <2>2. CASE c \in Contradictions(readings)
    <3>1. c.confidence = 80 /\ c.key.method = "exact_match"
      BY <2>2, ContradictionsAre
    <3> QED
      BY <3>1 DEF SemanticConfidence
  <2>3. CASE c \in SemanticCandidates(readings)
    <3>1. c.confidence = SemanticConfidence /\ c.key.method = "semantic"
      BY <2>3, SemanticCandidatesAre
    <3> QED
      BY <3>1 DEF SemanticConfidence
  <2> QED
    BY <1>1, <2>1, <2>2, <2>3
<1> QED
  BY <1>2, <1>3, <1>4

\* A key names one finding: type, method and records tell the rest.
LEMMA KeysTellFindings ==
    ASSUME NEW readings, Readings(readings), NEW c \in Correlated(readings), NEW d \in Correlated(readings), c.key = d.key
    PROVE  c = d
<1>1. /\ c \in ExactMatches(readings) \/ c \in Contradictions(readings) \/ c \in SemanticCandidates(readings)
      /\ d \in ExactMatches(readings) \/ d \in Contradictions(readings) \/ d \in SemanticCandidates(readings)
  BY DEF Correlated
<1>2. /\ c \in ExactMatches(readings) <=> d \in ExactMatches(readings)
      /\ c \in Contradictions(readings) <=> d \in Contradictions(readings)
      /\ c \in SemanticCandidates(readings) <=> d \in SemanticCandidates(readings)
  <2> DEFINE kind(x) == <<x.key.type, x.key.method>>
  <2>1. kind(c) = kind(d)
    OBVIOUS
  <2>2. \A x \in ExactMatches(readings) : x.key.type = "corroboration" /\ x.key.method = "exact_match"
    BY ExactMatchesAre
  <2>3. \A x \in Contradictions(readings) : x.key.type = "contradiction"
    BY ContradictionsAre
  <2>4. \A x \in SemanticCandidates(readings) : x.key.type = "corroboration" /\ x.key.method = "semantic"
    BY SemanticCandidatesAre
  <2> QED
    BY <1>1, <2>2, <2>3, <2>4
<1>3. c.confidence = d.confidence
  <2>1. CASE c \in ExactMatches(readings)
    <3>1. /\ c.confidence = Max({Weight(f) : f \in Shared(readings, c.key.records)})
          /\ d.confidence = Max({Weight(f) : f \in Shared(readings, d.key.records)})
      BY <1>2, <2>1, ExactMatchesAre, Zenon
    <3> QED
      BY <3>1, Zenon
  <2>2. CASE c \in Contradictions(readings)
    BY <1>2, <2>2, ContradictionsAre
  <2>3. CASE c \in SemanticCandidates(readings)
    BY <1>2, <2>3, SemanticCandidatesAre
  <2> QED
    BY <1>1, <2>1, <2>2, <2>3
<1>4. c \in Candidates /\ d \in Candidates
  BY CorrelatedAre
<1> QED
  BY <1>3, <1>4 DEF Candidates

\* Where two readings disagree about a transaction, they agree on which one.
LEMMA AgreementIsFound ==
    ASSUME NEW readings, Readings(readings), NEW c \in Correlated(readings), c.key.type = "contradiction"
    PROVE  \E d \in Correlated(readings) : /\ d.key.type = "corroboration" /\ d.key.records = c.key.records
                                        /\ "transaction_reference" \in d.key.fields
<1>1. c \in Contradictions(readings)
  <2>1. \A x \in ExactMatches(readings) : x.key.type = "corroboration"
    BY ExactMatchesAre
  <2>2. \A x \in SemanticCandidates(readings) : x.key.type = "corroboration"
    BY SemanticCandidatesAre
  <2> QED
    BY <2>1, <2>2 DEF Correlated
<1>2. PICK p \in Pairs(readings) : p = c.key.records /\ AgreeOn(readings, p, "transaction_reference")
  BY <1>1, ContradictionsAre
<1>3. "transaction_reference" \in Shared(readings, p)
  <2>1. p \subseteq DOMAIN readings /\ p # {}
    BY PairsAreRecords
  <2>2. PICK r \in p : "transaction_reference" \in DOMAIN readings[r].ids
    BY <2>1 DEF Readings, IsReading
  <2> QED
    BY <1>2, <2>2 DEF Shared
<1>4. PICK fields, m : fields = Shared(readings, p) /\ m = Max({Weight(f) : f \in Shared(readings, p)})
  OBVIOUS
<1>5. PICK d : d = Candidate("corroboration", "exact_match", fields, p, m)
  OBVIOUS
<1>6. d \in ExactMatches(readings)
  BY <1>3, <1>4, <1>5 DEF ExactMatches
<1>7. d.key.type = "corroboration" /\ d.key.records = p /\ d.key.fields = fields
  BY <1>5 DEF Candidate
<1> QED
  BY <1>2, <1>3, <1>4, <1>6, <1>7 DEF Correlated

\* Findings of which a pair of records has one at most are finitely many.
LEMMA OnePerPairIsFinite ==
    ASSUME NEW pairs, IsFiniteSet(pairs), NEW set, \A c \in set : c.key.records \in pairs,
           \A c, d \in set : c.key.records = d.key.records => c = d
    PROVE  IsFiniteSet(set)
<1> DEFINE names == {c.key.records : c \in set}
           f == [p \in names |-> CHOOSE c \in set : c.key.records = p]
<1>1. names \in SUBSET pairs
  OBVIOUS
<1>2. IsFiniteSet(names)
  BY <1>1, FS_Subset
<1>3. \A p \in names : f[p] \in set /\ f[p].key.records = p
  OBVIOUS
<1>4. \A c \in set : f[c.key.records] = c
  <2> TAKE c \in set
  <2>1. c.key.records \in names
    OBVIOUS
  <2>2. f[c.key.records] \in set /\ f[c.key.records].key.records = c.key.records
    BY <1>3, <2>1
  <2> QED
    BY <2>2
<1>5. f \in [names -> set]
  BY <1>3
<1>6. \A c \in set : c.key.records \in names
  OBVIOUS
<1> HIDE DEF f, names
<1>7. f \in Surjection(names, set)
  BY <1>4, <1>5, <1>6 DEF Surjection
<1> QED
  BY <1>2, <1>7, FS_Surjection

\* The findings of a case are finitely many.
LEMMA FindingsAreFinite ==
    ASSUME NEW readings, Readings(readings)
    PROVE  IsFiniteSet(Correlated(readings))
<1>1. IsFiniteSet(SUBSET DOMAIN FileOf)
  BY LinksAssumption, FS_SUBSET
<1>2. IsFiniteSet(Pairs(readings))
  BY <1>1, PairsAreRecords, FS_Subset
<1>3. IsFiniteSet(ExactMatches(readings))
  <2>1. ASSUME NEW c \in ExactMatches(readings), NEW d \in ExactMatches(readings), c.key.records = d.key.records
        PROVE  c = d
    <3>1. PICK p : p = c.key.records /\ p = d.key.records
      BY <2>1
    <3>2. PICK fields, m : fields = Shared(readings, p) /\ m = Max({Weight(f) : f \in Shared(readings, p)})
      OBVIOUS
    <3>3. /\ c \in Candidates /\ c.key.type = "corroboration" /\ c.key.method = "exact_match"
          /\ c.key.fields = fields /\ c.confidence = m
      BY <3>1, <3>2, ExactMatchesAre
    <3>4. /\ d \in Candidates /\ d.key.type = "corroboration" /\ d.key.method = "exact_match"
          /\ d.key.fields = fields /\ d.confidence = m
      BY <3>1, <3>2, ExactMatchesAre
    <3>5. c.key \in Keys /\ d.key \in Keys
      BY <3>3, <3>4 DEF Candidates
    <3>6. c.key = [type |-> "corroboration", method |-> "exact_match", fields |-> fields, records |-> p]
      BY <3>1, <3>3, <3>5 DEF Keys
    <3>7. d.key = [type |-> "corroboration", method |-> "exact_match", fields |-> fields, records |-> p]
      BY <3>1, <3>4, <3>5 DEF Keys
    <3> QED
      BY <3>3, <3>4, <3>6, <3>7 DEF Candidates
  <2> QED
    BY <1>2, <2>1, ExactMatchesAre, OnePerPairIsFinite
<1>4. IsFiniteSet(Contradictions(readings))
  <2>1. ASSUME NEW c \in Contradictions(readings), NEW d \in Contradictions(readings), c.key.records = d.key.records
        PROVE  c = d
    <3>1. PICK p \in Pairs(readings) : c = Candidate("contradiction", "exact_match", Conflicting(readings, p), p, 80)
      BY DEF Contradictions
    <3>2. PICK q \in Pairs(readings) : d = Candidate("contradiction", "exact_match", Conflicting(readings, q), q, 80)
      BY DEF Contradictions
    <3>3. c.key.records = p /\ d.key.records = q
      BY <3>1, <3>2 DEF Candidate
    <3> QED
      BY <2>1, <3>1, <3>2, <3>3
  <2> QED
    BY <1>2, <2>1, ContradictionsAre, OnePerPairIsFinite
<1>5. IsFiniteSet(SemanticCandidates(readings))
  <2>1. \A c, d \in SemanticCandidates(readings) : c.key.records = d.key.records => c = d
    BY DEF SemanticCandidates, Candidate
  <2> QED
    BY <1>2, <2>1, SemanticCandidatesAre, OnePerPairIsFinite
<1> QED
  BY <1>3, <1>4, <1>5, FS_Union, FS_EmptySet DEF Correlated

\* Two readings of a case that agree about the records of a finding.
LEMMA FindingsAreLocal ==
    ASSUME NEW readings, Readings(readings), NEW later, Readings(later),
           NEW c \in Correlated(readings), c.key.records \subseteq DOMAIN later,
           \A r \in c.key.records : later[r] = readings[r]
    PROVE  c \in Correlated(later)
<1>1. PICK p \in Pairs(readings) : p = c.key.records
  BY CorrelatedAre
<1>2. p \in Pairs(later) /\ \A r \in p : later[r] = readings[r]
  <2>1. p \subseteq DOMAIN later /\ Cardinality(p) = 2 /\ Cardinality({FileOf[r] : r \in p}) = 2
    BY <1>1 DEF Pairs, kSubset
  <2> QED
    BY <1>1, <2>1 DEF Pairs, kSubset
<1>3. \A f : AgreeOn(later, p, f) <=> AgreeOn(readings, p, f)
  BY <1>2 DEF AgreeOn
<1>4. Shared(later, p) = Shared(readings, p)
  <2>1. UNION {DOMAIN later[r].ids : r \in p} = UNION {DOMAIN readings[r].ids : r \in p}
    BY <1>2
  <2> QED
    BY <1>3, <2>1 DEF Shared
<1>5. Amounts(later, p) = Amounts(readings, p) /\ Times(later, p) = Times(readings, p)
  BY <1>2 DEF Amounts, Times
<1>6. {later[r].currency : r \in p} = {readings[r].currency : r \in p}
  BY <1>2
<1>7. Conflicting(later, p) = Conflicting(readings, p)
  BY <1>5, <1>6, Zenon DEF Conflicting
<1>8. CASE c \in ExactMatches(readings)
  <2>1. PICK q \in Pairs(readings) : /\ Shared(readings, q) # {}
                                  /\ c = Candidate("corroboration", "exact_match", Shared(readings, q), q,
                                                   Max({Weight(f) : f \in Shared(readings, q)}))
    BY <1>8 DEF ExactMatches
  <2>2. q = p
    BY <1>1, <2>1 DEF Candidate
  <2>3. /\ Shared(later, p) # {}
        /\ c = Candidate("corroboration", "exact_match", Shared(later, p), p,
                         Max({Weight(f) : f \in Shared(later, p)}))
    BY <1>4, <2>1, <2>2, Zenon
  <2>4. c \in ExactMatches(later)
    BY <1>2, <2>3 DEF ExactMatches
  <2> QED
    BY <2>4 DEF Correlated
<1>9. CASE c \in Contradictions(readings)
  <2>1. PICK q \in Pairs(readings) :
          /\ AgreeOn(readings, q, "transaction_reference") /\ Conflicting(readings, q) # {}
          /\ c = Candidate("contradiction", "exact_match", Conflicting(readings, q), q, 80)
    BY <1>9 DEF Contradictions
  <2>2. q = p
    BY <1>1, <2>1 DEF Candidate
  <2>3. /\ AgreeOn(later, p, "transaction_reference") /\ Conflicting(later, p) # {}
        /\ c = Candidate("contradiction", "exact_match", Conflicting(later, p), p, 80)
    BY <1>3, <1>7, <2>1, <2>2, Zenon
  <2>4. c \in Contradictions(later)
    BY <1>2, <2>3 DEF Contradictions
  <2> QED
    BY <2>4 DEF Correlated
<1>10. CASE Semantic /\ c \in SemanticCandidates(readings)
  <2>1. PICK q \in Pairs(readings) :
          /\ Shared(readings, q) = {} /\ Span(Amounts(readings, q)) = 0 /\ Span(Times(readings, q)) \in 0..6
          /\ c = Candidate("corroboration", "semantic", {"amount", "event_time"}, q, SemanticConfidence)
    BY <1>10 DEF SemanticCandidates
  <2>2. q = p
    BY <1>1, <2>1 DEF Candidate
  <2>3. /\ Shared(later, p) = {} /\ Span(Amounts(later, p)) = 0 /\ Span(Times(later, p)) \in 0..6
        /\ c = Candidate("corroboration", "semantic", {"amount", "event_time"}, p, SemanticConfidence)
    BY <1>4, <1>5, <2>1, <2>2, Zenon
  <2>4. c \in SemanticCandidates(later)
    BY <1>2, <2>3 DEF SemanticCandidates
  <2> QED
    BY <1>10, <2>4 DEF Correlated
<1> QED
  BY <1>8, <1>9, <1>10 DEF Correlated

-----------------------------------------------------------------------------
\* The types of RecordRelations.

IsObserved(x) ==
    \/ x = [state |-> "absent"]
    \/ /\ x = [state |-> x.state, reading |-> x.reading]
       /\ x.state \in {"unreviewed", "corrected"} /\ IsReading(x.reading)

Standings == {"candidate", "confirmed", "rejected"}
Verdicts == {"confirmed", "rejected"}
LinkRows == [key : Keys, status : Standings, method : {"semantic", "exact_match"}]
ReviewRows == [link : Nat, previous : Standings, new : Verdicts]
StoredOnly == [stage |-> "stored"]
Searches == [stage : {"found"}, found : SUBSET Candidates]
DeskTasks == [stage : {"ruling"}, link : Nat, previous : Standings, decision : Verdicts]

LinksTypeOK ==
    /\ observed = [r \in DOMAIN FileOf |-> observed[r]]
    /\ \A r \in DOMAIN FileOf : IsObserved(observed[r])
    /\ links \in Seq(LinkRows)
    /\ reviews \in Seq(ReviewRows)
    /\ correlating \in [Workers -> {Free, StoredOnly} \cup Searches]
    /\ desk \in [Reviewers -> {Free} \cup DeskTasks]
    /\ fresh \in [Workers -> SUBSET DOMAIN FileOf]
    /\ unread \subseteq DOMAIN FileOf

\* What correlation is given are readings.
LEMMA ReadsReadings ==
    ASSUME LinksTypeOK
    PROVE  Readings(Read) /\ DOMAIN Read = Present /\ \A r \in Present : Read[r] = observed[r].reading
<1>1. \A r \in Present : IsReading(observed[r].reading)
  BY DEF LinksTypeOK, IsObserved, Present
<1> QED
  BY <1>1 DEF Readings, Read, Present

\* A finding is stored as a link nobody has ruled on.
LEMMA RowOf ==
    ASSUME NEW c \in Candidates
    PROVE  Row(c) \in LinkRows /\ Row(c).key = c.key /\ Row(c).status = "candidate"
<1>1. c.key \in Keys
  BY DEF Candidates
<1> QED
  BY <1>1 DEF Row, LinkRows, Standings

\* The rows a run adds: one for each of its findings.
LEMMA AddedRows ==
    ASSUME NEW found \in SUBSET Candidates, IsFiniteSet(found), \A c, d \in found : c.key = d.key => c = d
    PROVE  LET rows == SetToSeq({Row(c) : c \in found})
           IN  /\ rows \in Seq(LinkRows)
               /\ \A n \in 1..Len(rows) : \E c \in found : rows[n] = Row(c)
               /\ \A c \in found : \E n \in 1..Len(rows) : rows[n] = Row(c)
               /\ \A m, n \in 1..Len(rows) : rows[m].key = rows[n].key => m = n
<1> PICK rows : rows = SetToSeq({Row(c) : c \in found})
  OBVIOUS
<1> DEFINE set == {Row(c) : c \in found}
           f == [c \in found |-> Row(c)]
<1>1. f \in Surjection(found, set)
  BY DEF Surjection
<1>2. IsFiniteSet(set)
  BY <1>1, FS_Surjection
<1>3. /\ rows \in Seq(set)
      /\ \A x \in set : \E n \in DOMAIN rows : rows[n] = x
      /\ \A m, n \in DOMAIN rows : rows[m] = rows[n] => m = n
  BY <1>2, SetListed
<1>4. set \subseteq LinkRows
  BY RowOf
<1>5. DOMAIN rows = 1..Len(rows) /\ \A n \in 1..Len(rows) : rows[n] \in set
  BY <1>3, TableRows
<1>6. \A n \in 1..Len(rows) : \E c \in found : rows[n] = Row(c)
  BY <1>5
<1>7. \A m, n \in 1..Len(rows) : rows[m].key = rows[n].key => m = n
  <2> TAKE m, n \in 1..Len(rows)
  <2> HAVE rows[m].key = rows[n].key
  <2>1. PICK c \in found : rows[m] = Row(c)
    BY <1>6
  <2>2. PICK d \in found : rows[n] = Row(d)
    BY <1>6
  <2>3. c.key = d.key
    BY <2>1, <2>2, RowOf
  <2>4. c = d
    BY <2>3
  <2> QED
    BY <1>3, <1>5, <2>1, <2>2, <2>4
<1>8. rows \in Seq(LinkRows)
  <2> HIDE DEF set
  <2> QED
    BY <1>3, <1>4
<1>9. \A c \in found : \E n \in 1..Len(rows) : rows[n] = Row(c)
  BY <1>3, <1>5
<1> HIDE DEF set, f
<1> QED
  BY <1>6, <1>7, <1>8, <1>9, Zenon

\* A run's findings are finitely many, and a key names one of them.
FoundAreApart ==
    \A w \in Workers : correlating[w].stage = "found" =>
        /\ IsFiniteSet(correlating[w].found)
        /\ \A c, d \in correlating[w].found : c.key = d.key => c = d

\* They stay so: they are found once.
LEMMA FindingsStayApart ==
    ASSUME LinksTypeOK, FoundAreApart, LinksNext
    PROVE  FoundAreApart'
<1>1. ASSUME NEW w \in Workers, correlating' = [correlating EXCEPT ![w] = Free] \/ correlating' = [correlating EXCEPT ![w] = StoredOnly]
      PROVE  FoundAreApart'
  BY <1>1 DEF FoundAreApart, LinksTypeOK, Free, StoredOnly
<1>2. ASSUME NEW w \in Workers, Correlate(w) PROVE FoundAreApart'
  <2> DEFINE found == IF Cardinality(Present) < 2 THEN {} ELSE {c \in Correlated(Read) : New(c)}
  <2>1. correlating' = [correlating EXCEPT ![w] = [stage |-> "found", found |-> found]]
    BY <1>2 DEF Correlate
  <2>2. found \subseteq Correlated(Read)
    OBVIOUS
  <2> HIDE DEF found
  <2>3. IsFiniteSet(found) /\ \A c, d \in found : c.key = d.key => c = d
    BY <2>2, ReadsReadings, FindingsAreFinite, FS_Subset, KeysTellFindings
  <2> QED
    BY <2>1, <2>3 DEF FoundAreApart, LinksTypeOK
<1>3. ASSUME NEW w \in Workers, NEW file, Store(w, file) PROVE FoundAreApart'
  BY <1>1, <1>3 DEF Store, StoredOnly
<1>4. ASSUME NEW w \in Workers, CommitLinks(w) PROVE FoundAreApart'
  BY <1>1, <1>4 DEF CommitLinks
<1>5. ASSUME UNCHANGED correlating PROVE FoundAreApart'
  BY <1>5 DEF FoundAreApart
<1> QED
  BY <1>2, <1>3, <1>4, <1>5 DEF LinksNext, EditReference, BeginRuling, CommitRuling

\* A reading stays one when its reference is set.
LEMMA EditedReading ==
    ASSUME NEW x, IsReading(x), NEW v
    PROVE  IsReading([x EXCEPT !.ids["transaction_reference"] = v])
<1> DEFINE y == [x EXCEPT !.ids["transaction_reference"] = v]
<1>1. y = [ids |-> [x.ids EXCEPT !["transaction_reference"] = v], amount |-> x.amount,
           currency |-> x.currency, at |-> x.at]
  BY DEF IsReading
<1>2. PICK ids : ids = [x.ids EXCEPT !["transaction_reference"] = v]
  OBVIOUS
<1>3. ids = [f \in DOMAIN ids |-> ids[f]] /\ DOMAIN ids = DOMAIN x.ids
  BY <1>2 DEF IsReading
<1> HIDE DEF y
<1>4. y = [ids |-> y.ids, amount |-> y.amount, currency |-> y.currency, at |-> y.at] /\ y.ids = ids
  BY <1>1, <1>2
<1>5. IsReading(y)
  BY <1>3, <1>4 DEF IsReading
<1> QED
  BY <1>5 DEF y

\* LinksTypeOK holds of every run: what is stored and in work has its shape,
\* whatever the records, their readings, and the number of runs and reviewers.
THEOREM LinksTypeCorrect == LinksSpec => [](LinksTypeOK /\ FoundAreApart)
<1>1. LinksInit => LinksTypeOK /\ FoundAreApart
  <2> SUFFICES ASSUME LinksInit PROVE LinksTypeOK /\ FoundAreApart
    OBVIOUS
  <2>1. \A r \in DOMAIN FileOf : IsObserved(observed[r])
    BY DEF LinksInit, IsObserved
  <2>2. links \in Seq(LinkRows) /\ reviews \in Seq(ReviewRows)
    BY DEF LinksInit
  <2>3. FoundAreApart
    BY DEF LinksInit, FoundAreApart, Free
  <2> QED
    BY <2>1, <2>2, <2>3 DEF LinksInit, LinksTypeOK
<1>2. ASSUME LinksTypeOK, FoundAreApart, LinksNext PROVE LinksTypeOK'
  <2> USE <1>2
  <2>1. ASSUME NEW w \in Workers, NEW s \in DOMAIN FileOf, Store(w, FileOf[s]) PROVE LinksTypeOK'
    <3> PICK reading \in [{r \in DOMAIN FileOf : FileOf[r] = FileOf[s]} -> UNION {ReadingsOf[r] : r \in DOMAIN FileOf}] :
          LET written == {r \in DOMAIN reading : observed[r].state \in {"absent", "unreviewed"}}
          IN  /\ \A r \in DOMAIN reading : reading[r] \in ReadingsOf[r]
              /\ observed' = [r \in DOMAIN FileOf |->
                    IF r \in written THEN [state |-> "unreviewed", reading |-> reading[r]] ELSE observed[r]]
              /\ Changed(written)
      BY <2>1 DEF Store
    <3> DEFINE written == {r \in DOMAIN reading : observed[r].state \in {"absent", "unreviewed"}}
    <3>1. written \subseteq DOMAIN FileOf
      OBVIOUS
    <3>2. \A r \in written : IsReading(reading[r])
      BY LinksAssumption
    <3> HIDE DEF written
    <3>3. observed' = [r \in DOMAIN FileOf |->
                IF r \in written THEN [state |-> "unreviewed", reading |-> reading[r]] ELSE observed[r]]
      BY DEF written
    <3>4. \A r \in DOMAIN FileOf : IsObserved(observed'[r])
      BY <3>2, <3>3 DEF LinksTypeOK, IsObserved
    <3>5. observed' = [r \in DOMAIN FileOf |-> observed'[r]]
      BY <3>3
    <3>6. unread' = unread \cup written /\ fresh' = [v \in Workers |-> fresh[v] \ written]
      BY DEF Changed, written
    <3>7. unread' \subseteq DOMAIN FileOf /\ fresh' \in [Workers -> SUBSET DOMAIN FileOf]
      BY <3>1, <3>6 DEF LinksTypeOK
    <3>8. correlating' \in [Workers -> {Free, StoredOnly} \cup Searches]
      BY <2>1 DEF Store, LinksTypeOK, StoredOnly
    <3> QED
      BY <2>1, <3>4, <3>5, <3>7, <3>8 DEF Store, LinksTypeOK
  <2>2. ASSUME NEW w \in Workers, Correlate(w) PROVE LinksTypeOK'
    <3>1. PICK found : found = IF Cardinality(Present) < 2 THEN {} ELSE {c \in Correlated(Read) : New(c)}
      OBVIOUS
    <3>2. found \in SUBSET Candidates
      BY <3>1, ReadsReadings, CorrelatedAre
    <3>3. correlating' = [correlating EXCEPT ![w] = [stage |-> "found", found |-> found]]
      BY <2>2, <3>1 DEF Correlate
    <3>4. correlating' \in [Workers -> {Free, StoredOnly} \cup Searches]
      BY <3>2, <3>3 DEF LinksTypeOK, Searches
    <3>5. fresh' \in [Workers -> SUBSET DOMAIN FileOf]
      BY <2>2 DEF Correlate, LinksTypeOK, Present
    <3> QED
      BY <2>2, <3>4, <3>5 DEF Correlate, LinksTypeOK
  <2>3. ASSUME NEW w \in Workers, CommitLinks(w) PROVE LinksTypeOK'
    <3>1. correlating' \in [Workers -> {Free, StoredOnly} \cup Searches]
      BY <2>3 DEF CommitLinks, LinksTypeOK
    <3>2. links' \in Seq(LinkRows)
      <4>1. correlating[w].stage = "found"
        BY <2>3 DEF CommitLinks
      <4>2. correlating[w].found \in SUBSET Candidates
        BY <4>1 DEF LinksTypeOK, Searches, Free, StoredOnly
      <4>3. PICK rows : rows = SetToSeq({Row(c) : c \in correlating[w].found})
        OBVIOUS
      <4>4. rows \in Seq(LinkRows)
        BY <4>1, <4>2, <4>3, AddedRows DEF FoundAreApart
      <4>5. links' = links \/ links' = links \o rows
        BY <2>3, <4>3 DEF CommitLinks
      <4>6. links \in Seq(LinkRows)
        BY DEF LinksTypeOK
      <4>7. links \o rows \in Seq(LinkRows)
        BY <4>4, <4>6, JoinedRows
      <4> QED
        BY <4>5, <4>6, <4>7
    <3>3. unread' \subseteq DOMAIN FileOf
      BY <2>3 DEF CommitLinks, LinksTypeOK
    <3> QED
      BY <2>3, <3>1, <3>2, <3>3 DEF CommitLinks, LinksTypeOK
  <2>4. ASSUME NEW r \in DOMAIN FileOf, EditReference(r) PROVE LinksTypeOK'
    <3>1. PICK v \in Edits :
            observed' = [observed EXCEPT ![r] = [state |-> "corrected",
                             reading |-> [observed[r].reading EXCEPT !.ids["transaction_reference"] = v]]]
      BY <2>4 DEF EditReference
    <3>2. IsReading(observed[r].reading)
      BY <2>4 DEF EditReference, Present, LinksTypeOK, IsObserved
    <3>4. PICK x : x = [observed[r].reading EXCEPT !.ids["transaction_reference"] = v]
      OBVIOUS
    <3>5. IsReading(x)
      BY <3>2, <3>4, EditedReading
    <3>6. observed' = [observed EXCEPT ![r] = [state |-> "corrected", reading |-> x]]
      BY <3>1, <3>4
    <3>7. \A s \in DOMAIN FileOf : IsObserved(observed'[s])
      BY <3>5, <3>6 DEF LinksTypeOK, IsObserved
    <3>8. observed' = [s \in DOMAIN FileOf |-> observed'[s]]
      BY <3>6 DEF LinksTypeOK
    <3>9. unread' \subseteq DOMAIN FileOf /\ fresh' \in [Workers -> SUBSET DOMAIN FileOf]
      BY <2>4 DEF EditReference, Changed, LinksTypeOK
    <3> QED
      BY <2>4, <3>7, <3>8, <3>9 DEF EditReference, LinksTypeOK
  <2>5. ASSUME NEW u \in Reviewers, NEW i \in DOMAIN links, BeginRuling(u, i) PROVE LinksTypeOK'
    <3>1. i \in Nat /\ links[i].status \in Standings
      <4>1. i \in Nat /\ links[i] \in LinkRows
        BY TableRows DEF LinksTypeOK
      <4> QED
        BY <4>1 DEF LinkRows
    <3>2. desk' \in [Reviewers -> {Free} \cup DeskTasks]
      BY <2>5, <3>1 DEF BeginRuling, LinksTypeOK, DeskTasks, Verdicts
    <3> QED
      BY <2>5, <3>2 DEF BeginRuling, LinksTypeOK
  <2>6. ASSUME NEW u \in Reviewers, CommitRuling(u) PROVE LinksTypeOK'
    <3>1. desk[u] \in DeskTasks
      BY <2>6 DEF CommitRuling, LinksTypeOK, Free
    <3>2. desk' \in [Reviewers -> {Free} \cup DeskTasks]
      BY <2>6 DEF CommitRuling, LinksTypeOK
    <3>3. PICK ruling : ruling = desk[u]
      OBVIOUS
    <3>4. ruling.link \in Nat /\ ruling.previous \in Standings /\ ruling.decision \in Verdicts
      BY <3>1, <3>3 DEF DeskTasks
    <3>5. links' \in Seq(LinkRows)
      <4>1. links' = links \/ links' = [links EXCEPT ![ruling.link].status = ruling.decision]
        BY <2>6, <3>3 DEF CommitRuling
      <4>2. CASE ruling.link \in DOMAIN links
        <5>1. links[ruling.link] \in LinkRows /\ ruling.link \in 1..Len(links)
          BY <4>2, TableRows DEF LinksTypeOK
        <5>2. PICK row : row = [links[ruling.link] EXCEPT !.status = ruling.decision]
          OBVIOUS
        <5>3. row \in LinkRows
          BY <3>4, <5>1, <5>2 DEF LinkRows, Verdicts, Standings
        <5>4. [links EXCEPT ![ruling.link].status = ruling.decision] = [links EXCEPT ![ruling.link] = row]
          BY <5>2, Zenon
        <5> QED
          <6>1. links \in Seq(LinkRows)
            BY DEF LinksTypeOK
          <6>2. [links EXCEPT ![ruling.link] = row] \in Seq(LinkRows)
            BY <5>1, <5>3, <6>1, WrittenRow
          <6> QED
            BY <4>1, <5>4, <6>1, <6>2
      <4>3. CASE ruling.link \notin DOMAIN links
        <5>1. [links EXCEPT ![ruling.link].status = ruling.decision] = links
          BY <4>3 DEF LinksTypeOK
        <5> QED
          BY <4>1, <5>1 DEF LinksTypeOK
      <4> QED
        BY <4>2, <4>3
    <3>7. reviews' = Append(reviews, [link |-> ruling.link, previous |-> ruling.previous, new |-> ruling.decision])
      BY <2>6, <3>3 DEF CommitRuling
    <3>8. reviews' \in Seq(ReviewRows)
      BY <3>4, <3>7, AppendedRow DEF LinksTypeOK, ReviewRows
    <3> QED
      BY <2>6, <3>2, <3>5, <3>8 DEF CommitRuling, LinksTypeOK
  <2> QED
    BY <1>2, <2>1, <2>2, <2>3, <2>4, <2>5, <2>6 DEF LinksNext
<1>3. LinksTypeOK /\ FoundAreApart /\ [LinksNext]_linkVars => (LinksTypeOK /\ FoundAreApart)'
  <2>1. ASSUME LinksTypeOK, FoundAreApart, UNCHANGED linkVars PROVE (LinksTypeOK /\ FoundAreApart)'
    BY <2>1 DEF linkVars, LinksTypeOK, FoundAreApart
  <2> QED
    BY <1>2, <2>1, FindingsStayApart
<1> QED
  BY <1>1, <1>3, PTL DEF LinksSpec

-----------------------------------------------------------------------------
\* What holds of every run: what it has found is what there was to find.

Recorded(key) == \E i \in DOMAIN links : links[i].key = key
Agreement(key, of) ==
    key.type = "corroboration" /\ key.records = of.records /\ "transaction_reference" \in key.fields

\* What runs have read that nobody has written since: the later, the more.
ReadingsNest ==
    /\ \A w \in Workers : fresh[w] \subseteq Present
    /\ \A v, w \in Workers : fresh[v] \subseteq fresh[w] \/ fresh[w] \subseteq fresh[v]

\* What a run found would be sound links, and with it nothing would be missing
\* between records nobody has written since.
FindingsHold ==
    \A w \in Workers : correlating[w].stage = "found" =>
        /\ \A c \in correlating[w].found :
             /\ (c.confidence <= SemanticConfidence) <=> (c.key.method = "semantic")
             /\ c.key.type = "contradiction" =>
                    \/ \E d \in correlating[w].found : Agreement(d.key, c.key)
                    \/ \E i \in DOMAIN links : Agreement(links[i].key, c.key)
        /\ \A c \in Correlated(Read) : c.key.records \cap unread \subseteq fresh[w] =>
             Recorded(c.key) \/ \E d \in correlating[w].found : d.key = c.key

\* A reviewer at work alone on a link sees the link as it is.
DeskIsTrue ==
    /\ \A k \in DOMAIN reviews : reviews[k].link \in DOMAIN links
    /\ \A u \in Reviewers : desk[u] # Free =>
         /\ desk[u].link \in DOMAIN links
         /\ desk[u].link \notin crossed =>
              /\ desk[u].previous = links[desk[u].link].status
              /\ \A v \in Reviewers : desk[v] # Free /\ desk[v].link = desk[u].link => v = u

LinksInv == LinksTypeOK /\ FoundAreApart /\ ReadingsNest /\ FindingsHold /\ DeskIsTrue /\ LinksAreExact

\* A commit appends a link for each finding or, where a key has come in between,
\* does nothing.
LEMMA CommitAppends ==
    ASSUME LinksTypeOK, FoundAreApart, NEW w \in Workers, CommitLinks(w)
    PROVE  /\ correlating[w].stage = "found" /\ correlating[w].found \in SUBSET Candidates
           /\ correlating' = [correlating EXCEPT ![w] = Free]
           /\ \/ links' = links /\ unread' = unread
              \/ \E rows \in Seq(LinkRows) :
                   /\ links' = links \o rows /\ unread' = unread \ fresh[w]
                   /\ \A c \in correlating[w].found : \A i \in DOMAIN links : links[i].key # c.key
                   /\ \A n \in 1..Len(rows) : \E c \in correlating[w].found : rows[n] = Row(c)
                   /\ \A c \in correlating[w].found : \E n \in 1..Len(rows) : rows[n] = Row(c)
                   /\ \A m, n \in 1..Len(rows) : rows[m].key = rows[n].key => m = n
<1>1. correlating[w].stage = "found" /\ correlating' = [correlating EXCEPT ![w] = Free]
  BY DEF CommitLinks
<1>2. correlating[w].found \in SUBSET Candidates
  BY <1>1 DEF LinksTypeOK, Searches, Free, StoredOnly
<1>3. PICK rows : rows = SetToSeq({Row(c) : c \in correlating[w].found})
  OBVIOUS
<1>4. /\ rows \in Seq(LinkRows)
      /\ \A n \in 1..Len(rows) : \E c \in correlating[w].found : rows[n] = Row(c)
      /\ \A c \in correlating[w].found : \E n \in 1..Len(rows) : rows[n] = Row(c)
      /\ \A m, n \in 1..Len(rows) : rows[m].key = rows[n].key => m = n
  <2>1. PICK found : found = correlating[w].found
    OBVIOUS
  <2>2. found \in SUBSET Candidates /\ IsFiniteSet(found) /\ \A c, d \in found : c.key = d.key => c = d
    BY <1>1, <1>2, <2>1 DEF FoundAreApart
  <2>3. rows = SetToSeq({Row(c) : c \in found})
    BY <1>3, <2>1
  <2>4. /\ rows \in Seq(LinkRows)
        /\ \A n \in 1..Len(rows) : \E c \in found : rows[n] = Row(c)
        /\ \A c \in found : \E n \in 1..Len(rows) : rows[n] = Row(c)
        /\ \A m, n \in 1..Len(rows) : rows[m].key = rows[n].key => m = n
    <3>1. LET all == SetToSeq({Row(c) : c \in found})
          IN  /\ all \in Seq(LinkRows)
              /\ \A n \in 1..Len(all) : \E c \in found : all[n] = Row(c)
              /\ \A c \in found : \E n \in 1..Len(all) : all[n] = Row(c)
              /\ \A m, n \in 1..Len(all) : all[m].key = all[n].key => m = n
      BY <2>2, AddedRows, Zenon
    <3> QED
      BY <2>3, <3>1, Zenon
  <2> QED
    BY <2>1, <2>4, Zenon
<1>5. \/ links' = links /\ unread' = unread
      \/ /\ links' = links \o rows /\ unread' = unread \ fresh[w]
         /\ \A c \in correlating[w].found : \A i \in DOMAIN links : links[i].key # c.key
  BY <1>3, Zenon DEF CommitLinks
<1> QED
  BY <1>1, <1>2, <1>4, <1>5

\* A ruling changes the status of its link and nothing else of the links.
LEMMA RulingWrites ==
    ASSUME LinksTypeOK, NEW u \in Reviewers, CommitRuling(u), desk[u].link \in DOMAIN links
    PROVE  /\ desk[u] \in DeskTasks /\ desk' = [desk EXCEPT ![u] = Free]
           /\ DOMAIN links' = DOMAIN links
           /\ \A i \in DOMAIN links : links'[i].key = links[i].key /\ links'[i].method = links[i].method
           /\ \A i \in DOMAIN links : i # desk[u].link => links'[i].status = links[i].status
           /\ desk[u].decision # desk[u].previous => links'[desk[u].link].status = desk[u].decision
           /\ desk[u].decision = desk[u].previous => links' = links
           /\ reviews' = Append(reviews, [link |-> desk[u].link, previous |-> desk[u].previous, new |-> desk[u].decision])
<1>1. desk[u] \in DeskTasks /\ desk' = [desk EXCEPT ![u] = Free]
  BY DEF CommitRuling, LinksTypeOK, Free
<1>2. PICK ruling : ruling = desk[u]
  OBVIOUS
<1>3. /\ links' = IF ruling.decision = ruling.previous THEN links ELSE [links EXCEPT ![ruling.link].status = ruling.decision]
      /\ reviews' = Append(reviews, [link |-> ruling.link, previous |-> ruling.previous, new |-> ruling.decision])
  BY <1>2 DEF CommitRuling
<1>4. CASE ruling.decision = ruling.previous
  BY <1>1, <1>2, <1>3, <1>4
<1>5. CASE ruling.decision # ruling.previous
  <2>1. PICK row : row = links[ruling.link]
    OBVIOUS
  <2>2. row \in LinkRows
    BY <1>2, <2>1, TableRows DEF LinksTypeOK
  <2>3. PICK new : new = [row EXCEPT !.status = ruling.decision]
    OBVIOUS
  <2>4. new.key = row.key /\ new.method = row.method /\ new.status = ruling.decision
    BY <2>2, <2>3 DEF LinkRows
  <2>5. links' = [links EXCEPT ![ruling.link] = new]
    BY <1>3, <1>5, <2>1, <2>3
  <2>6. \A i \in DOMAIN links : links'[i] = IF i = ruling.link THEN new ELSE links[i]
    BY <2>5
  <2>7. DOMAIN links' = DOMAIN links
    BY <2>5
  <2> HIDE DEF DeskTasks
  <2> QED
    BY <1>1, <1>2, <1>3, <1>5, <2>1, <2>4, <2>6, <2>7
<1> QED
  BY <1>4, <1>5

\* Where records are written, what is to be found between others is as before.
LEMMA WritingIsLocal ==
    ASSUME LinksTypeOK, LinksTypeOK', NEW written,
           \A r \in DOMAIN FileOf \ written : observed'[r] = observed[r],
           NEW c \in Correlated(Read)', c.key.records \cap written = {}
    PROVE  c \in Correlated(Read)
<1>1. PICK readings, later : readings = Read /\ later = Read'
  OBVIOUS
<1>2. Readings(readings) /\ DOMAIN readings = Present /\ \A r \in Present : readings[r] = observed[r].reading
  BY <1>1, ReadsReadings
<1>3. Readings(later) /\ DOMAIN later = Present' /\ \A r \in Present' : later[r] = observed'[r].reading
  <2>1. \A r \in Present' : IsReading(observed'[r].reading)
    BY DEF LinksTypeOK, IsObserved, Present
  <2>2. later = [r \in Present' |-> observed'[r].reading]
    BY <1>1 DEF Read
  <2>3. Present' \subseteq DOMAIN FileOf
    BY DEF Present
  <2> QED
    BY <2>1, <2>2, <2>3 DEF Readings
<1>4. c \in Correlated(later)
  <2>1. Correlated(Read)' = Correlated(later)
    BY <1>1 DEF Correlated, ExactMatches, Contradictions, SemanticCandidates, Pairs, Shared, AgreeOn, Conflicting,
                Amounts, Times
  <2> QED
    BY <2>1
<1>5. c.key.records \subseteq Present'
  BY <1>3, <1>4, CorrelatedAre
<1>6. \A r \in c.key.records : observed'[r] = observed[r] /\ r \in Present
  BY <1>5 DEF Present
<1>7. \A r \in c.key.records : readings[r] = later[r]
  BY <1>2, <1>3, <1>5, <1>6
<1>8. c \in Correlated(readings)
  BY <1>2, <1>3, <1>4, <1>6, <1>7, FindingsAreLocal
<1> QED
  BY <1>1, <1>8

\* What a run stores and what a reviewer edits: records are written, none removed.
LEMMA StoreWrites ==
    ASSUME NEW w \in Workers, NEW file, Store(w, file)
    PROVE  \E written : /\ Changed(written)
                        /\ \A r \in DOMAIN FileOf \ written : observed'[r] = observed[r]
                        /\ \A r \in DOMAIN FileOf \cap written : observed'[r].state = "unreviewed"
<1>1. PICK reading \in [{r \in DOMAIN FileOf : FileOf[r] = file} -> UNION {ReadingsOf[r] : r \in DOMAIN FileOf}] :
        LET written == {r \in DOMAIN reading : observed[r].state \in {"absent", "unreviewed"}}
        IN  /\ \A r \in DOMAIN reading : reading[r] \in ReadingsOf[r]
            /\ observed' = [r \in DOMAIN FileOf |->
                  IF r \in written THEN [state |-> "unreviewed", reading |-> reading[r]] ELSE observed[r]]
            /\ Changed(written)
  BY DEF Store
<1>2. PICK written : written = {r \in DOMAIN reading : observed[r].state \in {"absent", "unreviewed"}}
  OBVIOUS
<1>3. /\ Changed(written)
      /\ observed' = [r \in DOMAIN FileOf |->
            IF r \in written THEN [state |-> "unreviewed", reading |-> reading[r]] ELSE observed[r]]
  BY <1>1, <1>2
<1> QED
  BY <1>3

LEMMA EditWrites ==
    ASSUME LinksTypeOK, NEW r \in DOMAIN FileOf, EditReference(r)
    PROVE  /\ Changed({r})
           /\ \A s \in DOMAIN FileOf \ {r} : observed'[s] = observed[s]
           /\ observed'[r].state = "corrected"
<1>1. PICK v \in Edits :
        observed' = [observed EXCEPT ![r] = [state |-> "corrected",
                         reading |-> [observed[r].reading EXCEPT !.ids["transaction_reference"] = v]]]
  BY DEF EditReference
<1>2. PICK x : x = [observed[r].reading EXCEPT !.ids["transaction_reference"] = v]
  OBVIOUS
<1>3. observed' = [observed EXCEPT ![r] = [state |-> "corrected", reading |-> x]]
  BY <1>1, <1>2
<1> QED
  BY <1>3 DEF EditReference, LinksTypeOK

\* What runs have read still nests after every step.
LEMMA ReadingsStayNested ==
    ASSUME LinksTypeOK, LinksTypeOK', ReadingsNest, LinksNext
    PROVE  ReadingsNest'
<1>1. ASSUME NEW written, fresh' = [w \in Workers |-> fresh[w] \ written], Present \subseteq Present'
      PROVE  ReadingsNest'
  <2>1. \A w \in Workers : fresh'[w] = fresh[w] \ written
    BY <1>1
  <2> QED
    BY <1>1, <2>1 DEF ReadingsNest
<1>2. ASSUME NEW w \in Workers, NEW file, Store(w, file) PROVE ReadingsNest'
  <2>1. PICK written : /\ Changed(written)
                       /\ \A r \in DOMAIN FileOf \ written : observed'[r] = observed[r]
                       /\ \A r \in DOMAIN FileOf \cap written : observed'[r].state = "unreviewed"
    BY <1>2, StoreWrites
  <2>2. Present \subseteq Present'
    BY <2>1 DEF Present
  <2> QED
    BY <1>1, <2>1, <2>2 DEF Changed
<1>3. ASSUME NEW w \in Workers, Correlate(w) PROVE ReadingsNest'
  <2>1. fresh' = [fresh EXCEPT ![w] = Present] /\ Present' = Present
    BY <1>3 DEF Correlate, Present
  <2>2. \A v \in Workers : fresh'[v] = IF v = w THEN Present ELSE fresh[v]
    BY <2>1 DEF LinksTypeOK
  <2> QED
    BY <2>1, <2>2 DEF ReadingsNest
<1>4. ASSUME NEW r \in DOMAIN FileOf, EditReference(r) PROVE ReadingsNest'
  <2>1. Present \subseteq Present'
    BY <1>4, EditWrites DEF Present
  <2>2. fresh' = [w \in Workers |-> fresh[w] \ {r}]
    BY <1>4 DEF EditReference, Changed
  <2> QED
    BY <1>1, <2>1, <2>2
<1>5. ASSUME UNCHANGED <<fresh, observed>> PROVE ReadingsNest'
  BY <1>5 DEF ReadingsNest, Present
<1> QED
  BY <1>2, <1>3, <1>4, <1>5 DEF LinksNext, CommitLinks, BeginRuling, CommitRuling

\* Writing records unsettles what involves them, and nothing else.
LEMMA WritesUnsettle ==
    ASSUME LinksTypeOK, LinksTypeOK', FindingsHold, NoLinkIsMissed, NEW written, Changed(written),
           \A r \in DOMAIN FileOf \ written : observed'[r] = observed[r], UNCHANGED links,
           \A w \in Workers : correlating'[w].stage = "found" => correlating'[w] = correlating[w]
    PROVE  FindingsHold' /\ NoLinkIsMissed'
<1>1. unread' = unread \cup written /\ \A w \in Workers : fresh'[w] = fresh[w] \ written
  BY DEF Changed
<1>2. \A key : Recorded(key)' <=> Recorded(key)
  BY DEF Recorded
<1>3. NoLinkIsMissed'
  <2> SUFFICES ASSUME NEW c \in Correlated(Read)', c.key.records \cap unread' = {}
               PROVE  Recorded(c.key)'
    BY DEF NoLinkIsMissed, Recorded
  <2>1. c \in Correlated(Read)
    BY <1>1, WritingIsLocal
  <2>2. Recorded(c.key)
    BY <1>1, <2>1 DEF NoLinkIsMissed, Recorded
  <2> QED
    BY <1>2, <2>2
<1>4. FindingsHold'
  <2> SUFFICES ASSUME NEW w \in Workers, correlating'[w].stage = "found"
               PROVE  /\ \A c \in correlating'[w].found :
                           /\ (c.confidence <= SemanticConfidence) <=> (c.key.method = "semantic")
                           /\ c.key.type = "contradiction" =>
                                  \/ \E d \in correlating'[w].found : Agreement(d.key, c.key)
                                  \/ \E i \in DOMAIN links' : Agreement(links'[i].key, c.key)
                      /\ \A c \in Correlated(Read)' : c.key.records \cap unread' \subseteq fresh'[w] =>
                           Recorded(c.key)' \/ \E d \in correlating'[w].found : d.key = c.key
    BY DEF FindingsHold, Agreement
  <2>1. correlating'[w] = correlating[w] /\ correlating[w].stage = "found"
    OBVIOUS
  <2>2. ASSUME NEW c \in Correlated(Read)', c.key.records \cap unread' \subseteq fresh'[w]
        PROVE  Recorded(c.key)' \/ \E d \in correlating'[w].found : d.key = c.key
    <3>1. c.key.records \cap written = {}
      BY <1>1, <2>2
    <3>2. c \in Correlated(Read)
      BY <3>1, WritingIsLocal
    <3>3. c.key.records \cap unread \subseteq fresh[w]
      BY <1>1, <2>2
    <3> QED
      BY <1>2, <2>1, <3>2, <3>3 DEF FindingsHold
  <2> QED
    BY <2>1, <2>2 DEF FindingsHold
<1> QED
  BY <1>3, <1>4

\* A run that reads the case finds what there is to find.
LEMMA RunsFindAll ==
    ASSUME LinksTypeOK, FindingsHold, NoLinkIsMissed, NEW w \in Workers, Correlate(w)
    PROVE  FindingsHold' /\ NoLinkIsMissed'
<1> DEFINE found == IF Cardinality(Present) < 2 THEN {} ELSE {c \in Correlated(Read) : New(c)}
<1>1. /\ correlating' = [correlating EXCEPT ![w] = [stage |-> "found", found |-> found]]
      /\ UNCHANGED <<observed, links, unread>> /\ fresh' = [fresh EXCEPT ![w] = Present]
  BY DEF Correlate
<1>2. Readings(Read) /\ DOMAIN Read = Present
  BY ReadsReadings
<1>3. \A c \in Correlated(Read) : c \in found \/ Recorded(c.key)
  <2>1. CASE Cardinality(Present) < 2
    <3>1. \A c \in Correlated(Read) : FALSE
      <4> SUFFICES ASSUME NEW c \in Correlated(Read) PROVE FALSE
        OBVIOUS
      <4>1. PICK p \in Pairs(Read) : TRUE
        BY <1>2, CorrelatedAre
      <4>2. p \subseteq Present /\ Cardinality(p) = 2
        BY <1>2, PairsAreRecords
      <4>3. IsFiniteSet(Present)
        BY LinksAssumption, FS_Subset DEF Present
      <4>4. Cardinality(p) <= Cardinality(Present) /\ Cardinality(Present) \in Nat
        BY <4>2, <4>3, FS_Subset, FS_CardinalityType
      <4> QED
        BY <2>1, <4>2, <4>4
    <3> QED
      BY <3>1
  <2>2. CASE ~(Cardinality(Present) < 2)
    BY <2>2 DEF New, Recorded
  <2> QED
    BY <2>1, <2>2
<1>4. \A c \in found : c \in Correlated(Read)
  OBVIOUS
<1> HIDE DEF found
<1>5. Correlated(Read)' = Correlated(Read)
  <2>1. Read' = Read
    BY <1>1 DEF Read, Present
  <2> QED
    BY <2>1 DEF Correlated, ExactMatches, Contradictions, SemanticCandidates, Pairs, Shared, AgreeOn, Conflicting,
                Amounts, Times
<1>6. \A key : Recorded(key)' <=> Recorded(key)
  BY <1>1 DEF Recorded
<1>7. NoLinkIsMissed'
  BY <1>1, <1>5 DEF NoLinkIsMissed
<1>8. \A c \in found :
        /\ (c.confidence <= SemanticConfidence) <=> (c.key.method = "semantic")
        /\ c.key.type = "contradiction" =>
               \/ \E d \in found : Agreement(d.key, c.key)
               \/ \E i \in DOMAIN links : Agreement(links[i].key, c.key)
  <2> TAKE c \in found
  <2>1. (c.confidence <= SemanticConfidence) <=> (c.key.method = "semantic")
    BY <1>2, <1>4, CorrelatedAre
  <2>2. ASSUME c.key.type = "contradiction"
        PROVE  \/ \E d \in found : Agreement(d.key, c.key)
               \/ \E i \in DOMAIN links : Agreement(links[i].key, c.key)
    <3>1. PICK d \in Correlated(Read) : Agreement(d.key, c.key)
      BY <1>2, <1>4, <2>2, AgreementIsFound DEF Agreement
    <3> QED
      BY <1>3, <3>1 DEF Recorded
  <2> QED
    BY <2>1, <2>2
<1>9. ASSUME NEW v \in Workers, correlating'[v].stage = "found"
      PROVE  /\ \A c \in correlating'[v].found :
                  /\ (c.confidence <= SemanticConfidence) <=> (c.key.method = "semantic")
                  /\ c.key.type = "contradiction" =>
                         \/ \E d \in correlating'[v].found : Agreement(d.key, c.key)
                         \/ \E i \in DOMAIN links' : Agreement(links'[i].key, c.key)
             /\ \A c \in Correlated(Read) : c.key.records \cap unread \subseteq fresh'[v] =>
                  Recorded(c.key) \/ \E d \in correlating'[v].found : d.key = c.key
  <2>1. CASE v = w
    <3>1. correlating'[v].found = found
      BY <1>1, <2>1 DEF LinksTypeOK
    <3> QED
      BY <1>1, <1>3, <1>8, <3>1
  <2>2. CASE v # w
    <3>1. correlating'[v] = correlating[v] /\ fresh'[v] = fresh[v]
      BY <1>1, <2>2 DEF LinksTypeOK
    <3> QED
      BY <1>1, <1>9, <3>1 DEF FindingsHold
  <2> QED
    BY <2>1, <2>2
<1>10. FindingsHold'
  BY <1>1, <1>5, <1>6, <1>9 DEF FindingsHold, Agreement
<1> QED
  BY <1>7, <1>10

\* Where a run's links are stored, every finding of it is on record, and what
\* other runs found is still what there was to find.
LEMMA CommitsKeepFindings ==
    ASSUME LinksInv, NEW w \in Workers, CommitLinks(w)
    PROVE  FindingsHold' /\ LinksAreSound' /\ NoLinkIsMissed'
<1> USE DEF LinksInv, LinksAreExact
<1>1. /\ correlating[w].stage = "found" /\ correlating[w].found \in SUBSET Candidates
      /\ correlating' = [correlating EXCEPT ![w] = Free]
      /\ UNCHANGED <<observed, fresh>>
  BY CommitAppends DEF CommitLinks
<1>2. \A v \in Workers : correlating'[v].stage = "found" => v # w /\ correlating'[v] = correlating[v]
  BY <1>1 DEF LinksTypeOK, Free
<1>3. Correlated(Read)' = Correlated(Read)
  <2>1. Read' = Read
    BY <1>1 DEF Read, Present
  <2> QED
    BY <2>1 DEF Correlated, ExactMatches, Contradictions, SemanticCandidates, Pairs, Shared, AgreeOn, Conflicting,
                Amounts, Times
<1>4. CASE links' = links /\ unread' = unread
  <2>1. LinksAreSound'
    BY <1>4 DEF LinksAreSound
  <2>2. NoLinkIsMissed'
    BY <1>3, <1>4 DEF NoLinkIsMissed
  <2>3. \A key : Recorded(key)' <=> Recorded(key)
    BY <1>4 DEF Recorded
  <2>4. FindingsHold'
    BY <1>1, <1>2, <1>3, <1>4, <2>3 DEF FindingsHold, Agreement
  <2> QED
    BY <2>1, <2>2, <2>4
<1>5. ASSUME NEW rows \in Seq(LinkRows),
             links' = links \o rows, unread' = unread \ fresh[w],
             \A c \in correlating[w].found : \A i \in DOMAIN links : links[i].key # c.key,
             \A n \in 1..Len(rows) : \E c \in correlating[w].found : rows[n] = Row(c),
             \A c \in correlating[w].found : \E n \in 1..Len(rows) : rows[n] = Row(c),
             \A m, n \in 1..Len(rows) : rows[m].key = rows[n].key => m = n
      PROVE  FindingsHold' /\ LinksAreSound' /\ NoLinkIsMissed'
  <2> DEFINE old == Len(links)
             new == Len(rows)
  <2>1. /\ old \in Nat /\ new \in Nat /\ DOMAIN links = 1..old
        /\ links' \in Seq(LinkRows) /\ Len(links') = old + new
        /\ \A n \in 1..old : links'[n] = links[n]
        /\ \A n \in 1..new : links'[old + n] = rows[n]
    <3>1. links \in Seq(LinkRows)
      BY DEF LinksTypeOK
    <3> QED
      BY <1>5, <3>1, JoinedRows, TableRows
  <2>2. DOMAIN links' = 1..(old + new)
    BY <2>1, TableRows
  <2> HIDE DEF old, new
  <2>3. \A i \in DOMAIN links : i \in DOMAIN links' /\ links'[i] = links[i]
    BY <2>1, <2>2
  <2>4. \A i \in DOMAIN links' : i \in DOMAIN links \/ \E n \in 1..new : i = old + n /\ links'[i] = rows[n]
    <3> TAKE i \in DOMAIN links'
    <3>1. i \in 1..old \/ (i - old \in 1..new /\ i = old + (i - old))
      BY <2>1, <2>2
    <3> QED
      BY <2>1, <3>1
  <2>5. \A i \in DOMAIN links' : i \in DOMAIN links \/ \E c \in correlating[w].found : links'[i] = Row(c)
    <3> TAKE i \in DOMAIN links'
    <3>1. CASE i \notin DOMAIN links
      <4>1. PICK n \in 1..new : links'[i] = rows[n]
        BY <2>4, <3>1
      <4>2. PICK c \in correlating[w].found : rows[n] = Row(c)
        BY <1>5 DEF new
      <4> QED
        BY <4>1, <4>2
    <3> QED
      BY <3>1
  <2>6. \A c \in correlating[w].found :
          /\ Row(c).key = c.key /\ c \in Candidates
          /\ \E i \in DOMAIN links' : links'[i].key = c.key
    <3> TAKE c \in correlating[w].found
    <3>1. Row(c).key = c.key /\ c \in Candidates
      BY <1>1, RowOf
    <3>2. PICK n \in 1..new : rows[n] = Row(c)
      BY <1>5 DEF new
    <3>3. old + n \in DOMAIN links' /\ links'[old + n] = rows[n]
      BY <2>1, <2>2
    <3> QED
      BY <3>1, <3>2, <3>3
  <2>7. \A i, j \in DOMAIN links' : links'[i].key = links'[j].key => i = j
    <3> TAKE i, j \in DOMAIN links'
    <3> HAVE links'[i].key = links'[j].key
    <3>1. CASE i \in DOMAIN links /\ j \in DOMAIN links
      BY <2>3, <3>1 DEF LinksAreSound
    <3>2. ASSUME NEW a \in DOMAIN links, NEW b \in DOMAIN links', b \notin DOMAIN links PROVE links'[a].key # links'[b].key
      <4>1. PICK c \in correlating[w].found : links'[b] = Row(c)
        BY <2>5, <3>2
      <4>2. links[a].key # c.key
        BY <1>5, <3>2
      <4> QED
        BY <2>3, <2>6, <4>1, <4>2
    <3>3. CASE i \notin DOMAIN links /\ j \notin DOMAIN links
      <4>1. PICK m \in 1..new : i = old + m /\ links'[i] = rows[m]
        BY <2>4, <3>3
      <4>2. PICK n \in 1..new : j = old + n /\ links'[j] = rows[n]
        BY <2>4, <3>3
      <4>3. rows[m].key = rows[n].key
        BY <4>1, <4>2
      <4>4. m = n
        BY <1>5, <4>3 DEF new
      <4> QED
        BY <4>1, <4>2, <4>4
    <3> QED
      BY <3>1, <3>2, <3>3
  <2>8. ASSUME NEW key, key.type = "contradiction",
               \/ \E d \in correlating[w].found : Agreement(d.key, key)
               \/ \E i \in DOMAIN links : Agreement(links[i].key, key)
        PROVE  \E i \in DOMAIN links' : Agreement(links'[i].key, key)
    <3>1. CASE \E i \in DOMAIN links : Agreement(links[i].key, key)
      BY <2>3, <3>1
    <3>2. CASE \E d \in correlating[w].found : Agreement(d.key, key)
      <4>1. PICK d \in correlating[w].found : Agreement(d.key, key)
        BY <3>2
      <4>2. PICK i \in DOMAIN links' : links'[i].key = d.key
        BY <2>6
      <4> QED
        BY <4>1, <4>2
    <3> QED
      BY <2>8, <3>1, <3>2
  <2>9. \A i \in DOMAIN links' :
          /\ links'[i].method = links'[i].key.method
          /\ links'[i].key.type = "contradiction" => \E j \in DOMAIN links' : Agreement(links'[j].key, links'[i].key)
    <3> TAKE i \in DOMAIN links'
    <3>1. CASE i \in DOMAIN links
      <4>1. links'[i] = links[i] /\ links[i].method = links[i].key.method
        BY <2>3, <3>1 DEF LinksAreSound
      <4>2. links[i].key.type = "contradiction" => \E j \in DOMAIN links : Agreement(links[j].key, links[i].key)
        BY <3>1 DEF LinksAreSound, Agreement
      <4> QED
        BY <2>3, <4>1, <4>2
    <3>2. CASE i \notin DOMAIN links
      <4>1. PICK c \in correlating[w].found : links'[i] = Row(c)
        BY <2>5, <3>2
      <4>2. links'[i].key = c.key
        BY <2>6, <4>1
      <4>3. (c.confidence <= SemanticConfidence) <=> (c.key.method = "semantic")
        BY <1>1 DEF FindingsHold
      <4>4. c.key.method \in {"exact_match", "semantic"}
        BY <2>6 DEF Candidates, Keys
      <4>5. links'[i].method = c.key.method
        BY <4>1, <4>3, <4>4 DEF Row
      <4>6. c.key.type = "contradiction" =>
              \/ \E d \in correlating[w].found : Agreement(d.key, c.key)
              \/ \E j \in DOMAIN links : Agreement(links[j].key, c.key)
        BY <1>1 DEF FindingsHold
      <4> QED
        BY <2>8, <4>2, <4>5, <4>6
    <3> QED
      BY <3>1, <3>2
  <2>10. LinksAreSound'
    BY <2>7, <2>9 DEF LinksAreSound, Agreement
  <2>11. \A c \in Correlated(Read) : c.key.records \cap unread \subseteq fresh[w] => Recorded(c.key)'
    <3> TAKE c \in Correlated(Read)
    <3> HAVE c.key.records \cap unread \subseteq fresh[w]
    <3>1. Recorded(c.key) \/ \E d \in correlating[w].found : d.key = c.key
      BY <1>1 DEF FindingsHold
    <3> QED
      BY <2>3, <2>6, <3>1 DEF Recorded
  <2>12. NoLinkIsMissed'
    <3> SUFFICES ASSUME NEW c \in Correlated(Read), c.key.records \cap unread' = {} PROVE Recorded(c.key)'
      BY <1>3 DEF NoLinkIsMissed, Recorded
    <3>1. c.key.records \cap unread \subseteq fresh[w]
      BY <1>5
    <3> QED
      BY <2>11, <3>1
  <2>13. FindingsHold'
    <3> SUFFICES ASSUME NEW v \in Workers, correlating'[v].stage = "found"
                 PROVE  /\ \A c \in correlating'[v].found :
                             /\ (c.confidence <= SemanticConfidence) <=> (c.key.method = "semantic")
                             /\ c.key.type = "contradiction" =>
                                    \/ \E d \in correlating'[v].found : Agreement(d.key, c.key)
                                    \/ \E i \in DOMAIN links' : Agreement(links'[i].key, c.key)
                        /\ \A c \in Correlated(Read) : c.key.records \cap unread' \subseteq fresh'[v] =>
                             Recorded(c.key)' \/ \E d \in correlating'[v].found : d.key = c.key
      BY <1>3 DEF FindingsHold, Agreement
    <3>1. v # w /\ correlating'[v] = correlating[v] /\ correlating[v].stage = "found" /\ fresh'[v] = fresh[v]
      BY <1>1, <1>2
    <3>2. ASSUME NEW c \in correlating[v].found
          PROVE  /\ (c.confidence <= SemanticConfidence) <=> (c.key.method = "semantic")
                 /\ c.key.type = "contradiction" =>
                        \/ \E d \in correlating[v].found : Agreement(d.key, c.key)
                        \/ \E i \in DOMAIN links' : Agreement(links'[i].key, c.key)
      BY <2>3, <3>1 DEF FindingsHold
    <3>3. ASSUME NEW c \in Correlated(Read), c.key.records \cap unread' \subseteq fresh[v]
          PROVE  Recorded(c.key)' \/ \E d \in correlating[v].found : d.key = c.key
      <4>1. c.key.records \cap unread \subseteq fresh[v] \/ c.key.records \cap unread \subseteq fresh[w]
        BY <1>5, <3>3 DEF ReadingsNest
      <4>2. CASE c.key.records \cap unread \subseteq fresh[w]
        BY <2>11, <4>2
      <4>3. CASE c.key.records \cap unread \subseteq fresh[v]
        <5>1. Recorded(c.key) \/ \E d \in correlating[v].found : d.key = c.key
          BY <3>1, <4>3 DEF FindingsHold
        <5> QED
          BY <2>3, <5>1 DEF Recorded
      <4> QED
        BY <4>1, <4>2, <4>3
    <3> QED
      BY <3>1, <3>2, <3>3
  <2> QED
    BY <2>10, <2>12, <2>13
<1> QED
  BY <1>4, <1>5, CommitAppends

\* Where neither records nor runs change, findings stand as the links do.
LEMMA RulingsKeepFindings ==
    ASSUME LinksTypeOK, FindingsHold, NoLinkIsMissed, LinksAreSound, UNCHANGED <<observed, correlating, unread, fresh>>,
           DOMAIN links' = DOMAIN links,
           \A i \in DOMAIN links : links'[i].key = links[i].key /\ links'[i].method = links[i].method
    PROVE  FindingsHold' /\ LinksAreSound' /\ NoLinkIsMissed'
<1>1. Correlated(Read)' = Correlated(Read)
  <2>1. Read' = Read
    BY DEF Read, Present
  <2> QED
    BY <2>1 DEF Correlated, ExactMatches, Contradictions, SemanticCandidates, Pairs, Shared, AgreeOn, Conflicting,
                Amounts, Times
<1>2. \A key : Recorded(key)' <=> Recorded(key)
  BY DEF Recorded
<1>3. NoLinkIsMissed'
  BY <1>1, <1>2 DEF NoLinkIsMissed, Recorded
<1>4. LinksAreSound'
  BY DEF LinksAreSound
<1>5. \A key : (\E i \in DOMAIN links' : Agreement(links'[i].key, key)) <=> \E i \in DOMAIN links : Agreement(links[i].key, key)
  OBVIOUS
<1>6. FindingsHold'
  BY <1>1, <1>2, <1>5 DEF FindingsHold, Agreement
<1> QED
  BY <1>3, <1>4, <1>6

\* Links that are added have not been ruled on; rulings on the others stand.
LEMMA CommitsKeepRulings ==
    ASSUME LinksInv, NEW w \in Workers, CommitLinks(w)
    PROVE  DeskIsTrue' /\ RulingsStand'
<1> USE DEF LinksInv, LinksAreExact
<1>1. UNCHANGED <<reviews, desk, crossed>>
  BY DEF CommitLinks
<1>2. CASE links' = links
  BY <1>1, <1>2 DEF DeskIsTrue, RulingsStand, StoodAs, Earlier
<1>3. ASSUME NEW rows \in Seq(LinkRows), links' = links \o rows,
             \A n \in 1..Len(rows) : \E c \in correlating[w].found : rows[n] = Row(c)
      PROVE  DeskIsTrue' /\ RulingsStand'
  <2>1. /\ Len(links) \in Nat /\ Len(rows) \in Nat /\ DOMAIN links = 1..Len(links)
        /\ links' \in Seq(LinkRows) /\ Len(links') = Len(links) + Len(rows)
        /\ \A n \in 1..Len(links) : links'[n] = links[n]
        /\ \A n \in 1..Len(rows) : links'[Len(links) + n] = rows[n]
    <3>1. links \in Seq(LinkRows)
      BY DEF LinksTypeOK
    <3> QED
      BY <1>3, <3>1, JoinedRows, TableRows
  <2>2. DOMAIN links' = 1..(Len(links) + Len(rows))
    BY <2>1, TableRows
  <2>3. \A i \in DOMAIN links : i \in DOMAIN links' /\ links'[i] = links[i]
    BY <2>1, <2>2
  <2>4. \A i \in DOMAIN links' : i \in DOMAIN links \/ links'[i].status = "candidate"
    <3> TAKE i \in DOMAIN links'
    <3>1. i \in 1..Len(links) \/ (i - Len(links) \in 1..Len(rows) /\ i = Len(links) + (i - Len(links)))
      BY <2>1, <2>2
    <3>2. ASSUME NEW n \in 1..Len(rows) PROVE rows[n].status = "candidate"
      <4>1. PICK c \in correlating[w].found : rows[n] = Row(c)
        BY <1>3
      <4> QED
        BY <4>1 DEF Row
    <3> QED
      BY <2>1, <3>1, <3>2
  <2>5. DeskIsTrue'
    BY <1>1, <2>3 DEF DeskIsTrue
  <2>6. \A i, k, status : StoodAs(i, k, status)' <=> StoodAs(i, k, status)
    BY <1>1 DEF StoodAs, Earlier
  <2>7. ASSUME NEW i \in DOMAIN links' \ crossed
        PROVE  /\ StoodAs(i, Len(reviews) + 1, links'[i].status)
               /\ \A k \in DOMAIN reviews : reviews[k].link = i => StoodAs(i, k, reviews[k].previous)
    <3>1. CASE i \in DOMAIN links
      BY <2>3, <2>7, <3>1 DEF RulingsStand
    <3>2. CASE i \notin DOMAIN links
      <4>1. \A k \in DOMAIN reviews : reviews[k].link # i
        BY <3>2 DEF DeskIsTrue
      <4>2. Len(reviews) \in Nat /\ DOMAIN reviews = 1..Len(reviews)
        BY TableRows DEF LinksTypeOK
      <4>3. Earlier(i, Len(reviews) + 1) = {}
        BY <4>1, <4>2 DEF Earlier
      <4> QED
        BY <2>4, <2>7, <3>2, <4>1, <4>3 DEF StoodAs
    <3> QED
      BY <3>1, <3>2
  <2>8. RulingsStand'
    BY <1>1, <2>6, <2>7 DEF RulingsStand
  <2> QED
    BY <2>5, <2>8
<1> QED
  BY <1>2, <1>3, CommitAppends

\* A link a second request takes up is one two requests rule on.
LEMMA TakingUpKeepsRulings ==
    ASSUME LinksInv, NEW u \in Reviewers, NEW i \in DOMAIN links, BeginRuling(u, i)
    PROVE  DeskIsTrue' /\ RulingsStand'
<1> USE DEF LinksInv, LinksAreExact
<1>1. /\ UNCHANGED <<links, reviews>> /\ desk[u] = Free
      /\ crossed' = IF \E v \in Reviewers : desk[v] # Free /\ desk[v].link = i THEN crossed \cup {i} ELSE crossed
  BY DEF BeginRuling
<1>2. PICK task : /\ desk' = [desk EXCEPT ![u] = task]
                  /\ task.link = i /\ task.previous = links[i].status /\ task # Free
  <2>1. PICK decision \in {"confirmed", "rejected"} :
          desk' = [desk EXCEPT ![u] = [stage |-> "ruling", link |-> i, previous |-> links[i].status, decision |-> decision]]
    BY DEF BeginRuling
  <2>2. PICK task : task = [stage |-> "ruling", link |-> i, previous |-> links[i].status, decision |-> decision]
    OBVIOUS
  <2>3. task.link = i /\ task.previous = links[i].status /\ task.stage = "ruling"
    BY <2>2
  <2>4. task # Free
    BY <2>3 DEF Free
  <2> QED
    BY <2>1, <2>2, <2>3, <2>4
<1>3. \A v \in Reviewers : desk'[v] = IF v = u THEN task ELSE desk[v]
  BY <1>2 DEF LinksTypeOK
<1>4. crossed \subseteq crossed'
  BY <1>1
<1>5. ASSUME NEW v \in Reviewers, desk'[v] # Free, desk'[v].link \notin crossed'
      PROVE  /\ desk'[v].link \in DOMAIN links /\ desk'[v].previous = links[desk'[v].link].status
             /\ \A x \in Reviewers : desk'[x] # Free /\ desk'[x].link = desk'[v].link => x = v
  <2>1. CASE v = u
    <3>1. \A x \in Reviewers : desk[x] # Free => desk[x].link # i
      BY <1>1, <1>2, <1>3, <1>5, <2>1
    <3> QED
      BY <1>2, <1>3, <2>1, <3>1
  <2>2. CASE v # u
    <3>1. desk'[v] = desk[v] /\ desk[v] # Free /\ desk[v].link \notin crossed
      BY <1>3, <1>4, <1>5, <2>2
    <3>2. desk[v].link # i
      BY <1>1, <1>5, <3>1
    <3>3. /\ desk[v].link \in DOMAIN links /\ desk[v].previous = links[desk[v].link].status
          /\ \A x \in Reviewers : desk[x] # Free /\ desk[x].link = desk[v].link => x = v
      BY <3>1 DEF DeskIsTrue
    <3> QED
      BY <1>2, <1>3, <3>1, <3>2, <3>3
  <2> QED
    BY <2>1, <2>2
<1>6. \A v \in Reviewers : desk'[v] # Free => desk'[v].link \in DOMAIN links
  BY <1>2, <1>3 DEF DeskIsTrue
<1>7. DeskIsTrue'
  BY <1>1, <1>5, <1>6 DEF DeskIsTrue
<1>8. RulingsStand'
  <2>1. \A j, k, status : StoodAs(j, k, status)' <=> StoodAs(j, k, status)
    BY <1>1 DEF StoodAs, Earlier
  <2> QED
    BY <1>1, <1>4, <2>1 DEF RulingsStand
<1> QED
  BY <1>7, <1>8

\* A ruling follows on the one before, unless another was made at once.
LEMMA RulingsFollow ==
    ASSUME LinksInv, NEW u \in Reviewers, CommitRuling(u)
    PROVE  DeskIsTrue' /\ RulingsStand'
<1> USE DEF LinksInv, LinksAreExact
<1>1. desk[u] # Free /\ desk[u].link \in DOMAIN links /\ UNCHANGED crossed
  BY DEF CommitRuling, DeskIsTrue, Free
<1>2. PICK at, was, now : at = desk[u].link /\ was = desk[u].previous /\ now = desk[u].decision
  OBVIOUS
<1>3. /\ desk' = [desk EXCEPT ![u] = Free] /\ DOMAIN links' = DOMAIN links
      /\ \A i \in DOMAIN links : i # at => links'[i].status = links[i].status
      /\ now # was => links'[at].status = now
      /\ now = was => links' = links
      /\ reviews' = Append(reviews, [link |-> at, previous |-> was, new |-> now])
      /\ desk[u] \in DeskTasks
  BY <1>1, <1>2, RulingWrites
<1>4. PICK row : row = [link |-> at, previous |-> was, new |-> now]
  OBVIOUS
<1>5. row \in ReviewRows /\ row.link = at /\ row.previous = was /\ row.new = now
  BY <1>2, <1>3, <1>4 DEF ReviewRows, DeskTasks
<1>6. PICK old : old = Len(reviews)
  OBVIOUS
<1>7. /\ old \in Nat /\ DOMAIN reviews = 1..old
      /\ reviews' \in Seq(ReviewRows) /\ Len(reviews') = old + 1
      /\ reviews'[old + 1] = row /\ \A k \in 1..old : reviews'[k] = reviews[k]
  <2>1. reviews \in Seq(ReviewRows)
    BY DEF LinksTypeOK
  <2> QED
    BY <1>3, <1>4, <1>5, <1>6, <2>1, TableRows, AppendedRow
<1>8. DOMAIN reviews' = 1..(old + 1)
  BY <1>7, TableRows
<1>9. \A v \in Reviewers : desk'[v] # Free => v # u /\ desk'[v] = desk[v]
  BY <1>3 DEF LinksTypeOK
<1>10. DeskIsTrue'
  <2>1. \A k \in DOMAIN reviews' : reviews'[k].link \in DOMAIN links'
    <3> TAKE k \in DOMAIN reviews'
    <3>1. k \in 1..old \/ k = old + 1
      BY <1>7, <1>8
    <3>2. \A n \in 1..old : reviews[n].link \in DOMAIN links
      BY <1>7 DEF DeskIsTrue
    <3> QED
      BY <1>1, <1>2, <1>3, <1>5, <1>7, <3>1, <3>2
  <2>2. ASSUME NEW v \in Reviewers, desk'[v] # Free
        PROVE  /\ desk'[v].link \in DOMAIN links'
               /\ desk'[v].link \notin crossed' =>
                    /\ desk'[v].previous = links'[desk'[v].link].status
                    /\ \A x \in Reviewers : desk'[x] # Free /\ desk'[x].link = desk'[v].link => x = v
    <3>1. v # u /\ desk'[v] = desk[v] /\ desk[v] # Free
      BY <1>9, <2>2
    <3>2. desk[v].link \in DOMAIN links
      BY <3>1 DEF DeskIsTrue
    <3>3. ASSUME desk[v].link \notin crossed
          PROVE  /\ desk[v].previous = links'[desk[v].link].status
                 /\ \A x \in Reviewers : desk'[x] # Free /\ desk'[x].link = desk[v].link => x = v
      <4>1. /\ desk[v].previous = links[desk[v].link].status
            /\ \A x \in Reviewers : desk[x] # Free /\ desk[x].link = desk[v].link => x = v
        BY <3>1, <3>3 DEF DeskIsTrue
      <4>2. desk[v].link # at
        BY <1>1, <1>2, <3>1, <4>1
      <4> QED
        BY <1>3, <1>9, <3>2, <4>1, <4>2
    <3> QED
      BY <1>1, <1>3, <3>1, <3>2, <3>3
  <2> QED
    BY <2>1, <2>2 DEF DeskIsTrue
<1>11. ASSUME NEW i, NEW k \in 1..(old + 1), NEW status, StoodAs(i, k, status) PROVE StoodAs(i, k, status)'
  <2>1. Earlier(i, k)' = Earlier(i, k)
    BY <1>7 DEF Earlier
  <2>2. \A j \in Earlier(i, k) : reviews'[j] = reviews[j]
    BY <1>7 DEF Earlier
  <2> QED
    BY <1>11, <2>1, <2>2 DEF StoodAs
<1>12. ASSUME NEW i \in DOMAIN links \ crossed
       PROVE  /\ StoodAs(i, old + 1, links[i].status)
              /\ \A k \in 1..old : reviews[k].link = i => StoodAs(i, k, reviews[k].previous)
              /\ i = at => was = links[i].status
  BY <1>1, <1>2, <1>6, <1>7, <1>12 DEF RulingsStand, DeskIsTrue
<1>13. ASSUME NEW i \in DOMAIN links \ crossed, NEW k \in DOMAIN reviews', reviews'[k].link = i,
              NEW status, status = reviews'[k].previous
       PROVE  StoodAs(i, k, status)'
  <2>1. k \in 1..(old + 1)
    BY <1>8, <1>13
  <2>2. CASE k \in 1..old
    <3>1. reviews'[k] = reviews[k]
      BY <1>7, <2>2
    <3>2. StoodAs(i, k, status)
      BY <1>12, <1>13, <2>2, <3>1
    <3> QED
      BY <1>11, <2>1, <3>2
  <2>3. CASE k = old + 1
    <3>1. i = at /\ status = was
      BY <1>5, <1>7, <1>13, <2>3
    <3>2. StoodAs(i, k, status)
      BY <1>12, <2>3, <3>1
    <3> QED
      BY <1>11, <2>1, <3>2
  <2> QED
    BY <1>7, <2>1, <2>2, <2>3
<1>14. ASSUME NEW i \in DOMAIN links \ crossed, NEW status, status = links'[i].status
       PROVE  StoodAs(i, old + 2, status)'
  <2>1. CASE i = at
    <3>1. status = now
      BY <1>3, <1>12, <1>14, <2>1
    <3>2. old + 1 \in Earlier(i, old + 2)' /\ \A l \in Earlier(i, old + 2)' : l <= old + 1
      BY <1>5, <1>7, <2>1 DEF Earlier
    <3>3. reviews'[old + 1].new = now
      BY <1>5, <1>7
    <3> QED
      BY <3>1, <3>2, <3>3 DEF StoodAs
  <2>2. CASE i # at
    <3>1. status = links[i].status
      BY <1>3, <1>14, <2>2
    <3>2. Earlier(i, old + 2)' = Earlier(i, old + 1)
      <4>1. \A j \in 1..(old + 1) : (reviews'[j].link = i) <=> (j \in 1..old /\ reviews[j].link = i)
        <5> TAKE j \in 1..(old + 1)
        <5>1. j \in 1..old \/ (j = old + 1 /\ j \notin 1..old)
          BY <1>7
        <5> QED
          BY <1>5, <1>7, <2>2, <5>1
      <4>2. (old + 2) - 1 = old + 1 /\ (old + 1) - 1 = old /\ 1..old \subseteq 1..(old + 1)
        BY <1>7
      <4>3. Earlier(i, old + 2)' = {j \in 1..(old + 1) : reviews'[j].link = i}
        BY <4>2 DEF Earlier
      <4>4. Earlier(i, old + 1) = {j \in 1..old : reviews[j].link = i}
        BY <4>2 DEF Earlier
      <4> QED
        BY <4>1, <4>2, <4>3, <4>4
    <3>3. \A j \in Earlier(i, old + 1) : reviews'[j] = reviews[j]
      BY <1>7 DEF Earlier
    <3>4. StoodAs(i, old + 1, status)
      BY <1>12, <3>1
    <3> QED
      BY <3>2, <3>3, <3>4 DEF StoodAs
  <2> QED
    BY <2>1, <2>2
<1>15. RulingsStand'
  <2>1. Len(reviews') + 1 = old + 2
    BY <1>7
  <2>2. \A i \in DOMAIN links \ crossed : \A status : status = links'[i].status => StoodAs(i, old + 2, status)'
    BY <1>14
  <2>3. \A i \in DOMAIN links \ crossed : \A k \in DOMAIN reviews' : reviews'[k].link = i =>
          \A status : status = reviews'[k].previous => StoodAs(i, k, status)'
    BY <1>13
  <2> QED
    BY <1>1, <1>3, <2>1, <2>2, <2>3 DEF RulingsStand
<1> QED
  BY <1>10, <1>15

\* LinksAreExact holds of every run: whatever the records and readings, and however
\* correlating runs, edits and rulings overlap, between records that stored
\* correlations have read every link there is to find is on record, once; a
\* disagreement has beside it the agreement that makes it one; and a link stands as
\* the last ruling left it, but where two were made at once.
THEOREM LinksAreFoundOnce == LinksSpec => []LinksAreExact
<1>1. LinksInit => LinksInv
  <2> SUFFICES ASSUME LinksInit PROVE LinksInv
    OBVIOUS
  <2>1. LinksTypeOK /\ FoundAreApart
    <3>1. \A r \in DOMAIN FileOf : IsObserved(observed[r])
      BY DEF LinksInit, IsObserved
    <3>2. links \in Seq(LinkRows) /\ reviews \in Seq(ReviewRows)
      BY DEF LinksInit
    <3>3. FoundAreApart
      BY DEF LinksInit, FoundAreApart, Free
    <3> QED
      BY <3>1, <3>2, <3>3 DEF LinksInit, LinksTypeOK
  <2>2. Present = {} /\ DOMAIN links = {} /\ DOMAIN reviews = {}
    BY DEF LinksInit, Present
  <2>3. ReadingsNest /\ FindingsHold /\ DeskIsTrue
    BY <2>2 DEF LinksInit, ReadingsNest, FindingsHold, DeskIsTrue, Free
  <2>4. LinksAreSound /\ RulingsStand
    BY <2>2 DEF LinksAreSound, RulingsStand
  <2>5. NoLinkIsMissed
    <3> SUFFICES ASSUME NEW c \in Correlated(Read) PROVE FALSE
      BY DEF NoLinkIsMissed
    <3>1. PICK p \in Pairs(Read) : p \subseteq Present /\ p # {}
      BY <2>1, CorrelatedAre, ReadsReadings, PairsAreRecords
    <3> QED
      BY <2>2, <3>1
  <2> QED
    BY <2>1, <2>3, <2>4, <2>5 DEF LinksInv, LinksAreExact
<1>2. ASSUME LinksInv, LinksTypeOK', FoundAreApart', LinksNext PROVE LinksInv'
  <2> USE <1>2
  <2>1. ReadingsNest'
    BY ReadingsStayNested DEF LinksInv
  <2>2. ASSUME NEW written, Changed(written), UNCHANGED <<links, reviews, desk, crossed>>,
               \A r \in DOMAIN FileOf \ written : observed'[r] = observed[r],
               \A w \in Workers : correlating'[w].stage = "found" => correlating'[w] = correlating[w]
        PROVE  FindingsHold' /\ DeskIsTrue' /\ LinksAreExact'
    <3>1. FindingsHold' /\ NoLinkIsMissed'
      BY <2>2, WritesUnsettle DEF LinksInv, LinksAreExact
    <3>2. DeskIsTrue' /\ LinksAreSound' /\ RulingsStand'
      BY <2>2 DEF LinksInv, LinksAreExact, DeskIsTrue, LinksAreSound, RulingsStand, StoodAs, Earlier
    <3> QED
      BY <3>1, <3>2 DEF LinksAreExact
  <2>3. ASSUME NEW w \in Workers, NEW file, Store(w, file)
        PROVE  FindingsHold' /\ DeskIsTrue' /\ LinksAreExact'
    <3>1. PICK written : /\ Changed(written)
                         /\ \A r \in DOMAIN FileOf \ written : observed'[r] = observed[r]
      BY <2>3, StoreWrites
    <3>2. UNCHANGED <<links, reviews, desk, crossed>>
      BY <2>3 DEF Store
    <3>3. \A v \in Workers : correlating'[v].stage = "found" => correlating'[v] = correlating[v]
      BY <2>3 DEF Store, LinksInv, LinksTypeOK
    <3> QED
      BY <2>2, <3>1, <3>2, <3>3
  <2>4. ASSUME NEW r \in DOMAIN FileOf, EditReference(r)
        PROVE  FindingsHold' /\ DeskIsTrue' /\ LinksAreExact'
    <3>1. /\ Changed({r}) /\ \A s \in DOMAIN FileOf \ {r} : observed'[s] = observed[s]
          /\ UNCHANGED <<links, reviews, desk, crossed>>
      BY <2>4, EditWrites DEF EditReference, LinksInv
    <3>2. \A v \in Workers : correlating'[v].stage = "found" => correlating'[v] = correlating[v]
      BY <2>4 DEF EditReference
    <3> QED
      BY <2>2, <3>1, <3>2
  <2>5. ASSUME NEW w \in Workers, Correlate(w) PROVE FindingsHold' /\ DeskIsTrue' /\ LinksAreExact'
    <3>1. FindingsHold' /\ NoLinkIsMissed'
      BY <2>5, RunsFindAll DEF LinksInv, LinksAreExact
    <3>2. DeskIsTrue' /\ LinksAreSound' /\ RulingsStand'
      BY <2>5 DEF Correlate, LinksInv, LinksAreExact, DeskIsTrue, LinksAreSound, RulingsStand, StoodAs, Earlier
    <3> QED
      BY <3>1, <3>2 DEF LinksAreExact
  <2>6. ASSUME NEW w \in Workers, CommitLinks(w) PROVE FindingsHold' /\ DeskIsTrue' /\ LinksAreExact'
    BY <2>6, CommitsKeepFindings, CommitsKeepRulings DEF LinksAreExact
  <2>7. ASSUME NEW u \in Reviewers, NEW i \in DOMAIN links, BeginRuling(u, i)
        PROVE  FindingsHold' /\ DeskIsTrue' /\ LinksAreExact'
    <3>1. FindingsHold' /\ LinksAreSound' /\ NoLinkIsMissed'
      BY <2>7, RulingsKeepFindings DEF BeginRuling, LinksInv, LinksAreExact
    <3> QED
      BY <2>7, <3>1, TakingUpKeepsRulings DEF LinksAreExact
  <2>8. ASSUME NEW u \in Reviewers, CommitRuling(u) PROVE FindingsHold' /\ DeskIsTrue' /\ LinksAreExact'
    <3>1. desk[u].link \in DOMAIN links
      BY <2>8 DEF CommitRuling, LinksInv, DeskIsTrue, Free
    <3>2. /\ DOMAIN links' = DOMAIN links
          /\ \A i \in DOMAIN links : links'[i].key = links[i].key /\ links'[i].method = links[i].method
      BY <2>8, <3>1, RulingWrites DEF LinksInv
    <3>3. FindingsHold' /\ LinksAreSound' /\ NoLinkIsMissed'
      BY <2>8, <3>2, RulingsKeepFindings DEF CommitRuling, LinksInv, LinksAreExact
    <3> QED
      BY <2>8, <3>3, RulingsFollow DEF LinksAreExact
  <2> QED
    BY <2>1, <2>3, <2>4, <2>5, <2>6, <2>7, <2>8 DEF LinksNext, LinksInv
<1>3. ASSUME LinksInv, UNCHANGED linkVars PROVE LinksInv'
  <2>1. Read' = Read
    BY <1>3 DEF linkVars, Read, Present
  <2>2. Correlated(Read)' = Correlated(Read)
    BY <2>1 DEF Correlated, ExactMatches, Contradictions, SemanticCandidates, Pairs, Shared, AgreeOn, Conflicting,
                Amounts, Times
  <2>3. LinksTypeOK' /\ FoundAreApart'
    BY <1>3 DEF LinksInv, linkVars, LinksTypeOK, FoundAreApart
  <2>4. ReadingsNest'
    BY <1>3 DEF LinksInv, linkVars, ReadingsNest, Present
  <2>5. FindingsHold' /\ LinksAreSound' /\ NoLinkIsMissed'
    BY <1>3, RulingsKeepFindings DEF LinksInv, LinksAreExact, linkVars
  <2>6. DeskIsTrue' /\ RulingsStand'
    BY <1>3 DEF LinksInv, linkVars, LinksAreExact, DeskIsTrue, RulingsStand, StoodAs, Earlier
  <2> QED
    BY <2>3, <2>4, <2>5, <2>6 DEF LinksInv, LinksAreExact
<1>4. LinksInv => LinksAreExact
  BY DEF LinksInv
<1>5. LinksInv /\ (LinksTypeOK /\ FoundAreApart)' /\ [LinksNext]_linkVars => LinksInv'
  BY <1>2, <1>3
<1> QED
  BY <1>1, <1>4, <1>5, LinksTypeCorrect, PTL DEF LinksSpec

-----------------------------------------------------------------------------
\* ModelRouter. What a unit's record says, of whatever two models answered.

\* An attempt that succeeded has an answer of a model.
IsAttempt(a) == Usable(a) => a.answer \in Answers

OutcomeFields == {"values", "conflicts", "escalated", "model", "validation", "status", "band", "review",
                  "reviewed", "local", "cloud"}

\* The answer a record is made of is one that can be used, if there is one.
LEMMA ChosenIsUsable ==
    ASSUME NEW u, NEW local, NEW cloud
    PROVE  LET chosen == Chosen(u, local, cloud)
           IN  \/ Usable(chosen) /\ chosen # NotAsked /\ chosen \in {local, cloud}
               \/ chosen = NotAsked /\ ~Usable(local) /\ ~Usable(cloud)
<1>1. ~Usable(NotAsked)
  BY DEF Usable, NotAsked
<1>2. CASE Usable(local) /\ Usable(cloud)
  <2>1. Chosen(u, local, cloud) \in {local, cloud}
    BY <1>2 DEF Chosen
  <2> QED
    BY <1>1, <1>2, <2>1
<1>3. CASE Usable(local) /\ ~Usable(cloud)
  <2>1. Chosen(u, local, cloud) = local
    BY <1>3 DEF Chosen
  <2> QED
    BY <1>1, <1>3, <2>1
<1>4. CASE ~Usable(local) /\ Usable(cloud)
  <2>1. Chosen(u, local, cloud) = cloud
    BY <1>4 DEF Chosen
  <2> QED
    BY <1>1, <1>4, <2>1
<1>5. CASE ~Usable(local) /\ ~Usable(cloud)
  BY <1>5 DEF Chosen
<1> QED
  BY <1>2, <1>3, <1>4, <1>5

\* What is quoted from the source of a field the parser did not read is accepted.
LEMMA CitedIsAccepted ==
    ASSUME NEW u, NEW a, NEW f \in DOMAIN a.claims, f \notin DOMAIN Facts[u], a.claims[f].cited
    PROVE  f \in Accepted(u, a)
BY DEF Accepted, Claimed, ByParser, Ungrounded, Asserted

\* Two readings of a field quoted from the source are a conflict when they differ.
LEMMA DifferencesAreKept ==
    ASSUME NEW u, NEW local, NEW cloud, NEW f, f \notin DOMAIN Facts[u],
           NEW a \in {local, cloud}, NEW b \in {local, cloud}, Usable(a), Usable(b),
           f \in DOMAIN a.answer.claims, f \in DOMAIN b.answer.claims,
           a.answer.claims[f].value # b.answer.claims[f].value,
           a.answer.claims[f].cited, b.answer.claims[f].cited
    PROVE  f \in Disagreements(u, local, cloud)
<1>1. a # b
  OBVIOUS
<1>2. PICK x, y : x = a.answer /\ y = b.answer
  OBVIOUS
<1>3. f \in Accepted(u, x) /\ f \in Accepted(u, y)
  BY <1>2, CitedIsAccepted
<1>4. /\ Usable(local) /\ Usable(cloud)
      /\ f \in Accepted(u, local.answer) /\ f \in Accepted(u, cloud.answer)
      /\ local.answer.claims[f].value # cloud.answer.claims[f].value
  BY <1>1, <1>2, <1>3
<1> QED
  BY <1>4 DEF Disagreements

\* Without a score of the source's, the models' opinion of themselves never suffices.
LEMMA UnvalidatedIsReviewed ==
    ASSUME NEW self, self \in {NoScore} \cup 0..100
    PROVE  Combined(self, NoScore) < ReviewFloor
BY DEF Combined, NoScore, ReviewFloor

\* A record says what the parser read, and of the rest what a model it names said;
\* what is contested is kept as a conflict; what goes unreviewed is in the source.
LEMMA OutcomesAreSound ==
    ASSUME NEW i, NEW u, NEW local, IsAttempt(local), NEW cloud, IsAttempt(cloud)
    PROVE  RecordIsSound(i, u, Outcome(i, u, local, cloud)) /\ DOMAIN Outcome(i, u, local, cloud) = OutcomeFields
<1>1. PICK chosen : chosen = Chosen(u, local, cloud)
  OBVIOUS
<1>2. PICK validation : validation = IF chosen = NotAsked THEN NoScore ELSE Validation(u, chosen.answer)
  OBVIOUS
<1>3. PICK conflicts : conflicts = Disagreements(u, local, cloud)
                                   \cup (IF chosen = NotAsked THEN {} ELSE Contradicted(u, chosen.answer))
  OBVIOUS
<1>4. PICK values : values = Merged(u, chosen)
  OBVIOUS
<1>5. PICK review : review = ReviewReasons(i, u, values, chosen, validation, conflicts)
  OBVIOUS
<1>6. PICK r : r = Outcome(i, u, local, cloud)
  OBVIOUS
<1>7. /\ r.values = values /\ r.conflicts = conflicts /\ r.validation = validation /\ r.review = review
      /\ r.status = Status(conflicts, validation) /\ r.local = local /\ r.cloud = cloud
      /\ r.model = IF Usable(cloud) THEN "groq" ELSE IF Usable(local) THEN "ollama" ELSE "none"
      /\ DOMAIN r = OutcomeFields
  BY <1>1, <1>2, <1>3, <1>4, <1>5, <1>6 DEF Outcome, OutcomeFields
<1>8. \/ Usable(chosen) /\ chosen # NotAsked /\ chosen \in {local, cloud}
      \/ chosen = NotAsked /\ ~Usable(local) /\ ~Usable(cloud)
  BY <1>1, ChosenIsUsable
<1>9. \A f \in DOMAIN Facts[u] : values[f] = [value |-> Facts[u][f], by |-> "parser"]
  BY <1>4 DEF Merged
<1>10. ASSUME NEW f \in DOMAIN values \ DOMAIN Facts[u]
       PROVE  /\ Usable(chosen) /\ chosen \in {local, cloud} /\ f \in DOMAIN chosen.answer.claims
              /\ chosen.answer.claims[f].value = values[f].value
  <2>1. chosen # NotAsked /\ f \in Accepted(u, chosen.answer)
    BY <1>4, <1>10 DEF Merged
  <2>2. values[f] = [value |-> chosen.answer.claims[f].value, by |-> "model"]
    BY <1>4, <1>10 DEF Merged
  <2> QED
    BY <1>8, <2>1, <2>2 DEF Accepted, Claimed
<1>11. ASSUME NEW f \in DOMAIN values \ DOMAIN Facts[u]
       PROVE  LET said == {a.answer.claims[f] : a \in {b \in {r.local, r.cloud} : Usable(b) /\ f \in DOMAIN b.answer.claims}}
              IN  /\ \E c \in said : c.value = r.values[f].value
                  /\ (\E c, d \in said : c.value # d.value /\ c.cited /\ d.cited) => f \in r.conflicts
  <2> DEFINE said == {a.answer.claims[f] : a \in {b \in {r.local, r.cloud} : Usable(b) /\ f \in DOMAIN b.answer.claims}}
  <2>1. chosen.answer.claims[f] \in said
    BY <1>7, <1>10, <1>11
  <2>2. \E c \in said : c.value = r.values[f].value
    BY <1>7, <1>10, <1>11, <2>1
  <2>3. ASSUME NEW c \in said, NEW d \in said, c.value # d.value, c.cited, d.cited
        PROVE  f \in r.conflicts
    <3>1. PICK a \in {local, cloud} : Usable(a) /\ f \in DOMAIN a.answer.claims /\ c = a.answer.claims[f]
      BY <1>7
    <3>2. PICK b \in {local, cloud} : Usable(b) /\ f \in DOMAIN b.answer.claims /\ d = b.answer.claims[f]
      BY <1>7
    <3>3. f \in Disagreements(u, local, cloud)
      BY <1>11, <2>3, <3>1, <3>2, DifferencesAreKept
    <3> QED
      BY <1>3, <1>7, <3>3
  <2> QED
    BY <2>2, <2>3
<1>12. conflicts # {} => review # {} /\ r.status = "mismatch"
  <2>1. conflicts # {} => "conflict" \in review
    BY <1>5, Zenon DEF ReviewReasons
  <2> QED
    BY <1>7, <2>1 DEF Status
<1>13. ASSUME review = {}
       PROVE  /\ r.model # "none" /\ r.validation # NoScore
              /\ \A f \in DOMAIN Facts[u] : f \notin Contradicted(u, chosen.answer)
  <2>1. PICK self : self = IF chosen = NotAsked THEN NoScore ELSE chosen.answer.self
    OBVIOUS
  <2>2. self \in {NoScore} \cup 0..100
    <3>1. CASE chosen = NotAsked
      BY <2>1, <3>1
    <3>2. CASE chosen # NotAsked
      <4>1. chosen.answer \in Answers
        BY <1>8, <3>2 DEF IsAttempt
      <4> QED
        BY <2>1, <3>2, <4>1, RouterAssumption
    <3> QED
      BY <3>1, <3>2
  <2>3. ~(Combined(self, validation) < ReviewFloor)
    BY <1>5, <1>13, <2>1 DEF ReviewReasons
  <2>4. validation # NoScore
    BY <2>2, <2>3, UnvalidatedIsReviewed
  <2>5. chosen # NotAsked
    BY <1>2, <2>4
  <2>6. conflicts = {}
    BY <1>12, <1>13
  <2>7. r.model # "none"
    BY <1>7, <1>8, <2>5
  <2> QED
    BY <1>3, <1>7, <2>4, <2>5, <2>6, <2>7
<1>14. RecordIsSound(i, u, r)
  <2>1. \A f \in DOMAIN Facts[u] : r.values[f] = [value |-> Facts[u][f], by |-> "parser"]
    BY <1>7, <1>9
  <2>2. r.conflicts # {} => r.review # {} /\ r.status = "mismatch"
    BY <1>7, <1>12
  <2>3. r.review = {} => r.model # "none" /\ r.validation # NoScore
                        /\ \A f \in DOMAIN Facts[u] : f \notin Contradicted(u, Chosen(u, r.local, r.cloud).answer)
    BY <1>1, <1>7, <1>13
  <2>4. DOMAIN r.values = DOMAIN values
    BY <1>7
  <2> QED
    BY <1>11, <2>1, <2>2, <2>3, <2>4, Zenon DEF RecordIsSound
<1> QED
  BY <1>6, <1>7, <1>14

-----------------------------------------------------------------------------
\* What holds of the run of a file, and of the turn at the local model.

UnitsOfFile(i) == {Units[i][k] : k \in DOMAIN Units[i]}
Listed(s) == {s[k] : k \in DOMAIN s}
Sound(i, u, r) == RecordIsSound(i, u, r) /\ DOMAIN r = OutcomeFields

TaskFields == {"pc", "todo", "force", "leg", "tries", "tripped", "local", "cloud", "drafts", "log", "trips"}
TaskIsTrue(i, x) ==
    /\ DOMAIN x = TaskFields
    /\ x.pc \in {"idle", "ask", "dial", "settle", "commit"} /\ x.leg \in {"ollama", "groq"}
    /\ x.todo \in Seq(DOMAIN Facts)
    /\ x.pc \in {"ask", "dial", "settle"} => x.todo # <<>>
    /\ x.pc = "commit" => x.todo = <<>>
    /\ x.pc # "idle" => DOMAIN x.drafts \cup Listed(x.todo) = UnitsOfFile(i)
    /\ \A u \in DOMAIN x.drafts : Sound(i, u, x.drafts[u])
    /\ IsAttempt(x.local) /\ IsAttempt(x.cloud)
    /\ x.tripped \subseteq {"ollama", "groq"} /\ x.trips = Cardinality(x.tripped)
    /\ x.pc = "dial" => x.leg \notin x.tripped

RouterInv ==
    /\ work = [i \in Items |-> work[i]] /\ \A i \in Items : TaskIsTrue(i, work[i])
    /\ turn \in Items \cup {Nobody}
    /\ records = [i \in Items |-> records[i]]
    /\ \A i \in Items : DOMAIN records[i] \in {{}, UnitsOfFile(i)} /\ \A u \in DOMAIN records[i] : Sound(i, u, records[i][u])
    /\ TurnIsInUse

\* What the invariant is for.
LEMMA InvariantSuffices == ASSUME RouterInv PROVE RouterIsSound
<1>1. RecordsAreSound
  BY DEF RouterInv, RecordsAreSound, Sound, UnitsOfFile
<1>2. DownIsAskedOnce
  BY DEF RouterInv, TaskIsTrue, DownIsAskedOnce
<1> QED
  BY <1>1, <1>2 DEF RouterInv, RouterIsSound

\* A run at rest.
LEMMA IdleIsTrue ==
    ASSUME NEW i \in Items
    PROVE  TaskIsTrue(i, Idle)
<1>1. PICK x : x = Idle
  OBVIOUS
<1>2. /\ DOMAIN x = TaskFields /\ x.pc = "idle" /\ x.leg = "ollama" /\ x.todo = <<>>
      /\ x.drafts = Nowhere /\ x.local = NotAsked /\ x.cloud = NotAsked /\ x.tripped = {} /\ x.trips = 0
  BY <1>1 DEF Idle, TaskFields
<1>3. DOMAIN Nowhere = {} /\ IsAttempt(NotAsked) /\ Cardinality({}) = 0
  BY FS_EmptySet DEF Nowhere, IsAttempt, Usable, NotAsked
<1>4. x.todo \in Seq(DOMAIN Facts)
  BY <1>2
<1>5. TaskIsTrue(i, x)
  BY <1>2, <1>3, <1>4 DEF TaskIsTrue
<1> QED
  BY <1>1, <1>5

\* A failure more of a provider that had not failed.
LEMMA OneMoreTripped ==
    ASSUME NEW tripped \in SUBSET {"ollama", "groq"}, NEW leg \in {"ollama", "groq"}, leg \notin tripped
    PROVE  Cardinality(tripped \cup {leg}) = Cardinality(tripped) + 1
<1>1. IsFiniteSet({"ollama", "groq"})
  <2>1. IsFiniteSet({"ollama"} \cup {"groq"})
    BY FS_Singleton, FS_Union
  <2>2. {"ollama"} \cup {"groq"} = {"ollama", "groq"}
    OBVIOUS
  <2> QED
    BY <2>1, <2>2
<1>2. IsFiniteSet(tripped)
  BY <1>1, FS_Subset
<1> QED
  BY <1>2, FS_AddElement

\* An answered call leaves a run that asks on or settles the unit.
LEMMA AnsweredIsTrue ==
    ASSUME NEW i \in Items, TaskIsTrue(i, work[i]), work[i].pc \in {"ask", "dial"}, NEW attempt, IsAttempt(attempt)
    PROVE  LET x == After(i, attempt)
           IN  /\ TaskIsTrue(i, x) /\ x.pc \in {"ask", "settle"}
               /\ x.tripped = work[i].tripped /\ x.trips = work[i].trips
<1>1. PICK x, was, next : x = After(i, attempt) /\ was = work[i]
          /\ next = IF "groq" \in Configured /\ Reasons(i, Now(i), attempt) # {} THEN "ask" ELSE "settle"
  OBVIOUS
<1>2. next \in {"ask", "settle"}
  BY <1>1
<1>3. x = IF was.leg = "ollama"
          THEN [was EXCEPT !.local = attempt, !.tries = 0, !.leg = "groq", !.pc = next]
          ELSE [was EXCEPT !.cloud = attempt, !.pc = "settle"]
  BY <1>1 DEF After
<1>4. DOMAIN was = TaskFields
  BY <1>1 DEF TaskIsTrue
<1>5. /\ DOMAIN x = TaskFields /\ x.pc \in {"ask", "settle"} /\ x.leg \in {"ollama", "groq"}
      /\ x.todo = was.todo /\ x.drafts = was.drafts /\ x.tripped = was.tripped /\ x.trips = was.trips
      /\ x.local \in {was.local, attempt} /\ x.cloud \in {was.cloud, attempt}
  <2>1. CASE was.leg = "ollama"
    BY <1>2, <1>3, <1>4, <2>1 DEF TaskFields
  <2>2. CASE was.leg # "ollama"
    <3>1. was.leg = "groq"
      BY <1>1, <2>2 DEF TaskIsTrue
    <3> QED
      BY <1>2, <1>3, <1>4, <2>2, <3>1 DEF TaskFields
  <2> QED
    BY <2>1, <2>2
<1>6. TaskIsTrue(i, x)
  BY <1>1, <1>5 DEF TaskIsTrue
<1> QED
  BY <1>1, <1>5, <1>6

\* A step of one run keeps the rest as it is.
LEMMA OneRunMoves ==
    ASSUME RouterInv, NEW i \in Items, NEW x, work' = [work EXCEPT ![i] = x], TaskIsTrue(i, x), UNCHANGED records,
           \/ turn' = turn /\ (turn = i => x.pc = "dial" /\ x.leg = "ollama")
           \/ turn' = Nobody
           \/ turn' = i /\ x.pc = "dial" /\ x.leg = "ollama"
    PROVE  RouterInv'
<1>1. \A j \in Items : work'[j] = IF j = i THEN x ELSE work[j]
  BY DEF RouterInv
<1>2. work' = [j \in Items |-> work'[j]]
  BY DEF RouterInv
<1>3. \A j \in Items : TaskIsTrue(j, work'[j])
  BY <1>1 DEF RouterInv
<1>4. turn' \in Items \cup {Nobody}
  BY DEF RouterInv
<1>5. TurnIsInUse'
  BY <1>1 DEF RouterInv, TurnIsInUse, In
<1> QED
  BY <1>2, <1>3, <1>4, <1>5 DEF RouterInv

\* The units of a file as the run goes through them.
LEMMA TodoIsWorkedOff ==
    ASSUME NEW S, NEW s \in Seq(S), s # <<>>
    PROVE  /\ s[1] \in S /\ Tail(s) \in Seq(S)
           /\ Listed(s) = {s[1]} \cup Listed(Tail(s))
<1>1. /\ Len(s) \in Nat \ {0} /\ DOMAIN s = 1..Len(s) /\ s[1] \in S /\ Tail(s) \in Seq(S)
      /\ Len(Tail(s)) = Len(s) - 1 /\ \A k \in 1..(Len(s) - 1) : Tail(s)[k] = s[k + 1]
  OBVIOUS
<1>2. DOMAIN Tail(s) = 1..(Len(s) - 1)
  BY <1>1
<1>3. ASSUME NEW k \in 1..Len(s) PROVE s[k] \in {s[1]} \cup Listed(Tail(s))
  <2>1. CASE k = 1
    BY <2>1
  <2>2. CASE k # 1
    <3>1. k - 1 \in 1..(Len(s) - 1) /\ Tail(s)[k - 1] = s[k]
      BY <1>1, <2>2
    <3> QED
      BY <1>2, <3>1 DEF Listed
  <2> QED
    BY <2>1, <2>2
<1>4. ASSUME NEW k \in 1..(Len(s) - 1) PROVE Tail(s)[k] \in Listed(s)
  <2>1. k + 1 \in DOMAIN s /\ Tail(s)[k] = s[k + 1]
    BY <1>1
  <2> QED
    BY <2>1 DEF Listed
<1>5. s[1] \in Listed(s)
  BY <1>1 DEF Listed
<1>6. Listed(s) \subseteq {s[1]} \cup Listed(Tail(s))
  BY <1>1, <1>3 DEF Listed
<1>7. Listed(Tail(s)) \subseteq Listed(s)
  <2>1. \A y \in Listed(Tail(s)) : \E k \in 1..(Len(s) - 1) : y = Tail(s)[k]
    BY <1>2 DEF Listed
  <2> QED
    BY <1>4, <2>1
<1> QED
  BY <1>1, <1>5, <1>6, <1>7

LEMMA StartsAreTrue ==
    ASSUME RouterInv, NEW i \in Items, NEW force, Start(i, force)
    PROVE  RouterInv'
<1>1. PICK x, todo : /\ x = [Idle EXCEPT !.pc = Stage(todo), !.todo = todo, !.force = force]
                     /\ todo = Units[i] /\ work' = [work EXCEPT ![i] = x]
  BY DEF Start
<1>2. todo \in Seq(DOMAIN Facts) /\ UnitsOfFile(i) = Listed(todo)
  BY <1>1, RouterAssumption DEF UnitsOfFile, Listed
<1>3. PICK idle : idle = Idle
  OBVIOUS
<1>4. TaskIsTrue(i, idle) /\ idle.drafts = Nowhere /\ idle.leg = "ollama"
  BY <1>3, IdleIsTrue DEF Idle
<1>5. /\ DOMAIN x = TaskFields /\ x.pc = Stage(todo) /\ x.todo = todo /\ x.leg = idle.leg
      /\ x.drafts = idle.drafts /\ x.local = idle.local /\ x.cloud = idle.cloud
      /\ x.tripped = idle.tripped /\ x.trips = idle.trips
  <2>1. DOMAIN idle = TaskFields
    BY <1>4 DEF TaskIsTrue
  <2>2. x = [idle EXCEPT !.pc = Stage(todo), !.todo = todo, !.force = force]
    BY <1>1, <1>3
  <2> QED
    BY <2>1, <2>2 DEF TaskFields
<1>6. DOMAIN Nowhere = {}
  BY DEF Nowhere
<1>7. TaskIsTrue(i, x)
  BY <1>2, <1>4, <1>5, <1>6 DEF TaskIsTrue, Stage
<1>8. turn # i
  BY RouterAssumption DEF Start, Idle, RouterInv, TurnIsInUse, In
<1> QED
  BY <1>1, <1>7, <1>8, OneRunMoves DEF Start

LEMMA AsksAreTrue ==
    ASSUME RouterInv, NEW i \in Items, Ask(i)
    PROVE  RouterInv'
<1>1. TaskIsTrue(i, work[i]) /\ work[i].pc = "ask"
  BY DEF Ask, In, RouterInv
<1>2. UNCHANGED <<turn, records>> /\ turn # i
  BY <1>1, RouterAssumption DEF Ask, Stored, RouterInv, TurnIsInUse, In
<1>3. ASSUME NEW attempt, IsAttempt(attempt), work' = [work EXCEPT ![i] = After(i, attempt)] PROVE RouterInv'
  <2>1. PICK x : x = After(i, attempt)
    OBVIOUS
  <2>2. TaskIsTrue(i, x)
    BY <1>1, <1>3, <2>1, AnsweredIsTrue
  <2> QED
    BY <1>2, <1>3, <2>1, <2>2, OneRunMoves
<1>4. CASE work' = [work EXCEPT ![i] = After(i, NotAsked)]
  BY <1>3, <1>4 DEF IsAttempt, Usable, NotAsked
<1>5. CASE work' = [work EXCEPT ![i] = After(i, Attempt(i, "failed", Silence))]
  <2>1. IsAttempt(Attempt(i, "failed", Silence))
    BY DEF IsAttempt, Usable, Attempt
  <2> QED
    BY <1>3, <1>5, <2>1
<1>6. CASE \E a \in Known(i) : work' = [work EXCEPT ![i] = After(i, Attempt(i, "cached", a))]
  <2>1. PICK a \in Known(i) : work' = [work EXCEPT ![i] = After(i, Attempt(i, "cached", a))]
    BY <1>6
  <2>2. IsAttempt(Attempt(i, "cached", a))
    BY DEF IsAttempt, Usable, Attempt
  <2> QED
    BY <1>3, <2>1, <2>2
<1>7. CASE work[i].leg \notin work[i].tripped /\ work' = [work EXCEPT ![i].pc = "dial"]
  <2>1. PICK was, x : was = work[i] /\ x = [was EXCEPT !.pc = "dial"]
    OBVIOUS
  <2>2. DOMAIN was = TaskFields
    BY <1>1, <2>1 DEF TaskIsTrue
  <2>3. /\ DOMAIN x = TaskFields /\ x.pc = "dial" /\ x.leg = was.leg /\ x.todo = was.todo /\ x.drafts = was.drafts
        /\ x.local = was.local /\ x.cloud = was.cloud /\ x.tripped = was.tripped /\ x.trips = was.trips
    BY <2>1, <2>2 DEF TaskFields
  <2>4. TaskIsTrue(i, x)
    BY <1>1, <1>7, <2>1, <2>3 DEF TaskIsTrue
  <2>5. work' = [work EXCEPT ![i] = x]
    BY <1>7, <2>1
  <2> QED
    BY <1>2, <2>4, <2>5, OneRunMoves
<1> QED
  BY <1>4, <1>5, <1>6, <1>7 DEF Ask

LEMMA TurnsAreTrue ==
    ASSUME RouterInv, NEW i \in Items, TakeTurn(i)
    PROVE  RouterInv'
<1>1. work' = [work EXCEPT ![i] = work[i]]
  BY DEF TakeTurn, RouterInv
<1>2. TaskIsTrue(i, work[i])
  BY DEF RouterInv
<1> QED
  BY <1>1, <1>2, OneRunMoves DEF TakeTurn, Stored, In

LEMMA AnswersAreTrue ==
    ASSUME RouterInv, NEW i \in Items, NEW a \in Answers, Answer(i, a)
    PROVE  RouterInv'
<1>1. TaskIsTrue(i, work[i]) /\ work[i].pc = "dial"
  BY DEF Answer, Dialling, In, RouterInv
<1>2. PICK attempt : attempt = Attempt(i, IF a.fits THEN "succeeded" ELSE "rejected", a)
  OBVIOUS
<1>3. IsAttempt(attempt)
  BY <1>2 DEF IsAttempt, Attempt
<1>4. PICK x : x = After(i, attempt)
  OBVIOUS
<1>5. TaskIsTrue(i, x)
  BY <1>1, <1>3, <1>4, AnsweredIsTrue
<1>6. work' = [work EXCEPT ![i] = x] /\ UNCHANGED records
  BY <1>2, <1>4 DEF Answer, Stored
<1>7. turn' = Nobody \/ (turn' = turn /\ turn # i)
  BY DEF Answer, Release
<1> QED
  BY <1>5, <1>6, <1>7, OneRunMoves

LEMMA FailuresAreTrue ==
    ASSUME RouterInv, NEW i \in Items, NEW failure \in Failures, FailCall(i, failure)
    PROVE  RouterInv'
<1>1. TaskIsTrue(i, work[i]) /\ work[i].pc = "dial"
  BY DEF FailCall, Dialling, In, RouterInv
<1>2. PICK was : was = work[i]
  OBVIOUS
<1>3. DOMAIN was = TaskFields /\ was.leg \notin was.tripped /\ was.leg \in {"ollama", "groq"}
      /\ was.tripped \in SUBSET {"ollama", "groq"}
  BY <1>1, <1>2 DEF TaskIsTrue
<1>4. CASE work' = [work EXCEPT ![i].tries = @ + 1] /\ UNCHANGED turn
  <2>1. PICK x : x = [was EXCEPT !.tries = was.tries + 1]
    OBVIOUS
  <2>2. /\ DOMAIN x = TaskFields /\ x.pc = was.pc /\ x.leg = was.leg /\ x.todo = was.todo /\ x.drafts = was.drafts
        /\ x.local = was.local /\ x.cloud = was.cloud /\ x.tripped = was.tripped /\ x.trips = was.trips
    BY <1>3, <2>1 DEF TaskFields
  <2>3. TaskIsTrue(i, x)
    BY <1>1, <1>2, <2>2 DEF TaskIsTrue
  <2>4. work' = [work EXCEPT ![i] = x]
    BY <1>2, <1>4, <2>1
  <2>5. turn = i => x.pc = "dial" /\ x.leg = "ollama"
    BY <1>2, <2>2, RouterAssumption DEF RouterInv, TurnIsInUse, In
  <2> QED
    BY <1>4, <2>3, <2>4, <2>5, OneRunMoves DEF FailCall, Stored
<1>5. ASSUME work' = [work EXCEPT ![i] = [After(i, Attempt(i, "failed", Silence)) EXCEPT
                         !.tripped = @ \cup (IF failure \in Tripping THEN {work[i].leg} ELSE {}),
                         !.trips = @ + (IF failure \in Tripping THEN 1 ELSE 0)]],
             Release(i)
      PROVE  RouterInv'
  <2>1. PICK attempt : attempt = Attempt(i, "failed", Silence)
    OBVIOUS
  <2>2. IsAttempt(attempt)
    BY <2>1 DEF IsAttempt, Usable, Attempt
  <2>3. PICK y : y = After(i, attempt)
    OBVIOUS
  <2>4. TaskIsTrue(i, y) /\ y.pc \in {"ask", "settle"} /\ y.tripped = was.tripped /\ y.trips = was.trips
    BY <1>1, <1>2, <2>2, <2>3, AnsweredIsTrue
  <2>5. PICK tripped, trips : /\ tripped = y.tripped \cup (IF failure \in Tripping THEN {was.leg} ELSE {})
                              /\ trips = y.trips + (IF failure \in Tripping THEN 1 ELSE 0)
    OBVIOUS
  <2>6. PICK x : x = [y EXCEPT !.tripped = tripped, !.trips = trips]
    OBVIOUS
  <2>7. work' = [work EXCEPT ![i] = x]
    BY <1>2, <1>5, <2>1, <2>3, <2>5, <2>6
  <2>8. /\ DOMAIN x = TaskFields /\ x.pc = y.pc /\ x.leg = y.leg /\ x.todo = y.todo /\ x.drafts = y.drafts
        /\ x.local = y.local /\ x.cloud = y.cloud /\ x.tripped = tripped /\ x.trips = trips
    <3>1. DOMAIN y = TaskFields
      BY <2>4 DEF TaskIsTrue
    <3> QED
      BY <2>6, <3>1 DEF TaskFields
  <2>9. tripped \subseteq {"ollama", "groq"} /\ trips = Cardinality(tripped)
    <3>1. was.trips = Cardinality(was.tripped)
      BY <1>1, <1>2 DEF TaskIsTrue
    <3>2. CASE failure \in Tripping
      <4>1. Cardinality(was.tripped \cup {was.leg}) = Cardinality(was.tripped) + 1
        BY <1>3, OneMoreTripped
      <4> QED
        BY <1>3, <2>4, <2>5, <3>1, <3>2, <4>1
    <3>3. CASE failure \notin Tripping
      <4>1. tripped = was.tripped /\ trips = was.trips + 0
        BY <2>4, <2>5, <3>3
      <4>2. Cardinality(was.tripped) \in Nat
        <5>1. IsFiniteSet({"ollama"} \cup {"groq"})
          BY FS_Singleton, FS_Union
        <5> QED
          BY <1>3, <5>1, FS_Subset, FS_CardinalityType
      <4> QED
        BY <1>3, <3>1, <4>1, <4>2
    <3> QED
      BY <3>2, <3>3
  <2>10. TaskIsTrue(i, x)
    BY <2>4, <2>8, <2>9 DEF TaskIsTrue
  <2>11. turn' = Nobody \/ (turn' = turn /\ turn # i)
    BY <1>5 DEF Release
  <2> QED
    BY <2>7, <2>10, <2>11, OneRunMoves DEF FailCall, Stored
<1> QED
  BY <1>4, <1>5, Zenon DEF FailCall

\* A settled unit has a record that is sound.
LEMMA SettlesAreTrue ==
    ASSUME RouterInv, NEW i \in Items, Settle(i)
    PROVE  RouterInv'
<1>1. TaskIsTrue(i, work[i]) /\ work[i].pc = "settle"
  BY DEF Settle, In, RouterInv
<1>2. PICK was : was = work[i]
  OBVIOUS
<1>3. PICK todo, unit : todo = was.todo /\ unit = todo[1]
  OBVIOUS
<1>4. todo \in Seq(DOMAIN Facts) /\ todo # <<>> /\ DOMAIN was = TaskFields
  BY <1>1, <1>2, <1>3 DEF TaskIsTrue
<1>5. Tail(todo) \in Seq(DOMAIN Facts) /\ Listed(todo) = {unit} \cup Listed(Tail(todo))
  BY <1>3, <1>4, TodoIsWorkedOff
<1>6. PICK r : r = Outcome(i, unit, was.local, was.cloud)
  OBVIOUS
<1>7. Sound(i, unit, r)
  BY <1>1, <1>2, <1>6, OutcomesAreSound DEF Sound, TaskIsTrue
<1>8. PICK drafts : drafts = [u \in {unit} \cup DOMAIN was.drafts |->
                                IF u = unit THEN Outcome(i, u, was.local, was.cloud) ELSE was.drafts[u]]
  OBVIOUS
<1>9. /\ DOMAIN drafts = {unit} \cup DOMAIN was.drafts
      /\ \A u \in DOMAIN drafts : drafts[u] = IF u = unit THEN r ELSE was.drafts[u]
  BY <1>6, <1>8
<1>10. PICK entries : entries = was.log \cup {[item |-> i, unit |-> Now(i), provider |-> a.provider, status |-> a.status,
                                              answer |-> a.answer] : a \in {b \in Attempts(i) : ~OnRecord(i, b)}}
  OBVIOUS
<1>11. PICK x : x = [was EXCEPT !.drafts = drafts, !.log = entries, !.todo = Tail(todo), !.leg = "ollama", !.tries = 0,
                                !.local = NotAsked, !.cloud = NotAsked, !.pc = Stage(Tail(todo))]
  OBVIOUS
<1>12. work' = [work EXCEPT ![i] = x]
  BY <1>2, <1>3, <1>8, <1>10, <1>11 DEF Settle, Now
<1>13. /\ DOMAIN x = TaskFields /\ x.drafts = drafts /\ x.todo = Tail(todo) /\ x.leg = "ollama" /\ x.local = NotAsked
       /\ x.cloud = NotAsked /\ x.pc = Stage(Tail(todo)) /\ x.tripped = was.tripped /\ x.trips = was.trips
  BY <1>4, <1>11 DEF TaskFields
<1>14. x.pc # "dial" /\ x.pc # "idle" /\ x.pc # "settle" /\ x.pc \in {"ask", "commit"}
       /\ (x.pc = "commit" <=> x.todo = <<>>)
  BY <1>13 DEF Stage
<1>15. DOMAIN x.drafts \cup Listed(x.todo) = UnitsOfFile(i)
  BY <1>1, <1>2, <1>3, <1>5, <1>9, <1>13 DEF TaskIsTrue
<1>16. \A u \in DOMAIN x.drafts : Sound(i, u, x.drafts[u])
  BY <1>1, <1>2, <1>7, <1>9, <1>13 DEF TaskIsTrue
<1>17. IsAttempt(NotAsked)
  BY DEF IsAttempt, Usable, NotAsked
<1>18. TaskIsTrue(i, x)
  BY <1>1, <1>2, <1>5, <1>13, <1>14, <1>15, <1>16, <1>17 DEF TaskIsTrue
<1>19. turn # i
  BY <1>1, RouterAssumption DEF RouterInv, TurnIsInUse, In
<1> QED
  BY <1>12, <1>18, <1>19, OneRunMoves DEF Settle, Stored

\* What is committed is sound, and what a reviewer has ruled on stays.
LEMMA CommitsAreTrue ==
    ASSUME RouterInv, NEW i \in Items, Commit(i)
    PROVE  RouterInv'
<1>1. TaskIsTrue(i, work[i]) /\ work[i].pc = "commit"
  BY DEF Commit, In, RouterInv
<1>2. PICK drafts : drafts = work[i].drafts
  OBVIOUS
<1>3. DOMAIN drafts = UnitsOfFile(i) /\ \A u \in DOMAIN drafts : Sound(i, u, drafts[u])
  <2>1. Listed(<<>>) = {}
    BY DEF Listed
  <2> QED
    BY <1>1, <1>2, <2>1 DEF TaskIsTrue
<1>4. PICK rows : rows = [u \in DOMAIN drafts |-> IF u \in Kept(i) THEN records[i][u] ELSE drafts[u]]
  OBVIOUS
<1>5. DOMAIN rows = UnitsOfFile(i) /\ \A u \in DOMAIN rows : Sound(i, u, rows[u])
  <2>1. \A u \in Kept(i) : Sound(i, u, records[i][u])
    BY DEF Kept, RouterInv
  <2> QED
    BY <1>3, <1>4, <2>1
<1>6. records' = [records EXCEPT ![i] = rows]
  BY <1>2, <1>4 DEF Commit
<1>7. /\ records' = [j \in Items |-> records'[j]]
      /\ \A j \in Items : DOMAIN records'[j] \in {{}, UnitsOfFile(j)} /\ \A u \in DOMAIN records'[j] : Sound(j, u, records'[j][u])
  BY <1>5, <1>6 DEF RouterInv
<1>8. work' = [work EXCEPT ![i] = Idle] /\ turn' = turn
  BY DEF Commit
<1>9. \A j \in Items : TaskIsTrue(j, work'[j])
  BY <1>8, IdleIsTrue DEF RouterInv
<1>10. TurnIsInUse'
  BY <1>1, <1>8 DEF RouterInv, TurnIsInUse, In
<1>11. work' = [j \in Items |-> work'[j]] /\ turn' \in Items \cup {Nobody}
  BY <1>8 DEF RouterInv
<1> QED
  BY <1>7, <1>9, <1>10, <1>11 DEF RouterInv

LEMMA CrashesAreTrue ==
    ASSUME RouterInv, NEW i \in Items, Crash(i)
    PROVE  RouterInv'
<1>1. PICK x : x = Idle
  OBVIOUS
<1>2. TaskIsTrue(i, x)
  BY <1>1, IdleIsTrue
<1>3. work' = [work EXCEPT ![i] = x] /\ UNCHANGED records
  BY <1>1 DEF Crash, Stored
<1>4. turn' = Nobody \/ (turn' = turn /\ turn # i)
  BY DEF Crash, Release
<1> QED
  BY <1>2, <1>3, <1>4, OneRunMoves

LEMMA ReviewsAreTrue ==
    ASSUME RouterInv, NEW i \in Items, NEW u \in DOMAIN records[i], Review(i, u)
    PROVE  RouterInv'
<1>1. PICK row, x : row = records[i][u] /\ x = [row EXCEPT !.reviewed = TRUE]
  OBVIOUS
<1>2. Sound(i, u, row)
  BY <1>1 DEF RouterInv
<1>3. /\ DOMAIN x = OutcomeFields /\ x.values = row.values /\ x.conflicts = row.conflicts /\ x.review = row.review
      /\ x.status = row.status /\ x.model = row.model /\ x.validation = row.validation
      /\ x.local = row.local /\ x.cloud = row.cloud
  BY <1>1, <1>2 DEF Sound, OutcomeFields
<1>4. Sound(i, u, x)
  BY <1>2, <1>3, Zenon DEF Sound, RecordIsSound
<1>5. records' = [records EXCEPT ![i] = [records[i] EXCEPT ![u] = x]]
  BY <1>1 DEF Review
<1>6. PICK rows : rows = [records[i] EXCEPT ![u] = x]
  OBVIOUS
<1>7. DOMAIN rows = DOMAIN records[i] /\ \A v \in DOMAIN rows : Sound(i, v, rows[v])
  BY <1>4, <1>6 DEF RouterInv
<1>8. /\ records' = [j \in Items |-> records'[j]]
      /\ \A j \in Items : DOMAIN records'[j] \in {{}, UnitsOfFile(j)} /\ \A v \in DOMAIN records'[j] : Sound(j, v, records'[j][v])
  BY <1>5, <1>6, <1>7 DEF RouterInv
<1>9. UNCHANGED <<work, turn>>
  BY DEF Review
<1> QED
  BY <1>8, <1>9 DEF RouterInv, TurnIsInUse, In

\* RouterIsSound holds of every run: whatever two models say and however the calls
\* to them fail, every unit has a record in which what the parser read stands and
\* what is contested is kept for a reviewer; a provider that is down costs a file
\* one failure; and nobody holds the local model's turn without calling it. It
\* needs a sentinel that is not a file, and self-confidences that are percentages.
THEOREM RoutesAreSound == RouterSpec => []RouterIsSound
<1>1. RouterInit => RouterInv
  <2> SUFFICES ASSUME RouterInit PROVE RouterInv
    OBVIOUS
  <2>1. \A i \in Items : TaskIsTrue(i, work[i])
    BY IdleIsTrue DEF RouterInit
  <2>2. DOMAIN Nowhere = {}
    BY DEF Nowhere
  <2>3. \A i \in Items : DOMAIN records[i] \in {{}, UnitsOfFile(i)} /\ \A u \in DOMAIN records[i] : Sound(i, u, records[i][u])
    BY <2>2 DEF RouterInit
  <2> QED
    BY <2>1, <2>3 DEF RouterInit, RouterInv, TurnIsInUse
<1>2. ASSUME RouterInv, RouterNext PROVE RouterInv'
  <2>1. PICK i \in Items :
          \/ \E force \in BOOLEAN : Start(i, force)
          \/ Ask(i) \/ TakeTurn(i) \/ Settle(i) \/ Commit(i) \/ Crash(i)
          \/ \E a \in Answers : Answer(i, a)
          \/ \E failure \in Failures : FailCall(i, failure)
          \/ \E u \in DOMAIN records[i] : Review(i, u)
    BY <1>2, Zenon DEF RouterNext
  <2> QED
    BY <1>2, <2>1, StartsAreTrue, AsksAreTrue, TurnsAreTrue, SettlesAreTrue, CommitsAreTrue, CrashesAreTrue,
       AnswersAreTrue, FailuresAreTrue, ReviewsAreTrue
<1>3. ASSUME RouterInv, UNCHANGED routerVars PROVE RouterInv'
  BY <1>3 DEF routerVars, RouterInv, TurnIsInUse, In
<1>4. RouterInv => RouterIsSound
  BY InvariantSuffices
<1>5. RouterInv /\ [RouterNext]_routerVars => RouterInv'
  BY <1>2, <1>3
<1> QED
  BY <1>1, <1>4, <1>5, PTL DEF RouterSpec

-----------------------------------------------------------------------------
\* EntityGraph.

\* A set of numbers that is not empty has a least one.
LEMMA LeastOf ==
    ASSUME NEW T, T \subseteq Nat, T # {}
    PROVE  \E x \in T : \A y \in T : x <= y
<1> DEFINE Less == OpToRel(<, Nat)
<1>1. PICK x \in T : \A y \in T : <<y, x>> \notin Less
  <2>1. IsWellFoundedOn(Less, Nat)
    BY NatLessThanWellFounded
  <2> HIDE DEF Less
  <2> QED
    BY <2>1, WFMin
<1>2. \A y \in T : ~(y < x)
  BY <1>1 DEF OpToRel
<1> QED
  BY <1>2

\* What two sequences hold together, and one with a last entry.
LEMMA Concatenated ==
    ASSUME NEW S, NEW s \in Seq(S), NEW t \in Seq(S)
    PROVE  s \o t \in Seq(S) /\ ToSet(s \o t) = ToSet(s) \cup ToSet(t)
<1>1. s \o t \in Seq(S) /\ Len(s \o t) = Len(s) + Len(t)
  OBVIOUS
<1>2. ASSUME NEW i \in 1..Len(s) PROVE (s \o t)[i] = s[i] /\ i \in DOMAIN (s \o t)
  BY <1>1
<1>3. ASSUME NEW i \in 1..Len(t) PROVE (s \o t)[Len(s) + i] = t[i] /\ Len(s) + i \in DOMAIN (s \o t)
  BY <1>1
<1>4. ASSUME NEW i \in DOMAIN (s \o t) PROVE (s \o t)[i] \in ToSet(s) \cup ToSet(t)
  BY <1>1 DEF ToSet
<1>5. ToSet(s) \cup ToSet(t) \subseteq ToSet(s \o t)
  <2>1. DOMAIN s = 1..Len(s) /\ DOMAIN t = 1..Len(t)
    OBVIOUS
  <2>2. ToSet(s) \subseteq ToSet(s \o t)
    BY <1>2, <2>1, Zenon DEF ToSet
  <2>3. ToSet(t) \subseteq ToSet(s \o t)
    BY <1>3, <2>1, Zenon DEF ToSet
  <2> QED
    BY <2>2, <2>3
<1> QED
  BY <1>1, <1>4, <1>5 DEF ToSet

\* The sequences of a sequence, one after the other.
LEMMA JoinsExist ==
    ASSUME NEW S, NEW ss \in Seq(Seq(S)), NEW k \in 1..Len(ss)
    PROVE  \E f \in [1..k -> Seq(S)] : f[1] = ss[1] /\ \A i \in 2..k : f[i] = f[i - 1] \o ss[i]
<1> DEFINE Joins(n) == {f \in [1..n -> Seq(S)] : f[1] = ss[1] /\ \A i \in 2..n : f[i] = f[i - 1] \o ss[i]}
           Bad == {n \in 1..Len(ss) : Joins(n) = {}}
<1>1. Len(ss) \in Nat /\ \A i \in 1..Len(ss) : ss[i] \in Seq(S)
  OBVIOUS
<1>2. Bad = {}
  <2> SUFFICES ASSUME Bad # {} PROVE FALSE
    OBVIOUS
  <2>1. Bad \subseteq 1..Len(ss) /\ Bad \subseteq Nat
    <3> HIDE DEF Joins
    <3> QED
      BY <1>1
  <2>2. PICK x \in Bad : \A y \in Bad : x <= y
    <3> HIDE DEF Bad
    <3> QED
      BY <2>1, LeastOf
  <2>3. x \in 1..Len(ss) /\ Joins(x) = {}
    OBVIOUS
  <2>4. CASE x = 1
    <3>1. [i \in 1..1 |-> ss[1]] \in Joins(1)
      BY <1>1, <2>3, <2>4
    <3> QED
      BY <2>3, <2>4, <3>1
  <2>5. CASE x # 1
    <3>1. x - 1 \in 1..Len(ss) /\ x - 1 \notin Bad
      <4>1. x - 1 \in 1..Len(ss) /\ ~(x <= x - 1)
        BY <1>1, <2>3, <2>5
      <4> HIDE DEF Bad, Joins
      <4> QED
        BY <2>2, <4>1
    <3>2. PICK g : g \in Joins(x - 1)
      BY <3>1
    <3>3. /\ g \in [1..(x - 1) -> Seq(S)] /\ g[1] = ss[1]
          /\ \A i \in 2..(x - 1) : g[i] = g[i - 1] \o ss[i]
      BY <3>2
    <3> HIDE DEF Bad, Joins
    <3>4. PICK h : h = [i \in 1..x |-> IF i = x THEN g[x - 1] \o ss[x] ELSE g[i]]
      OBVIOUS
    <3>5. g[x - 1] \o ss[x] \in Seq(S)
      BY <1>1, <2>3, <3>1, <3>3
    <3>6. h \in [1..x -> Seq(S)]
      BY <1>1, <2>3, <3>1, <3>3, <3>4, <3>5
    <3>7. h[1] = ss[1] /\ \A i \in 2..x : h[i] = h[i - 1] \o ss[i]
      <4>1. h[1] = ss[1]
        BY <1>1, <2>3, <2>5, <3>3, <3>4
      <4>2. ASSUME NEW i \in 2..x PROVE h[i] = h[i - 1] \o ss[i]
        <5>1. i \in 1..x /\ i - 1 \in 1..x /\ i - 1 # x
          BY <1>1, <2>3
        <5>2. h[i - 1] = g[i - 1]
          BY <3>4, <5>1
        <5>3. CASE i = x
          BY <3>4, <5>1, <5>2, <5>3
        <5>4. CASE i # x
          <6>1. i \in 2..(x - 1)
            BY <1>1, <2>3, <5>4
          <6> QED
            BY <3>3, <3>4, <5>1, <5>2, <5>4, <6>1
        <5> QED
          BY <5>3, <5>4
      <4> QED
        BY <4>1, <4>2
    <3>8. h \in Joins(x)
      BY <3>6, <3>7 DEF Joins
    <3> QED
      BY <2>3, <3>8
  <2> QED
    BY <2>4, <2>5
<1>3. Joins(k) # {}
  BY <1>2
<1> QED
  BY <1>3

LEMMA Flattened ==
    ASSUME NEW S, NEW ss \in Seq(Seq(S))
    PROVE  /\ FlattenSeq(ss) \in Seq(S)
           /\ ToSet(FlattenSeq(ss)) = UNION {ToSet(ss[i]) : i \in DOMAIN ss}
<1>1. CASE Len(ss) = 0
  <2>1. ss = <<>> /\ FlattenSeq(ss) = <<>>
    BY <1>1 DEF FlattenSeq
  <2>2. DOMAIN ss = {} /\ DOMAIN <<>> = {} /\ <<>> \in Seq(S)
    BY <2>1
  <2> QED
    BY <2>1, <2>2 DEF ToSet
<1>2. CASE Len(ss) # 0
  <2> DEFINE Body(f) == [i \in 1..Len(ss) |-> IF i = 1 THEN ss[i] ELSE f[i - 1] \o ss[i]]
             Joined == CHOOSE f : f = Body(f)
  <2>1. Len(ss) \in 1..Len(ss) /\ DOMAIN ss = 1..Len(ss)
    BY <1>2
  <2>2. FlattenSeq(ss) = Joined[Len(ss)]
    BY <1>2 DEF FlattenSeq
  <2> HIDE DEF Joined, Body
  <2>3. PICK f \in [1..Len(ss) -> Seq(S)] : f[1] = ss[1] /\ \A i \in 2..Len(ss) : f[i] = f[i - 1] \o ss[i]
    BY <2>1, JoinsExist
  <2>4. f = Body(f)
    <3>1. \A i \in 1..Len(ss) : f[i] = IF i = 1 THEN ss[i] ELSE f[i - 1] \o ss[i]
      <4>1. \A i \in 1..Len(ss) : i = 1 \/ (i # 1 /\ i \in 2..Len(ss))
        BY <2>1
      <4> QED
        BY <2>3, <4>1, Zenon
    <3>2. f = [i \in 1..Len(ss) |-> f[i]]
      OBVIOUS
    <3> QED
      BY <3>1, <3>2, Zenon DEF Body
  <2>5. Joined = Body(Joined)
    BY <2>4 DEF Joined
  <2>6. \A i \in 1..Len(ss) : Joined[i] = IF i = 1 THEN ss[i] ELSE Joined[i - 1] \o ss[i]
    <3>1. \A g, i : i \in 1..Len(ss) => Body(g)[i] = IF i = 1 THEN ss[i] ELSE g[i - 1] \o ss[i]
      BY DEF Body
    <3> QED
      BY <2>5, <3>1, Zenon
  <2>7. Joined[1] = ss[1] /\ \A i \in 2..Len(ss) : Joined[i] = Joined[i - 1] \o ss[i]
    <3>1. 1 \in 1..Len(ss) /\ \A i \in 2..Len(ss) : i \in 1..Len(ss) /\ i # 1
      BY <2>1
    <3> QED
      BY <2>6, <3>1
  <2>8. Joined[Len(ss)] \in Seq(S) /\ ToSet(Joined[Len(ss)]) = UNION {ToSet(ss[i]) : i \in 1..Len(ss)}
    <3> DEFINE Whole(n) == Joined[n] \in Seq(S) /\ ToSet(Joined[n]) = UNION {ToSet(ss[i]) : i \in 1..n}
               Wrong == {n \in 1..Len(ss) : ~Whole(n)}
    <3>1. Len(ss) \in Nat /\ \A i \in 1..Len(ss) : ss[i] \in Seq(S)
      OBVIOUS
    <3>2. Wrong = {}
      <4> SUFFICES ASSUME Wrong # {} PROVE FALSE
        OBVIOUS
      <4>1. Wrong \subseteq 1..Len(ss) /\ Wrong \subseteq Nat
        BY <3>1
      <4>2. PICK x \in Wrong : \A y \in Wrong : x <= y
        <5> HIDE DEF Wrong
        <5> QED
          BY <4>1, LeastOf
      <4>3. x \in 1..Len(ss) /\ ~Whole(x)
        OBVIOUS
      <4>4. CASE x = 1
        <5>1. UNION {ToSet(ss[i]) : i \in 1..1} = ToSet(ss[1])
          OBVIOUS
        <5>2. Whole(1)
          BY <2>7, <3>1, <4>3, <4>4, <5>1
        <5> QED
          BY <4>3, <4>4, <5>2
      <4>5. CASE x # 1
        <5>1. x \in 2..Len(ss) /\ x - 1 \in 1..Len(ss) /\ ~(x <= x - 1)
          BY <3>1, <4>3, <4>5
        <5>2. Whole(x - 1)
          <6>1. x - 1 \notin Wrong
            <7> HIDE DEF Wrong
            <7> QED
              BY <4>2, <5>1
          <6> QED
            BY <5>1, <6>1
        <5>3. Joined[x] = Joined[x - 1] \o ss[x] /\ ss[x] \in Seq(S) /\ Joined[x - 1] \in Seq(S)
          BY <2>7, <3>1, <4>3, <5>1, <5>2
        <5>4. Joined[x] \in Seq(S) /\ ToSet(Joined[x]) = ToSet(Joined[x - 1]) \cup ToSet(ss[x])
          <6> HIDE DEF Wrong
          <6>1. Joined[x - 1] \o ss[x] \in Seq(S) /\ ToSet(Joined[x - 1] \o ss[x]) = ToSet(Joined[x - 1]) \cup ToSet(ss[x])
            BY <5>3, Concatenated
          <6> QED
            BY <5>3, <6>1
        <5>5. UNION {ToSet(ss[i]) : i \in 1..x} = (UNION {ToSet(ss[i]) : i \in 1..(x - 1)}) \cup ToSet(ss[x])
          <6>1. 1..x = (1..(x - 1)) \cup {x}
            BY <5>1
          <6> QED
            BY <6>1
        <5>6. Whole(x)
          BY <5>2, <5>4, <5>5
        <5> QED
          BY <4>3, <5>6
      <4> QED
        BY <4>4, <4>5
    <3>3. Whole(Len(ss))
      BY <2>1, <3>2
    <3> QED
      BY <3>3
  <2> QED
    BY <2>1, <2>2, <2>8
<1> QED
  BY <1>1, <1>2

\* The members of a finite set, listed.
LEMMA SetIsListed ==
    ASSUME NEW S, IsFiniteSet(S)
    PROVE  SetToSeq(S) \in Seq(S) /\ \A x \in S : \E n \in DOMAIN SetToSeq(S) : SetToSeq(S)[n] = x
<1> DEFINE n == Cardinality(S)
           s == SetToSeq(S)
<1>1. n \in Nat /\ ExistsBijection(1..n, S)
  BY FS_CardinalityType
<1>2. PICK f \in [1..n -> S] : IsInjective(f)
  BY <1>1 DEF ExistsBijection, Bijection, Injection, IsInjective
<1>3. s \in [1..n -> S] /\ IsInjective(s)
  BY <1>2 DEF SetToSeq
<1>4. s \in Injection(1..n, S)
  BY <1>3 DEF Injection, IsInjective
<1>5. Cardinality(1..n) = n /\ IsFiniteSet(1..n)
  BY <1>1, FS_Interval
<1>6. s \in Surjection(1..n, S)
  BY <1>4, <1>5, FS_Surjection, FS_Injection
<1> QED
  BY <1>1, <1>3, <1>6 DEF Surjection, IsInjective

-----------------------------------------------------------------------------
\* What the tables and the runs hold.

Mentioned == UNION {ToSet(MentionsIn[f]) : f \in Files}
StatedEdges == UNION {ToSet(EdgesIn[f]) : f \in Files}
Resolved == {m.identity : m \in Mentioned} \cup Older
NodeRows == [id : Int, identity : Resolved, label : {"older", "canonical"}]
SightingRows == Int \X Files \X {m.field : m \in Mentioned}
EdgeKeys == {e.kind : e \in StatedEdges} \X Int \X Int \X Files
RelationRows == [key : EdgeKeys, subject : Int, object : Int, status : {"machine_extracted"} \cup Decisions]
MentionEntries == {e \in [file : Files, what : Mentioned] : e.what \in ToSet(MentionsIn[e.file])}
EdgeEntries == {e \in [file : Files, what : StatedEdges] : e.what \in ToSet(EdgesIn[e.file])}
RunRows ==
    [pc : {"idle", "resolving", "relating", "extracting", "minting", "stating"}, files : SUBSET Files,
     todo : Seq(MentionEntries), edges : Seq(EdgeEntries), picked : EdgeKeys \cup {<<>>}, seen : SUBSET SightingRows,
     nodes : SUBSET NodeRows, queued : Seq(SightingRows), sightings : SUBSET SightingRows,
     relations : SUBSET RelationRows]

GraphTypeOK ==
    /\ known \subseteq Files /\ IsFiniteSet(known)
    /\ nodes \subseteq NodeRows /\ sightings \subseteq SightingRows /\ relations \subseteq RelationRows
    /\ run \in [Runs -> RunRows]
    /\ walked \subseteq Files
    /\ overlapped \in BOOLEAN

\* What a transaction sees of the nodes ns, and what it will have told with the
\* sightings ss once it commits.
NodesOf(x, ns) == ns \cup x.nodes
ToldBy(x, ss) == ss \cup x.sightings \cup ToSet(x.queued)
AllNodes == nodes \cup UNION {run[r].nodes : r \in Runs}

Canonical(ns, id, identity) == \E n \in ns : n.id = id /\ n.label = "canonical" /\ n.identity = identity
Attested(ns, s) ==
    \E n \in ns : n.id = s[1] /\ n.label = "canonical"
                  /\ [field |-> s[3], identity |-> n.identity] \in ToSet(MentionsIn[s[2]])

\* An edge is what a statement says, whichever way round; a file states it; a
\* statement is stored.
Backed(ns, kind, subject, object, d) ==
    /\ kind = d.kind
    /\ \/ Canonical(ns, subject, d.from) /\ Canonical(ns, object, d.to)
       \/ ~d.directed /\ Canonical(ns, subject, d.to) /\ Canonical(ns, object, d.from)
Anchored(ns, e) == \E d \in ToSet(EdgesIn[e.key[4]]) : Backed(ns, e.key[1], e.subject, e.object, d)
StatedBy(ns, es, f, d) == d.from = d.to \/ \E e \in es : e.key[4] = f /\ Backed(ns, e.key[1], e.subject, e.object, d)
Written(edges, ns, es, f, d) == [file |-> f, what |-> d] \in ToSet(edges) \/ StatedBy(ns, es, f, d)

\* An edge whose key holds the id of a node that is there is an edge of that node.
KeyIsLive(ns, e) == \A n \in ns : (n.id = e.key[2] => e.subject = n.id) /\ (n.id = e.key[3] => e.object = n.id)

IdsApart == \A n, m \in AllNodes : n.id = m.id => n = m
OneAtWork == ~overlapped => \A r, q \in Working : r = q
FilesAreKnown == \A r \in Runs : run[r].files \subseteq known

\* What runs in turn make of the tables.
Ordered(key, d) == d.kind = key[1] /\ ~d.directed => key[2] < key[3]
Exact(ns, es) ==
    /\ \A n, m \in ns : n.identity = m.identity /\ n.label = m.label => n = m
    /\ \A e \in es :
        /\ e.subject = e.key[2] /\ e.object = e.key[3] /\ e.subject # e.object
        /\ \A d \in StatedEdges : Ordered(e.key, d)
    /\ \A e, d \in es : e.key = d.key => e = d

\* A mention is still to be walked or has been told.
Visited(todo, ns, ss, f, m) ==
    \/ [file |-> f, what |-> m] \in ToSet(todo)
    \/ \E n \in ns : n.label = "canonical" /\ n.identity = m.identity /\ <<n.id, f, m.field>> \in ss

StoredIsTrue ==
    /\ \A s \in sightings : Attested(nodes, s)
    /\ \A e \in relations : Anchored(nodes, e) /\ KeyIsLive(AllNodes, e)
    /\ \A f \in walked :
        /\ \A m \in ToSet(MentionsIn[f]) : Visited(<<>>, nodes, sightings, f, m)
        /\ \A d \in ToSet(EdgesIn[f]) : StatedBy(nodes, relations, f, d)
    /\ ~overlapped => Exact(nodes, relations)

\* Where a run is, what rows it has, and what they are when runs come in turn.
PlaceIsTrue(x, ns) ==
    /\ x.pc = "idle" => x = Resting
    /\ x.pc = "minting" => x.todo # <<>>
    /\ x.pc = "extracting" => x.files = {}
    /\ x.pc \in {"resolving", "relating", "stating"} => x.files # {}
    /\ x.pc \in {"relating", "stating"} => x.todo = <<>>
    /\ x.files = {} => x.queued = <<>> /\ x.seen = {} /\ x.edges = <<>>
    /\ x.pc = "stating" =>
        /\ x.edges # <<>> /\ x.picked \in EdgeKeys /\ x.picked[4] = Head(x.edges).file
        /\ Backed(ns, x.picked[1], x.picked[2], x.picked[3], Head(x.edges).what)

RowsAreTrue(x, ns, ss) ==
    /\ IsInjective(x.queued) /\ ToSet(x.queued) \subseteq x.seen /\ x.seen \subseteq ss
    /\ \A s \in x.sightings \cup ToSet(x.queued) : Attested(ns, s)
    /\ \A e \in x.relations : Anchored(ns, e) /\ e.subject = e.key[2] /\ e.object = e.key[3]
    /\ \A f \in x.files : \A m \in ToSet(MentionsIn[f]) : Visited(x.todo, ns, ss, f, m)

EdgesAreTrue(x, ns, es) ==
    x.pc \in {"relating", "stating"} =>
        \A f \in x.files : \A d \in ToSet(EdgesIn[f]) : Written(x.edges, ns, es, f, d)

TurnIsTrue(x, ns, es) ==
    /\ Exact(ns, es \cup x.relations)
    /\ \A e \in es, d \in x.relations : e.key # d.key
    /\ x.pc = "minting" => \A n \in ns : ~(n.label = "canonical" /\ n.identity = Head(x.todo).what.identity)
    /\ x.pc = "stating" =>
        /\ \A e \in es \cup x.relations : e.key # x.picked
        /\ x.picked[2] # x.picked[3]
        /\ \A d \in StatedEdges : Ordered(x.picked, d)

RunIsTrue(x, ns, ss, es, late) ==
    /\ PlaceIsTrue(x, NodesOf(x, ns))
    /\ RowsAreTrue(x, NodesOf(x, ns), ToldBy(x, ss))
    /\ EdgesAreTrue(x, NodesOf(x, ns), es \cup x.relations)
    /\ late \/ TurnIsTrue(x, NodesOf(x, ns), es)

GraphInv ==
    /\ GraphTypeOK /\ IdsApart /\ OneAtWork /\ FilesAreKnown /\ StoredIsTrue
    /\ \A r \in Runs : RunIsTrue(run[r], nodes, sightings, relations, overlapped)

-----------------------------------------------------------------------------
\* A run at rest has nothing.
LEMMA RestingIsTrue ==
    /\ Resting \in RunRows
    /\ \A ns, ss, es : \A late \in BOOLEAN :
        (late \/ Exact(ns, es)) => RunIsTrue(Resting, ns, ss, es, late)
<1>1. Resting \in RunRows
  BY DEF Resting, RunRows
<1>2. /\ Resting.pc = "idle" /\ Resting.files = {} /\ Resting.todo = <<>> /\ Resting.edges = <<>>
      /\ Resting.seen = {} /\ Resting.nodes = {} /\ Resting.queued = <<>> /\ Resting.sightings = {}
      /\ Resting.relations = {}
  BY DEF Resting
<1>3. ToSet(<<>>) = {} /\ IsInjective(<<>>)
  BY DEF ToSet, IsInjective
<1>4. ASSUME NEW ns, NEW ss, NEW es, NEW late \in BOOLEAN, late \/ Exact(ns, es)
      PROVE  RunIsTrue(Resting, ns, ss, es, late)
  <2>1. NodesOf(Resting, ns) = ns /\ ToldBy(Resting, ss) = ss /\ es \cup Resting.relations = es
    BY <1>2, <1>3 DEF NodesOf, ToldBy
  <2>2. PlaceIsTrue(Resting, ns)
    BY <1>2, <1>3 DEF PlaceIsTrue
  <2>3. RowsAreTrue(Resting, ns, ss)
    BY <1>2, <1>3 DEF RowsAreTrue
  <2>4. late \/ TurnIsTrue(Resting, ns, es)
    BY <1>2, <1>4, <2>1 DEF TurnIsTrue
  <2>5. EdgesAreTrue(Resting, ns, es)
    BY <1>2 DEF EdgesAreTrue
  <2> QED
    BY <2>1, <2>2, <2>3, <2>4, <2>5 DEF RunIsTrue
<1> QED
  BY <1>1, <1>4

\* The identity of an id is that of its node.
LEMMA ChosenNode ==
    ASSUME NEW ns, NEW n \in ns, \A k, m \in ns : k.id = m.id => k = m
    PROVE  (CHOOSE m \in ns : m.id = n.id) = n
<1>1. PICK k : k = CHOOSE m \in ns : m.id = n.id
  OBVIOUS
<1>2. k \in ns /\ k.id = n.id
  BY <1>1
<1> QED
  BY <1>1, <1>2

LEMMA ReadsIdentity ==
    ASSUME IdsApart, NEW n \in nodes
    PROVE  IdentityOf(n.id) = n.identity
<1>1. (CHOOSE m \in nodes : m.id = n.id) = n
  BY ChosenNode DEF IdsApart, AllNodes
<1> QED
  BY <1>1 DEF IdentityOf

\* One run in work moves and touches only its own rows.
LEMMA RunMoves ==
    ASSUME GraphInv, NEW r \in Runs, run[r] # Resting, NEW x \in RunRows, run' = [run EXCEPT ![r] = x],
           UNCHANGED <<known, nodes, sightings, relations, walked, overlapped>>,
           RunIsTrue(x, nodes, sightings, relations, overlapped), x.files \subseteq run[r].files,
           \A n \in x.nodes \ run[r].nodes : \A m \in AllNodes : n.id # m.id,
           \A n \in x.nodes \ run[r].nodes : \A e \in relations : n.id # e.key[2] /\ n.id # e.key[3],
           \A n, m \in x.nodes \ run[r].nodes : n = m
    PROVE  GraphInv'
<1>1. GraphTypeOK'
  BY DEF GraphInv, GraphTypeOK
<1>2. run \in [Runs -> RunRows] /\ run'[r] = x /\ \A q \in Runs \ {r} : run'[q] = run[q]
  BY DEF GraphInv, GraphTypeOK
<1>3. \A n \in AllNodes' : n \in AllNodes \/ n \in x.nodes \ run[r].nodes
  BY <1>2, SMT DEF AllNodes
<1>6. IdsApart'
  <2>2. IdsApart
    BY DEF GraphInv
  <2>3. ASSUME NEW n \in AllNodes', NEW m \in AllNodes', n.id = m.id PROVE n = m
    BY <1>3, <2>2, <2>3 DEF IdsApart
  <2> QED
    BY <2>3 DEF IdsApart
<1>7. StoredIsTrue'
  <2>1. ASSUME NEW e \in relations PROVE KeyIsLive(AllNodes', e)
    <3>1. KeyIsLive(AllNodes, e)
      BY DEF GraphInv, StoredIsTrue
    <3> QED
      BY <1>3, <3>1 DEF KeyIsLive
  <2> QED
    BY <2>1 DEF GraphInv, StoredIsTrue
<1>4. OneAtWork'
  <2>1. Working' \subseteq Working
    BY <1>2 DEF Working
  <2> QED
    BY <2>1 DEF OneAtWork, GraphInv
<1>5. \A q \in Runs : RunIsTrue(run'[q], nodes, sightings, relations, overlapped)
  BY <1>2 DEF GraphInv
<1>8. FilesAreKnown'
  BY <1>2 DEF GraphInv, FilesAreKnown
<1> QED
  BY <1>1, <1>4, <1>5, <1>6, <1>7, <1>8 DEF GraphInv

LEMMA RunKeepsNodes ==
    ASSUME GraphInv, NEW r \in Runs, run[r] # Resting, NEW x \in RunRows, run' = [run EXCEPT ![r] = x],
           UNCHANGED <<known, nodes, sightings, relations, walked, overlapped>>,
           RunIsTrue(x, nodes, sightings, relations, overlapped),
           x.files \subseteq run[r].files, x.nodes \subseteq run[r].nodes
    PROVE  GraphInv'
<1>1. x.nodes \ run[r].nodes = {}
  OBVIOUS
<1> QED
  BY <1>1, RunMoves

\* A transaction that ends leaves nothing of its own.
LEMMA AbortKeeps ==
    ASSUME GraphInv, NEW r \in Runs, run[r] # Resting, Abort(r),
           UNCHANGED <<known, nodes, sightings, relations, walked, overlapped>>
    PROVE  GraphInv'
<1>1. Resting \in RunRows /\ Resting.nodes = {} /\ Resting.files = {}
  BY RestingIsTrue DEF Resting
<1>2. RunIsTrue(Resting, nodes, sightings, relations, overlapped)
  BY RestingIsTrue DEF GraphInv, GraphTypeOK, StoredIsTrue
<1> QED
  BY <1>1, <1>2, RunKeepsNodes DEF Abort

\* A run that starts: alone, or late for good.
LEMMA BeginKeeps ==
    ASSUME GraphInv, NEW r \in Runs, NEW x \in RunRows, Begin(r, x), x.nodes = {}, x.files \subseteq known,
           RunIsTrue(x, nodes, sightings, relations, overlapped)
    PROVE  GraphInv'
<1>1. /\ run[r] = Resting /\ run' = [run EXCEPT ![r] = x] /\ overlapped' = (overlapped \/ Working # {})
      /\ UNCHANGED <<known, nodes, sightings, relations, walked>>
  BY DEF Begin
<1>2. overlapped \in BOOLEAN /\ overlapped' \in BOOLEAN /\ run \in [Runs -> RunRows]
  BY <1>1 DEF GraphInv, GraphTypeOK
<1>3. run'[r] = x /\ \A q \in Runs \ {r} : run'[q] = run[q]
  BY <1>1, <1>2
<1>4. GraphTypeOK'
  BY <1>1, <1>2 DEF GraphInv, GraphTypeOK
<1>9. AllNodes' \subseteq AllNodes
  BY <1>1, <1>3, SMT DEF AllNodes
<1>5. StoredIsTrue'
  <2>1. ASSUME NEW e \in relations PROVE KeyIsLive(AllNodes', e)
    <3>1. KeyIsLive(AllNodes, e)
      BY DEF GraphInv, StoredIsTrue
    <3> QED
      BY <1>9, <3>1 DEF KeyIsLive
  <2> QED
    BY <1>1, <2>1 DEF GraphInv, StoredIsTrue
<1>6. IdsApart'
  BY <1>9 DEF GraphInv, IdsApart
<1>7. OneAtWork'
  <2>1. ASSUME ~overlapped' PROVE Working' \subseteq {r}
    BY <1>1, <1>3, <2>1 DEF Working
  <2> QED
    BY <2>1 DEF OneAtWork
<1>8. ASSUME NEW q \in Runs PROVE RunIsTrue(run'[q], nodes, sightings, relations, overlapped')
  <2>1. CASE q = r
    BY <1>1, <1>2, <1>3, <2>1 DEF RunIsTrue
  <2>2. CASE q # r
    BY <1>1, <1>2, <1>3, <2>2 DEF RunIsTrue, GraphInv
  <2> QED
    BY <2>1, <2>2
<1>10. FilesAreKnown'
  BY <1>1, <1>3 DEF GraphInv, FilesAreKnown
<1> QED
  BY <1>1, <1>4, <1>5, <1>6, <1>7, <1>8, <1>10 DEF GraphInv

LEMMA ListedIn ==
    ASSUME NEW S, NEW n \in Nat, NEW s \in [1..n -> S]
    PROVE  s \in Seq(S)
OBVIOUS

\* A file's mentions and edges, each with its file.
LEMMA FileEntries ==
    ASSUME NEW f \in Files
    PROVE  /\ OfFile(MentionsIn, f) \in Seq(MentionEntries)
           /\ ToSet(OfFile(MentionsIn, f)) = {[file |-> f, what |-> m] : m \in ToSet(MentionsIn[f])}
           /\ OfFile(EdgesIn, f) \in Seq(EdgeEntries)
           /\ ToSet(OfFile(EdgesIn, f)) = {[file |-> f, what |-> d] : d \in ToSet(EdgesIn[f])}
<1>1. MentionsIn[f] \in Seq(ToSet(MentionsIn[f])) /\ EdgesIn[f] \in Seq(ToSet(EdgesIn[f]))
  BY GraphAssumption
<1>2. ASSUME NEW i \in 1..Len(MentionsIn[f])
      PROVE  MentionsIn[f][i] \in ToSet(MentionsIn[f]) /\ MentionsIn[f][i] \in Mentioned
  BY <1>1 DEF ToSet, Mentioned
<1>3. ASSUME NEW i \in 1..Len(EdgesIn[f])
      PROVE  EdgesIn[f][i] \in ToSet(EdgesIn[f]) /\ EdgesIn[f][i] \in StatedEdges
  BY <1>1 DEF ToSet, StatedEdges
<1>4. \A i \in 1..Len(MentionsIn[f]) : [file |-> f, what |-> MentionsIn[f][i]] \in MentionEntries
  BY <1>2 DEF MentionEntries
<1>5. \A i \in 1..Len(EdgesIn[f]) : [file |-> f, what |-> EdgesIn[f][i]] \in EdgeEntries
  BY <1>3 DEF EdgeEntries
<1>6. Len(MentionsIn[f]) \in Nat /\ Len(EdgesIn[f]) \in Nat
      /\ DOMAIN MentionsIn[f] = 1..Len(MentionsIn[f]) /\ DOMAIN EdgesIn[f] = 1..Len(EdgesIn[f])
  BY <1>1
<1>7. ToSet(OfFile(MentionsIn, f)) = {[file |-> f, what |-> m] : m \in ToSet(MentionsIn[f])}
  <2>1. DOMAIN OfFile(MentionsIn, f) = DOMAIN MentionsIn[f]
        /\ \A i \in DOMAIN MentionsIn[f] : OfFile(MentionsIn, f)[i] = [file |-> f, what |-> MentionsIn[f][i]]
    BY <1>6 DEF OfFile
  <2> QED
    BY <2>1, Zenon DEF ToSet
<1>8. ToSet(OfFile(EdgesIn, f)) = {[file |-> f, what |-> d] : d \in ToSet(EdgesIn[f])}
  <2>1. DOMAIN OfFile(EdgesIn, f) = DOMAIN EdgesIn[f]
        /\ \A i \in DOMAIN EdgesIn[f] : OfFile(EdgesIn, f)[i] = [file |-> f, what |-> EdgesIn[f][i]]
    BY <1>6 DEF OfFile
  <2> QED
    BY <2>1, Zenon DEF ToSet
<1> HIDE DEF MentionEntries, EdgeEntries
<1>9. OfFile(MentionsIn, f) \in [1..Len(MentionsIn[f]) -> MentionEntries]
  BY <1>4, Zenon DEF OfFile
<1>10. OfFile(EdgesIn, f) \in [1..Len(EdgesIn[f]) -> EdgeEntries]
  BY <1>5, Zenon DEF OfFile
<1>11. OfFile(MentionsIn, f) \in Seq(MentionEntries) /\ OfFile(EdgesIn, f) \in Seq(EdgeEntries)
  BY <1>6, <1>9, <1>10, ListedIn
<1> QED
  BY <1>7, <1>8, <1>11

LEMMA StartExtractKeeps ==
    ASSUME GraphInv, NEW r \in Runs, NEW f \in Files, StartExtract(r, f)
    PROVE  GraphInv'
<1>1. PICK x : x = [Resting EXCEPT !.pc = "extracting", !.todo = OfFile(MentionsIn, f)]
  OBVIOUS
<1>2. /\ x.pc = "extracting" /\ x.files = {} /\ x.todo = OfFile(MentionsIn, f) /\ x.edges = <<>> /\ x.picked = <<>>
      /\ x.seen = {} /\ x.nodes = {} /\ x.queued = <<>> /\ x.sightings = {} /\ x.relations = {}
  BY <1>1 DEF Resting
<1>3. x \in RunRows
  <2>1. OfFile(MentionsIn, f) \in Seq(MentionEntries)
    BY FileEntries
  <2>2. Resting \in RunRows
    BY RestingIsTrue
  <2> QED
    BY <1>1, <2>1, <2>2 DEF RunRows
<1>4. ToSet(<<>>) = {} /\ IsInjective(<<>>)
  BY DEF ToSet, IsInjective
<1>5. NodesOf(x, nodes) = nodes /\ ToldBy(x, sightings) = sightings /\ relations \cup x.relations = relations
  BY <1>2, <1>4 DEF NodesOf, ToldBy
<1>6. PlaceIsTrue(x, nodes)
  BY <1>2, <1>4 DEF PlaceIsTrue
<1>7. RowsAreTrue(x, nodes, sightings)
  BY <1>2, <1>4 DEF RowsAreTrue
<1>8. overlapped \/ TurnIsTrue(x, nodes, relations)
  BY <1>2, <1>5 DEF TurnIsTrue, GraphInv, StoredIsTrue
<1>9. Begin(r, x)
  BY <1>1 DEF StartExtract
<1>10. EdgesAreTrue(x, nodes, relations)
  BY <1>2 DEF EdgesAreTrue
<1> QED
  BY <1>2, <1>3, <1>5, <1>6, <1>7, <1>8, <1>9, <1>10, BeginKeeps DEF RunIsTrue

\* What the case's files say, each with its file, in the order they are read.
LEMMA OfCaseIs ==
    ASSUME known \subseteq Files, IsFiniteSet(known)
    PROVE  /\ OfCase(MentionsIn) \in Seq(MentionEntries) /\ OfCase(EdgesIn) \in Seq(EdgeEntries)
           /\ \A f \in known : \A m \in ToSet(MentionsIn[f]) : [file |-> f, what |-> m] \in ToSet(OfCase(MentionsIn))
           /\ \A f \in known : \A d \in ToSet(EdgesIn[f]) : [file |-> f, what |-> d] \in ToSet(OfCase(EdgesIn))
<1>1. PICK order : order = SetToSeq(known)
  OBVIOUS
<1>3. order \in Seq(known) /\ \A f \in known : \E n \in DOMAIN order : order[n] = f
  BY <1>1, SetIsListed
<1>4. Len(order) \in Nat /\ DOMAIN order = 1..Len(order) /\ \A i \in 1..Len(order) : order[i] \in known
  BY <1>3
<1>5. PICK ms : ms = [i \in 1..Len(order) |-> OfFile(MentionsIn, order[i])]
  OBVIOUS
<1>6. PICK es : es = [i \in 1..Len(order) |-> OfFile(EdgesIn, order[i])]
  OBVIOUS
<1>7. ms \in Seq(Seq(MentionEntries)) /\ DOMAIN ms = 1..Len(order)
  <2>1. \A i \in 1..Len(order) : OfFile(MentionsIn, order[i]) \in Seq(MentionEntries)
    BY <1>4, FileEntries
  <2> QED
    BY <1>4, <1>5, <2>1
<1>8. es \in Seq(Seq(EdgeEntries)) /\ DOMAIN es = 1..Len(order)
  <2>1. \A i \in 1..Len(order) : OfFile(EdgesIn, order[i]) \in Seq(EdgeEntries)
    BY <1>4, FileEntries
  <2> QED
    BY <1>4, <1>6, <2>1
<1>9. /\ FlattenSeq(ms) \in Seq(MentionEntries)
      /\ ToSet(FlattenSeq(ms)) = UNION {ToSet(ms[i]) : i \in 1..Len(order)}
  BY <1>7, Flattened
<1>10. /\ FlattenSeq(es) \in Seq(EdgeEntries)
       /\ ToSet(FlattenSeq(es)) = UNION {ToSet(es[i]) : i \in 1..Len(order)}
  BY <1>8, Flattened
<1>11. OfCase(MentionsIn) = FlattenSeq(ms) /\ OfCase(EdgesIn) = FlattenSeq(es)
  BY <1>1, <1>5, <1>6 DEF OfCase
<1>12. ASSUME NEW f \in known, NEW m \in ToSet(MentionsIn[f])
       PROVE  [file |-> f, what |-> m] \in ToSet(OfCase(MentionsIn))
  <2>1. PICK i \in 1..Len(order) : order[i] = f
    BY <1>3, <1>4
  <2>2. ms[i] = OfFile(MentionsIn, f) /\ f \in Files
    BY <1>5, <2>1
  <2>3. [file |-> f, what |-> m] \in ToSet(ms[i])
    BY <2>2, FileEntries
  <2> QED
    BY <1>9, <1>11, <2>3
<1>13. ASSUME NEW f \in known, NEW d \in ToSet(EdgesIn[f])
       PROVE  [file |-> f, what |-> d] \in ToSet(OfCase(EdgesIn))
  <2>1. PICK i \in 1..Len(order) : order[i] = f
    BY <1>3, <1>4
  <2>2. es[i] = OfFile(EdgesIn, f) /\ f \in Files
    BY <1>6, <2>1
  <2>3. [file |-> f, what |-> d] \in ToSet(es[i])
    BY <2>2, FileEntries
  <2> QED
    BY <1>10, <1>11, <2>3
<1> QED
  BY <1>9, <1>10, <1>11, <1>12, <1>13

\* A walk over all that is known starts with every mention to go.
LEMMA StartRunKeeps ==
    ASSUME GraphInv, NEW r \in Runs, StartRun(r)
    PROVE  GraphInv'
<1>1. known # {} /\ known \subseteq Files /\ IsFiniteSet(known)
  BY DEF StartRun, GraphInv, GraphTypeOK
<1>2. PICK x : x = [Resting EXCEPT !.pc = "resolving", !.files = known, !.todo = OfCase(MentionsIn)]
  OBVIOUS
<1>3. /\ x.pc = "resolving" /\ x.files = known /\ x.todo = OfCase(MentionsIn) /\ x.edges = <<>>
      /\ x.picked = <<>> /\ x.seen = {} /\ x.nodes = {} /\ x.queued = <<>> /\ x.sightings = {}
      /\ x.relations = {}
  BY <1>2 DEF Resting
<1>4. OfCase(MentionsIn) \in Seq(MentionEntries)
      /\ \A f \in known : \A m \in ToSet(MentionsIn[f]) : [file |-> f, what |-> m] \in ToSet(x.todo)
  BY <1>1, <1>3, OfCaseIs
<1>5. x \in RunRows
  BY <1>1, <1>2, <1>4, RestingIsTrue DEF RunRows
<1>6. ToSet(<<>>) = {} /\ IsInjective(<<>>)
  BY DEF ToSet, IsInjective
<1>7. NodesOf(x, nodes) = nodes /\ ToldBy(x, sightings) = sightings /\ relations \cup x.relations = relations
  BY <1>3, <1>6 DEF NodesOf, ToldBy
<1>8. PlaceIsTrue(x, nodes)
  BY <1>1, <1>3 DEF PlaceIsTrue
<1>9. RowsAreTrue(x, nodes, sightings)
  BY <1>3, <1>4, <1>6 DEF RowsAreTrue, Visited
<1>10. overlapped \/ TurnIsTrue(x, nodes, relations)
  BY <1>3, <1>7 DEF TurnIsTrue, GraphInv, StoredIsTrue
<1>11. EdgesAreTrue(x, nodes, relations)
  BY <1>3 DEF EdgesAreTrue
<1>12. Begin(r, x)
  BY <1>2 DEF StartRun
<1> QED
  BY <1>3, <1>5, <1>7, <1>8, <1>9, <1>10, <1>11, <1>12, BeginKeeps DEF RunIsTrue

LEMMA StoreRecordsKeeps ==
    ASSUME GraphInv, NEW f \in Files, StoreRecords(f)
    PROVE  GraphInv'
<1>1. known' = known \cup {f} /\ UNCHANGED <<nodes, sightings, relations, run, walked, overlapped>>
  BY DEF StoreRecords
<1>2. GraphTypeOK'
  <2>1. IsFiniteSet(known \cup {f})
    BY FS_AddElement DEF GraphInv, GraphTypeOK
  <2> QED
    BY <1>1, <2>1 DEF GraphInv, GraphTypeOK
<1>3. IdsApart' /\ OneAtWork' /\ StoredIsTrue' /\ FilesAreKnown'
  BY <1>1 DEF GraphInv, IdsApart, AllNodes, OneAtWork, Working, StoredIsTrue, FilesAreKnown
<1> QED
  BY <1>1, <1>2, <1>3 DEF GraphInv

-----------------------------------------------------------------------------
\* The first entry of a sequence and the rest; one more at its end.
LEMMA HeadAndTail ==
    ASSUME NEW S, NEW s \in Seq(S), s # <<>>
    PROVE  Head(s) \in S /\ Tail(s) \in Seq(S) /\ ToSet(s) = {Head(s)} \cup ToSet(Tail(s))
<1>1. Len(s) \in Nat /\ Len(s) > 0 /\ DOMAIN s = 1..Len(s) /\ Head(s) = s[1]
  OBVIOUS
<1>2. Tail(s) \in Seq(S) /\ DOMAIN Tail(s) = 1..(Len(s) - 1) /\ \A i \in 1..(Len(s) - 1) : Tail(s)[i] = s[i + 1]
  BY <1>1
<1>3. ASSUME NEW i \in DOMAIN s PROVE s[i] \in {Head(s)} \cup ToSet(Tail(s))
  <2>1. i = 1 \/ (i - 1 \in 1..(Len(s) - 1) /\ (i - 1) + 1 = i)
    BY <1>1
  <2> QED
    BY <1>1, <1>2, <2>1 DEF ToSet
<1>4. ASSUME NEW i \in DOMAIN Tail(s) PROVE Tail(s)[i] \in ToSet(s)
  <2>1. i + 1 \in 1..Len(s)
    BY <1>1, <1>2
  <2> QED
    BY <1>1, <1>2, <2>1 DEF ToSet
<1>5. 1 \in DOMAIN s
  BY <1>1
<1>6. ToSet(s) = {Head(s)} \cup ToSet(Tail(s))
  BY <1>1, <1>3, <1>4, <1>5, Zenon DEF ToSet
<1> QED
  BY <1>1, <1>2, <1>6

LEMMA OneMore ==
    ASSUME NEW S, NEW s \in Seq(S), NEW e \in S
    PROVE  /\ Append(s, e) \in Seq(S) /\ ToSet(Append(s, e)) = ToSet(s) \cup {e}
           /\ IsInjective(s) /\ e \notin ToSet(s) => IsInjective(Append(s, e))
<1>1. Len(s) \in Nat /\ DOMAIN s = 1..Len(s)
  OBVIOUS
<1>2. /\ Append(s, e) \in Seq(S) /\ DOMAIN Append(s, e) = 1..(Len(s) + 1)
      /\ \A i \in 1..Len(s) : Append(s, e)[i] = s[i]
      /\ Append(s, e)[Len(s) + 1] = e
  BY <1>1
<1>3. DOMAIN Append(s, e) = DOMAIN s \cup {Len(s) + 1}
  BY <1>1, <1>2
<1>4. ToSet(Append(s, e)) = ToSet(s) \cup {e}
  BY <1>1, <1>2, <1>3, Zenon DEF ToSet
<1>5. ASSUME IsInjective(s), e \notin ToSet(s) PROVE IsInjective(Append(s, e))
  <2>1. \A i \in DOMAIN s : s[i] # e
    BY <1>5 DEF ToSet
  <2> QED
    BY <1>1, <1>2, <1>3, <1>5, <2>1 DEF IsInjective
<1> QED
  BY <1>2, <1>4, <1>5

LEMMA MentionAtHand ==
    ASSUME NEW h \in MentionEntries
    PROVE  /\ h = [file |-> h.file, what |-> h.what] /\ h.file \in Files /\ h.what \in Mentioned
           /\ h.what \in ToSet(MentionsIn[h.file])
           /\ h.what = [field |-> h.what.field, identity |-> h.what.identity]
<1>1. h \in [file : Files, what : Mentioned] /\ h.what \in ToSet(MentionsIn[h.file])
  BY DEF MentionEntries
<1>2. h = [file |-> h.file, what |-> h.what] /\ h.file \in Files /\ h.what \in Mentioned
  BY <1>1
<1>3. h.what = [field |-> h.what.field, identity |-> h.what.identity]
  BY <1>1, <1>2, GraphAssumption
<1> QED
  BY <1>1, <1>2, <1>3

\* What is true of a run in work.
LEMMA InWork ==
    ASSUME GraphInv, NEW r \in Runs
    PROVE  /\ run \in [Runs -> RunRows] /\ run[r] \in RunRows
           /\ PlaceIsTrue(run[r], NodesOf(run[r], nodes))
           /\ RowsAreTrue(run[r], NodesOf(run[r], nodes), ToldBy(run[r], sightings))
           /\ EdgesAreTrue(run[r], NodesOf(run[r], nodes), relations \cup run[r].relations)
           /\ overlapped \/ TurnIsTrue(run[r], NodesOf(run[r], nodes), relations)
BY DEF GraphInv, GraphTypeOK, RunIsTrue

LEMMA PcInWork ==
    ASSUME NEW r \in Runs, run[r].pc # "idle"
    PROVE  run[r] # Resting
BY DEF Resting

\* Nodes found are canonical ones of the identity among those the run sees.
LEMMA FoundIs ==
    ASSUME NEW r \in Runs, NEW identity
    PROVE  /\ \A id \in Found(r, identity) :
                \E n \in NodesOf(run[r], nodes) : n.id = id /\ n.identity = identity /\ n.label = "canonical"
           /\ \A n \in NodesOf(run[r], nodes) :
                n.identity = identity /\ n.label = "canonical" => n.id \in Found(r, identity)
BY DEF Found, NodesSeen, NodesOf

LEMMA NeedsNodeKeeps ==
    ASSUME GraphInv, NEW r \in Runs, NeedsNode(r)
    PROVE  GraphInv'
<1>1. PICK w : w = run[r]
  OBVIOUS
<1>2. /\ w \in RunRows /\ run \in [Runs -> RunRows] /\ PlaceIsTrue(w, NodesOf(w, nodes))
      /\ RowsAreTrue(w, NodesOf(w, nodes), ToldBy(w, sightings))
      /\ overlapped \/ TurnIsTrue(w, NodesOf(w, nodes), relations)
  BY <1>1, InWork
<1>3. /\ w.pc \in {"resolving", "extracting"} /\ w.todo # <<>> /\ Found(r, Head(w.todo).what.identity) = {}
      /\ run' = [run EXCEPT ![r].pc = "minting"] /\ Unread
  BY <1>1 DEF NeedsNode, At, AtHand
<1>4. PICK x : x = [w EXCEPT !.pc = "minting"]
  OBVIOUS
<1>5. /\ x.pc = "minting" /\ x.files = w.files /\ x.todo = w.todo /\ x.edges = w.edges /\ x.picked = w.picked
      /\ x.seen = w.seen /\ x.nodes = w.nodes /\ x.queued = w.queued /\ x.sightings = w.sightings
      /\ x.relations = w.relations /\ x \in RunRows
  BY <1>2, <1>4 DEF RunRows
<1>6. run' = [run EXCEPT ![r] = x]
  BY <1>1, <1>3, <1>4
<1>7. NodesOf(x, nodes) = NodesOf(w, nodes) /\ ToldBy(x, sightings) = ToldBy(w, sightings)
  BY <1>5 DEF NodesOf, ToldBy
<1>8. PlaceIsTrue(x, NodesOf(w, nodes))
  BY <1>2, <1>3, <1>5 DEF PlaceIsTrue
<1>9. RowsAreTrue(x, NodesOf(w, nodes), ToldBy(w, sightings))
  BY <1>2, <1>5 DEF RowsAreTrue
<1>10. overlapped \/ TurnIsTrue(x, NodesOf(w, nodes), relations)
  <2>1. \A n \in NodesOf(w, nodes) : ~(n.label = "canonical" /\ n.identity = Head(w.todo).what.identity)
    BY <1>1, <1>3, FoundIs
  <2> QED
    BY <1>2, <1>5, <2>1 DEF TurnIsTrue
<1>11. run[r] # Resting
  BY <1>1, <1>3, PcInWork
<1>12. EdgesAreTrue(x, NodesOf(w, nodes), relations \cup x.relations)
  BY <1>5 DEF EdgesAreTrue
<1> QED
  BY <1>1, <1>3, <1>5, <1>6, <1>7, <1>8, <1>9, <1>10, <1>11, <1>12, RunKeepsNodes DEF RunIsTrue, Unread

LEMMA LinkKeeps ==
    ASSUME GraphInv, NEW r \in Runs, Link(r)
    PROVE  GraphInv'
<1>1. PICK w : w = run[r]
  OBVIOUS
<1>2. /\ w \in RunRows /\ run \in [Runs -> RunRows] /\ PlaceIsTrue(w, NodesOf(w, nodes))
      /\ RowsAreTrue(w, NodesOf(w, nodes), ToldBy(w, sightings))
      /\ overlapped \/ TurnIsTrue(w, NodesOf(w, nodes), relations)
  BY <1>1, InWork
<1>3. w.pc = "extracting" /\ w.todo # <<>> /\ run' = [run EXCEPT ![r].todo = Tail(@)] /\ Unread
  BY <1>1 DEF Link, At
<1>4. PICK x : x = [w EXCEPT !.todo = Tail(w.todo)]
  OBVIOUS
<1>5. /\ x.pc = w.pc /\ x.files = w.files /\ x.todo = Tail(w.todo) /\ x.edges = w.edges /\ x.picked = w.picked
      /\ x.seen = w.seen /\ x.nodes = w.nodes /\ x.queued = w.queued /\ x.sightings = w.sightings
      /\ x.relations = w.relations /\ x \in RunRows
  <2>1. w.todo \in Seq(MentionEntries)
    BY <1>2 DEF RunRows
  <2>2. Tail(w.todo) \in Seq(MentionEntries)
    BY <1>3, <2>1, HeadAndTail
  <2> QED
    BY <1>2, <1>4, <2>2 DEF RunRows
<1>6. run' = [run EXCEPT ![r] = x]
  BY <1>1, <1>3, <1>4
<1>7. NodesOf(x, nodes) = NodesOf(w, nodes) /\ ToldBy(x, sightings) = ToldBy(w, sightings)
  BY <1>5 DEF NodesOf, ToldBy
<1>8. PlaceIsTrue(x, NodesOf(w, nodes))
  BY <1>2, <1>3, <1>5 DEF PlaceIsTrue
<1>9. RowsAreTrue(x, NodesOf(w, nodes), ToldBy(w, sightings))
  <2>1. w.files = {}
    BY <1>2, <1>3 DEF PlaceIsTrue
  <2> QED
    BY <1>2, <1>5, <2>1 DEF RowsAreTrue
<1>10. overlapped \/ TurnIsTrue(x, NodesOf(w, nodes), relations)
  BY <1>2, <1>3, <1>5 DEF TurnIsTrue
<1>11. run[r] # Resting
  BY <1>1, <1>3, PcInWork
<1>12. EdgesAreTrue(x, NodesOf(w, nodes), relations \cup x.relations)
  BY <1>3, <1>5 DEF EdgesAreTrue
<1> QED
  BY <1>1, <1>3, <1>5, <1>6, <1>7, <1>8, <1>9, <1>10, <1>11, <1>12, RunKeepsNodes DEF RunIsTrue, Unread

\* A mention at hand whose node is there is told, and once.
LEMMA ObserveKeeps ==
    ASSUME GraphInv, NEW r \in Runs, Observe(r)
    PROVE  GraphInv'
<1>1. PICK w : w = run[r]
  OBVIOUS
<1>2. /\ w \in RunRows /\ run \in [Runs -> RunRows] /\ PlaceIsTrue(w, NodesOf(w, nodes))
      /\ RowsAreTrue(w, NodesOf(w, nodes), ToldBy(w, sightings))
      /\ overlapped \/ TurnIsTrue(w, NodesOf(w, nodes), relations)
  BY <1>1, InWork
<1>3. w.pc = "resolving" /\ w.todo # <<>> /\ Unread
  BY <1>1 DEF Observe, At
<1>4. PICK h : h = Head(w.todo)
  OBVIOUS
<1>5. /\ w.todo \in Seq(MentionEntries) /\ w.queued \in Seq(SightingRows) /\ w.seen \subseteq SightingRows
      /\ w.nodes \subseteq NodeRows /\ nodes \subseteq NodeRows
  BY <1>2 DEF RunRows, GraphInv, GraphTypeOK
<1>6. h \in MentionEntries /\ Tail(w.todo) \in Seq(MentionEntries) /\ ToSet(w.todo) = {h} \cup ToSet(Tail(w.todo))
  BY <1>3, <1>4, <1>5, HeadAndTail
<1>7. /\ h = [file |-> h.file, what |-> h.what] /\ h.file \in Files /\ h.what \in Mentioned
      /\ h.what \in ToSet(MentionsIn[h.file])
      /\ h.what = [field |-> h.what.field, identity |-> h.what.identity]
  BY <1>6, MentionAtHand
<1>8. PICK node \in Found(r, AtHand(r).what.identity) :
        run' = [run EXCEPT ![r] =
          [run[r] EXCEPT !.todo = Tail(run[r].todo),
                         !.seen = run[r].seen \cup {<<node, AtHand(r).file, AtHand(r).what.field>>},
                         !.queued = IF <<node, AtHand(r).file, AtHand(r).what.field>> \in run[r].seen \cup SightingsSeen(r)
                                    THEN run[r].queued
                                    ELSE Append(run[r].queued, <<node, AtHand(r).file, AtHand(r).what.field>>)]]
  BY Zenon DEF Observe
<1>9. PICK s : s = <<node, h.file, h.what.field>>
  OBVIOUS
<1>10. PICK n \in NodesOf(w, nodes) : n.id = node /\ n.identity = h.what.identity /\ n.label = "canonical"
  BY <1>1, <1>4, <1>8, FoundIs DEF AtHand
<1>11. s \in SightingRows
  <2>1. n.id \in Int
    BY <1>5 DEF NodesOf, NodeRows
  <2> QED
    BY <1>7, <1>9, <1>10, <2>1 DEF SightingRows
<1>12. Attested(NodesOf(w, nodes), s)
  <2>1. s[1] = node /\ s[2] = h.file /\ s[3] = h.what.field
    BY <1>9
  <2> QED
    BY <1>7, <1>10, <2>1 DEF Attested
<1>13. PICK q : q = IF s \in w.seen \cup SightingsSeen(r) THEN w.queued ELSE Append(w.queued, s)
  OBVIOUS
<1>14. PICK x : x = [w EXCEPT !.todo = Tail(w.todo), !.seen = w.seen \cup {s}, !.queued = q]
  OBVIOUS
<1>15. run' = [run EXCEPT ![r] = x]
  BY <1>1, <1>4, <1>8, <1>9, <1>13, <1>14 DEF AtHand
<1>16. /\ IsInjective(w.queued) /\ ToSet(w.queued) \subseteq w.seen /\ w.seen \subseteq ToldBy(w, sightings)
       /\ \A t \in w.sightings \cup ToSet(w.queued) : Attested(NodesOf(w, nodes), t)
       /\ \A e \in w.relations : Anchored(NodesOf(w, nodes), e) /\ e.subject = e.key[2] /\ e.object = e.key[3]
       /\ \A f \in w.files : \A m \in ToSet(MentionsIn[f]) :
            Visited(w.todo, NodesOf(w, nodes), ToldBy(w, sightings), f, m)
  BY <1>2 DEF RowsAreTrue
<1>17. /\ q \in Seq(SightingRows) /\ IsInjective(q) /\ ToSet(w.queued) \subseteq ToSet(q)
       /\ ToSet(q) \subseteq ToSet(w.queued) \cup {s}
       /\ s \in sightings \cup w.sightings \cup ToSet(q)
  <2>1. CASE s \in w.seen \cup SightingsSeen(r)
    BY <1>1, <1>5, <1>13, <1>16, <2>1 DEF SightingsSeen, ToldBy
  <2>2. CASE s \notin w.seen \cup SightingsSeen(r)
    <3>1. s \notin ToSet(w.queued)
      BY <1>16, <2>2
    <3>2. /\ Append(w.queued, s) \in Seq(SightingRows) /\ ToSet(Append(w.queued, s)) = ToSet(w.queued) \cup {s}
          /\ IsInjective(Append(w.queued, s))
      BY <1>5, <1>11, <1>16, <3>1, OneMore
    <3> QED
      BY <1>13, <2>2, <3>2
  <2> QED
    BY <2>1, <2>2
<1>18. /\ x.pc = "resolving" /\ x.files = w.files /\ x.todo = Tail(w.todo) /\ x.edges = w.edges
       /\ x.picked = w.picked /\ x.seen = w.seen \cup {s} /\ x.nodes = w.nodes /\ x.queued = q
       /\ x.sightings = w.sightings /\ x.relations = w.relations
  BY <1>2, <1>3, <1>14 DEF RunRows
<1>19. x \in RunRows
  <2>1. w.seen \cup {s} \in SUBSET SightingRows
    BY <1>5, <1>11
  <2> QED
    BY <1>2, <1>6, <1>14, <1>17, <2>1 DEF RunRows
<1>20. NodesOf(x, nodes) = NodesOf(w, nodes)
  BY <1>18 DEF NodesOf
<1>21. ToldBy(w, sightings) \subseteq ToldBy(x, sightings) /\ s \in ToldBy(x, sightings)
  BY <1>17, <1>18 DEF ToldBy
<1>22. PlaceIsTrue(x, NodesOf(w, nodes))
  <2>1. w.files # {}
    BY <1>2, <1>3 DEF PlaceIsTrue
  <2> QED
    BY <1>2, <1>18, <2>1 DEF PlaceIsTrue
<1>23. RowsAreTrue(x, NodesOf(w, nodes), ToldBy(x, sightings))
  <2>1. IsInjective(x.queued) /\ ToSet(x.queued) \subseteq x.seen /\ x.seen \subseteq ToldBy(x, sightings)
    BY <1>16, <1>17, <1>18, <1>21
  <2>2. \A t \in x.sightings \cup ToSet(x.queued) : Attested(NodesOf(w, nodes), t)
    BY <1>12, <1>16, <1>17, <1>18
  <2>3. ASSUME NEW f \in x.files, NEW m \in ToSet(MentionsIn[f])
        PROVE  Visited(x.todo, NodesOf(w, nodes), ToldBy(x, sightings), f, m)
    <3>1. Visited(w.todo, NodesOf(w, nodes), ToldBy(w, sightings), f, m)
      BY <1>16, <1>18
    <3>2. CASE [file |-> f, what |-> m] = h
      <4>1. h.file = f /\ h.what = m
        BY <3>2
      <4>2. n.label = "canonical" /\ n.identity = m.identity /\ <<n.id, f, m.field>> \in ToldBy(x, sightings)
        BY <1>9, <1>10, <1>21, <4>1
      <4> QED
        BY <4>2 DEF Visited
    <3>3. CASE [file |-> f, what |-> m] # h
      BY <1>6, <1>18, <1>21, <3>1, <3>3 DEF Visited
    <3> QED
      BY <3>2, <3>3
  <2> QED
    BY <1>16, <1>18, <2>1, <2>2, <2>3 DEF RowsAreTrue
<1>24. overlapped \/ TurnIsTrue(x, NodesOf(w, nodes), relations)
  <2> SUFFICES ASSUME ~overlapped PROVE TurnIsTrue(x, NodesOf(w, nodes), relations)
    OBVIOUS
  <2>1. TurnIsTrue(w, NodesOf(w, nodes), relations)
    BY <1>2
  <2> QED
    BY <1>18, <2>1 DEF TurnIsTrue
<1>25. run[r] # Resting
  BY <1>1, <1>3, PcInWork
<1>26. RunIsTrue(x, nodes, sightings, relations, overlapped)
  <2>1. EdgesAreTrue(x, NodesOf(w, nodes), relations \cup x.relations)
    BY <1>18 DEF EdgesAreTrue
  <2> QED
    BY <1>20, <1>22, <1>23, <1>24, <2>1 DEF RunIsTrue
<1> QED
  BY <1>1, <1>3, <1>15, <1>18, <1>19, <1>25, <1>26, RunKeepsNodes DEF Unread

\* The records asked for again: every edge of the files walked is to go.
LEMMA ReadAgainKeeps ==
    ASSUME GraphInv, NEW r \in Runs, ReadAgain(r)
    PROVE  GraphInv'
<1>1. PICK w : w = run[r]
  OBVIOUS
<1>2. /\ w \in RunRows /\ run \in [Runs -> RunRows] /\ PlaceIsTrue(w, NodesOf(w, nodes))
      /\ RowsAreTrue(w, NodesOf(w, nodes), ToldBy(w, sightings))
      /\ overlapped \/ TurnIsTrue(w, NodesOf(w, nodes), relations)
  BY <1>1, InWork
<1>3. w.pc = "resolving" /\ w.todo = <<>> /\ Unread
      /\ run' = [run EXCEPT ![r] = [w EXCEPT !.pc = "relating", !.edges = OfCase(EdgesIn)]]
  BY <1>1 DEF ReadAgain, At
<1>4. /\ OfCase(EdgesIn) \in Seq(EdgeEntries)
      /\ \A f \in known : \A d \in ToSet(EdgesIn[f]) : [file |-> f, what |-> d] \in ToSet(OfCase(EdgesIn))
  BY OfCaseIs DEF GraphInv, GraphTypeOK
<1>5. w.files \subseteq known
  BY <1>1 DEF GraphInv, FilesAreKnown
<1>6. PICK x : x = [w EXCEPT !.pc = "relating", !.edges = OfCase(EdgesIn)]
  OBVIOUS
<1>7. /\ x.pc = "relating" /\ x.files = w.files /\ x.todo = w.todo /\ x.edges = OfCase(EdgesIn) /\ x.picked = w.picked
      /\ x.seen = w.seen /\ x.nodes = w.nodes /\ x.queued = w.queued /\ x.sightings = w.sightings
      /\ x.relations = w.relations /\ x \in RunRows
  BY <1>2, <1>4, <1>6 DEF RunRows
<1>8. NodesOf(x, nodes) = NodesOf(w, nodes) /\ ToldBy(x, sightings) = ToldBy(w, sightings)
  BY <1>7 DEF NodesOf, ToldBy
<1>9. PlaceIsTrue(x, NodesOf(w, nodes))
  BY <1>2, <1>3, <1>7 DEF PlaceIsTrue
<1>10. RowsAreTrue(x, NodesOf(w, nodes), ToldBy(w, sightings))
  BY <1>2, <1>7 DEF RowsAreTrue
<1>11. overlapped \/ TurnIsTrue(x, NodesOf(w, nodes), relations)
  BY <1>2, <1>7 DEF TurnIsTrue
<1>12. EdgesAreTrue(x, NodesOf(w, nodes), relations \cup x.relations)
  <2>1. ASSUME NEW f \in w.files, NEW d \in ToSet(EdgesIn[f])
        PROVE  Written(x.edges, NodesOf(w, nodes), relations \cup x.relations, f, d)
    BY <1>4, <1>5, <1>7 DEF Written
  <2> QED
    BY <1>7, <2>1 DEF EdgesAreTrue
<1>13. RunIsTrue(x, nodes, sightings, relations, overlapped)
  BY <1>8, <1>9, <1>10, <1>11, <1>12 DEF RunIsTrue
<1>14. run[r] # Resting
  BY <1>1, <1>3, PcInWork
<1> QED
  BY <1>1, <1>3, <1>6, <1>7, <1>13, <1>14, RunKeepsNodes DEF Unread

\* An edge at hand whose ends are there is about to be stated, or is past: then it
\* is stored, its ends are one, or its file is not among those walked.
LEMMA PickEdgeKeeps ==
    ASSUME GraphInv, NEW r \in Runs, PickEdge(r)
    PROVE  GraphInv'
<1>1. PICK w : w = run[r]
  OBVIOUS
<1>2. /\ w \in RunRows /\ run \in [Runs -> RunRows] /\ PlaceIsTrue(w, NodesOf(w, nodes))
      /\ RowsAreTrue(w, NodesOf(w, nodes), ToldBy(w, sightings))
      /\ EdgesAreTrue(w, NodesOf(w, nodes), relations \cup w.relations)
      /\ overlapped \/ TurnIsTrue(w, NodesOf(w, nodes), relations)
  BY <1>1, InWork
<1>3. w.pc = "relating" /\ w.edges # <<>> /\ Unread
  BY <1>1, Zenon DEF PickEdge, At
<1>4. run[r] # Resting
  BY <1>1, <1>3, PcInWork
<1>5. PICK h : h = Head(w.edges)
  OBVIOUS
<1>6. /\ h \in EdgeEntries /\ Tail(w.edges) \in Seq(EdgeEntries)
      /\ ToSet(w.edges) = {h} \cup ToSet(Tail(w.edges))
  <2>1. w.edges \in Seq(EdgeEntries)
    BY <1>2 DEF RunRows
  <2> QED
    BY <1>3, <1>5, <2>1, HeadAndTail
<1>7. /\ h = [file |-> h.file, what |-> h.what] /\ h.file \in Files /\ h.what \in StatedEdges
      /\ h.what \in ToSet(EdgesIn[h.file])
  BY <1>6 DEF EdgeEntries
<1>8. w.todo = <<>> /\ w.files # {} /\ ToSet(<<>>) = {}
  BY <1>2, <1>3 DEF PlaceIsTrue, ToSet
\* An end of a file that was walked has a node.
<1>9. ASSUME h.file \in w.files, NEW i \in {h.what.from, h.what.to} PROVE Found(r, i) # {}
  <2>1. {h.what.from, h.what.to} \subseteq {a.identity : a \in ToSet(MentionsIn[h.file])}
    BY <1>7, GraphAssumption
  <2>2. PICK a \in ToSet(MentionsIn[h.file]) : a.identity = i
    BY <1>9, <2>1
  <2>3. Visited(w.todo, NodesOf(w, nodes), ToldBy(w, sightings), h.file, a)
    BY <1>2, <1>9 DEF RowsAreTrue
  <2>4. PICK l \in NodesOf(w, nodes) : l.label = "canonical" /\ l.identity = a.identity
    BY <1>8, <2>3 DEF Visited
  <2> QED
    BY <1>1, <2>2, <2>4, FoundIs
<1>10. ASSUME h.file \in w.files => StatedBy(NodesOf(w, nodes), relations \cup w.relations, h.file, h.what),
              run' = [run EXCEPT ![r].edges = Tail(@)]
       PROVE  GraphInv'
  <2>1. PICK x : x = [w EXCEPT !.edges = Tail(w.edges)]
    OBVIOUS
  <2>2. /\ x.pc = w.pc /\ x.files = w.files /\ x.todo = w.todo /\ x.edges = Tail(w.edges) /\ x.picked = w.picked
        /\ x.seen = w.seen /\ x.nodes = w.nodes /\ x.queued = w.queued /\ x.sightings = w.sightings
        /\ x.relations = w.relations /\ x \in RunRows
    BY <1>2, <1>6, <2>1 DEF RunRows
  <2>3. run' = [run EXCEPT ![r] = x]
    BY <1>1, <1>10, <2>1
  <2>4. NodesOf(x, nodes) = NodesOf(w, nodes) /\ ToldBy(x, sightings) = ToldBy(w, sightings)
    BY <2>2 DEF NodesOf, ToldBy
  <2>5. PlaceIsTrue(x, NodesOf(w, nodes))
    BY <1>2, <1>3, <1>8, <2>2 DEF PlaceIsTrue
  <2>6. RowsAreTrue(x, NodesOf(w, nodes), ToldBy(w, sightings))
    BY <1>2, <2>2 DEF RowsAreTrue
  <2>7. overlapped \/ TurnIsTrue(x, NodesOf(w, nodes), relations)
    BY <1>2, <1>3, <2>2 DEF TurnIsTrue
  <2>8. EdgesAreTrue(x, NodesOf(w, nodes), relations \cup x.relations)
    <3>1. ASSUME NEW f \in w.files, NEW d \in ToSet(EdgesIn[f])
          PROVE  Written(Tail(w.edges), NodesOf(w, nodes), relations \cup w.relations, f, d)
      <4>1. Written(w.edges, NodesOf(w, nodes), relations \cup w.relations, f, d)
        BY <1>2, <1>3 DEF EdgesAreTrue
      <4>2. CASE [file |-> f, what |-> d] = h
        <5>1. h.file = f /\ h.what = d
          BY <4>2
        <5> QED
          BY <1>10, <5>1 DEF Written
      <4> QED
        BY <1>6, <4>1, <4>2 DEF Written
    <3> QED
      BY <2>2, <3>1 DEF EdgesAreTrue
  <2>9. RunIsTrue(x, nodes, sightings, relations, overlapped)
    BY <2>4, <2>5, <2>6, <2>7, <2>8 DEF RunIsTrue
  <2> QED
    BY <1>1, <1>3, <1>4, <2>2, <2>3, <2>9, RunKeepsNodes DEF Unread
\* Nodes found for the two ends.
<1>11. ASSUME NEW left \in Found(r, h.what.from), NEW right \in Found(r, h.what.to)
       PROVE  LET key == EdgeKey(h.what, h.file, left, right)
              IN  /\ left \in Int /\ right \in Int
                  /\ Canonical(NodesOf(w, nodes), left, h.what.from) /\ Canonical(NodesOf(w, nodes), right, h.what.to)
                  /\ left = right => h.what.from = h.what.to
                  /\ key = <<key[1], key[2], key[3], key[4]>> /\ key[1] = h.what.kind /\ key[4] = h.file
                  /\ {key[2], key[3]} = {left, right}
                  /\ Backed(NodesOf(w, nodes), key[1], key[2], key[3], h.what)
                  /\ left # right => \A d \in StatedEdges : Ordered(key, d)
  <2>1. PICK key : key = EdgeKey(h.what, h.file, left, right)
    OBVIOUS
  <2>2. PICK n \in NodesOf(w, nodes) : n.id = left /\ n.identity = h.what.from /\ n.label = "canonical"
    BY <1>1, FoundIs
  <2>3. PICK m \in NodesOf(w, nodes) : m.id = right /\ m.identity = h.what.to /\ m.label = "canonical"
    BY <1>1, FoundIs
  <2>4. left \in Int /\ right \in Int
    BY <1>2, <2>2, <2>3 DEF NodesOf, NodeRows, RunRows, GraphInv, GraphTypeOK
  <2>5. Canonical(NodesOf(w, nodes), left, h.what.from) /\ Canonical(NodesOf(w, nodes), right, h.what.to)
    BY <2>2, <2>3 DEF Canonical
  <2>6. left = right => h.what.from = h.what.to
    <3>1. n \in AllNodes /\ m \in AllNodes /\ IdsApart
      BY <1>1, <2>2, <2>3 DEF NodesOf, AllNodes, GraphInv
    <3> QED
      BY <2>2, <2>3, <3>1 DEF IdsApart
  <2>7. CASE key = <<h.what.kind, left, right, h.file>> /\ (h.what.directed \/ left < right)
    <3>1. key[1] = h.what.kind /\ key[2] = left /\ key[3] = right /\ key[4] = h.file
      BY <2>7
    <3>2. Backed(NodesOf(w, nodes), key[1], key[2], key[3], h.what)
      BY <2>5, <3>1 DEF Backed
    <3>3. ASSUME NEW d \in StatedEdges PROVE Ordered(key, d)
      <4>1. d.kind = h.what.kind => d.directed = h.what.directed
        BY <1>7, GraphAssumption DEF StatedEdges
      <4> QED
        BY <2>7, <3>1, <4>1 DEF Ordered
    <3> QED
      BY <2>1, <2>4, <2>5, <2>6, <2>7, <3>1, <3>2, <3>3
  <2>8. CASE key = <<h.what.kind, right, left, h.file>> /\ ~h.what.directed /\ ~(left < right)
    <3>1. key[1] = h.what.kind /\ key[2] = right /\ key[3] = left /\ key[4] = h.file
      BY <2>8
    <3>2. Backed(NodesOf(w, nodes), key[1], key[2], key[3], h.what)
      BY <2>5, <2>8, <3>1 DEF Backed
    <3>3. left # right => key[2] < key[3]
      BY <2>4, <2>8, <3>1
    <3>4. left # right => \A d \in StatedEdges : Ordered(key, d)
      BY <3>3 DEF Ordered
    <3> QED
      BY <2>1, <2>4, <2>5, <2>6, <2>8, <3>1, <3>2, <3>4
  <2> QED
    BY <2>1, <2>7, <2>8 DEF EdgeKey
\* What is stored under the key is the edge of these nodes.
<1>12. ASSUME NEW left \in Found(r, h.what.from), NEW right \in Found(r, h.what.to),
              EdgeKey(h.what, h.file, left, right) \in {e.key : e \in RelationsSeen(r)}
       PROVE  StatedBy(NodesOf(w, nodes), relations \cup w.relations, h.file, h.what)
  <2>1. PICK key : key = EdgeKey(h.what, h.file, left, right)
    OBVIOUS
  <2>2. PICK e \in relations \cup w.relations : e.key = key
    BY <1>1, <1>12, <2>1 DEF RelationsSeen
  <2>3. /\ key[1] = h.what.kind /\ key[4] = h.file /\ {key[2], key[3]} = {left, right}
        /\ Backed(NodesOf(w, nodes), key[1], key[2], key[3], h.what)
        /\ Canonical(NodesOf(w, nodes), left, h.what.from) /\ Canonical(NodesOf(w, nodes), right, h.what.to)
    BY <1>11, <2>1
  <2>4. e.subject = key[2] /\ e.object = key[3]
    <3>1. CASE e \in w.relations
      BY <1>2, <2>2, <3>1 DEF RowsAreTrue
    <3>2. CASE e \in relations
      <4>1. KeyIsLive(AllNodes, e)
        BY <3>2 DEF GraphInv, StoredIsTrue
      <4>2. \A id \in {left, right} : \E n \in AllNodes : n.id = id
        BY <1>1, <2>3 DEF Canonical, NodesOf, AllNodes
      <4>3. PICK n \in AllNodes : n.id = key[2]
        BY <2>3, <4>2
      <4>4. PICK m \in AllNodes : m.id = key[3]
        BY <2>3, <4>2
      <4> QED
        BY <2>2, <4>1, <4>3, <4>4 DEF KeyIsLive
    <3> QED
      BY <2>2, <3>1, <3>2
  <2> QED
    BY <2>2, <2>3, <2>4 DEF StatedBy
<1>13. ASSUME NEW left \in Found(r, h.what.from), NEW right \in Found(r, h.what.to), left # right,
             EdgeKey(h.what, h.file, left, right) \notin {e.key : e \in RelationsSeen(r)},
             run' = [run EXCEPT ![r] = [w EXCEPT !.pc = "stating", !.picked = EdgeKey(h.what, h.file, left, right)]]
      PROVE  GraphInv'
  <2>1. PICK key : key = EdgeKey(h.what, h.file, left, right)
    OBVIOUS
  <2>2. /\ left \in Int /\ right \in Int /\ key = <<key[1], key[2], key[3], key[4]>>
        /\ key[1] = h.what.kind /\ key[4] = h.file /\ {key[2], key[3]} = {left, right}
        /\ Backed(NodesOf(w, nodes), key[1], key[2], key[3], h.what)
        /\ \A d \in StatedEdges : Ordered(key, d)
    BY <1>11, <1>13, <2>1
  <2>3. key \in EdgeKeys /\ key[2] # key[3]
    <3>1. key[2] \in Int /\ key[3] \in Int /\ key[2] # key[3]
      BY <1>13, <2>2
    <3> QED
      BY <1>7, <2>2, <3>1 DEF EdgeKeys
  <2>4. PICK x : x = [w EXCEPT !.pc = "stating", !.picked = key]
    OBVIOUS
  <2>5. /\ x.pc = "stating" /\ x.files = w.files /\ x.todo = w.todo /\ x.edges = w.edges /\ x.picked = key
        /\ x.seen = w.seen /\ x.nodes = w.nodes /\ x.queued = w.queued /\ x.sightings = w.sightings
        /\ x.relations = w.relations /\ x \in RunRows
    BY <1>2, <2>3, <2>4 DEF RunRows
  <2>6. run' = [run EXCEPT ![r] = x]
    BY <1>13, <2>1, <2>4
  <2>7. NodesOf(x, nodes) = NodesOf(w, nodes) /\ ToldBy(x, sightings) = ToldBy(w, sightings)
    BY <2>5 DEF NodesOf, ToldBy
  <2>8. PlaceIsTrue(x, NodesOf(w, nodes))
    BY <1>3, <1>5, <1>8, <2>2, <2>3, <2>5 DEF PlaceIsTrue
  <2>9. RowsAreTrue(x, NodesOf(w, nodes), ToldBy(w, sightings))
    BY <1>2, <2>5 DEF RowsAreTrue
  <2>10. EdgesAreTrue(x, NodesOf(w, nodes), relations \cup x.relations)
    BY <1>2, <1>3, <2>5 DEF EdgesAreTrue
  <2>11. overlapped \/ TurnIsTrue(x, NodesOf(w, nodes), relations)
    <3> SUFFICES ASSUME ~overlapped PROVE TurnIsTrue(x, NodesOf(w, nodes), relations)
      OBVIOUS
    <3>1. TurnIsTrue(w, NodesOf(w, nodes), relations)
      BY <1>2
    <3>2. \A e \in relations \cup w.relations : e.key # key
      BY <1>1, <1>13, <2>1 DEF RelationsSeen
    <3> QED
      BY <2>2, <2>3, <2>5, <3>1, <3>2 DEF TurnIsTrue
  <2>12. RunIsTrue(x, nodes, sightings, relations, overlapped)
    BY <2>7, <2>8, <2>9, <2>10, <2>11 DEF RunIsTrue
  <2> QED
    BY <1>1, <1>3, <1>4, <2>5, <2>6, <2>12, RunKeepsNodes DEF Unread
<1>14. \/ (Found(r, h.what.from) = {} \/ Found(r, h.what.to) = {}) /\ run' = [run EXCEPT ![r].edges = Tail(@)]
       \/ \E left \in Found(r, h.what.from), right \in Found(r, h.what.to) :
            run' = IF left = right \/ EdgeKey(h.what, h.file, left, right) \in {e.key : e \in RelationsSeen(r)}
                   THEN [run EXCEPT ![r].edges = Tail(@)]
                   ELSE [run EXCEPT ![r] =
                           [w EXCEPT !.pc = "stating", !.picked = EdgeKey(h.what, h.file, left, right)]]
  BY <1>1, <1>5, Zenon DEF PickEdge
<1>15. CASE (Found(r, h.what.from) = {} \/ Found(r, h.what.to) = {}) /\ run' = [run EXCEPT ![r].edges = Tail(@)]
  <2>1. h.file \notin w.files
    BY <1>9, <1>15
  <2> QED
    BY <1>10, <1>15, <2>1
<1>16. ASSUME NEW left \in Found(r, h.what.from), NEW right \in Found(r, h.what.to),
              run' = IF left = right \/ EdgeKey(h.what, h.file, left, right) \in {e.key : e \in RelationsSeen(r)}
                     THEN [run EXCEPT ![r].edges = Tail(@)]
                     ELSE [run EXCEPT ![r] =
                             [w EXCEPT !.pc = "stating", !.picked = EdgeKey(h.what, h.file, left, right)]]
       PROVE  GraphInv'
  <2>1. CASE left = right
    <3>1. h.what.from = h.what.to
      BY <1>11, <2>1
    <3>2. StatedBy(NodesOf(w, nodes), relations \cup w.relations, h.file, h.what)
      BY <3>1 DEF StatedBy
    <3> QED
      BY <1>10, <1>16, <2>1, <3>2
  <2>2. CASE EdgeKey(h.what, h.file, left, right) \in {e.key : e \in RelationsSeen(r)}
    <3>1. StatedBy(NodesOf(w, nodes), relations \cup w.relations, h.file, h.what)
      BY <1>12, <2>2
    <3> QED
      BY <1>10, <1>16, <2>2, <3>1
  <2>3. CASE left # right /\ EdgeKey(h.what, h.file, left, right) \notin {e.key : e \in RelationsSeen(r)}
    BY <1>13, <1>16, <2>3, Zenon
  <2> QED
    BY <2>1, <2>2, <2>3
<1> QED
  BY <1>14, <1>15, <1>16, ZenonT(40)

\* Among more nodes, sightings and edges, what was so stays so.
LEMMA GrowsTrue ==
    ASSUME NEW ns, NEW ns2, NEW ss, NEW ss2, NEW es, NEW es2, ns \subseteq ns2, ss \subseteq ss2, es \subseteq es2
    PROVE  /\ \A kind, a, b, d : Backed(ns, kind, a, b, d) => Backed(ns2, kind, a, b, d)
           /\ \A s : Attested(ns, s) => Attested(ns2, s)
           /\ \A e : Anchored(ns, e) => Anchored(ns2, e)
           /\ \A f, d : StatedBy(ns, es, f, d) => StatedBy(ns2, es2, f, d)
           /\ \A edges, f, d : Written(edges, ns, es, f, d) => Written(edges, ns2, es2, f, d)
           /\ \A todo, f, m : Visited(todo, ns, ss, f, m) => Visited(todo, ns2, ss2, f, m)
<1>1. \A id, i : Canonical(ns, id, i) => Canonical(ns2, id, i)
  BY DEF Canonical
<1>2. \A s : Attested(ns, s) => Attested(ns2, s)
  BY Zenon DEF Attested
<1>3. \A kind, a, b, d : Backed(ns, kind, a, b, d) => Backed(ns2, kind, a, b, d)
  BY <1>1, Zenon DEF Backed
<1>4. \A todo, f, m : Visited(todo, ns, ss, f, m) => Visited(todo, ns2, ss2, f, m)
  BY Zenon DEF Visited
<1>5. \A e : Anchored(ns, e) => Anchored(ns2, e)
  BY <1>3, Zenon DEF Anchored
<1>6. \A f, d : StatedBy(ns, es, f, d) => StatedBy(ns2, es2, f, d)
  BY <1>3, Zenon DEF StatedBy
<1>7. \A edges, f, d : Written(edges, ns, es, f, d) => Written(edges, ns2, es2, f, d)
  BY <1>6, Zenon DEF Written
<1> QED
  BY <1>2, <1>3, <1>4, <1>5, <1>6, <1>7

\* A node of one's own: under an id nobody has, for an identity without one.
LEMMA MintKeeps ==
    ASSUME GraphInv, NEW r \in Runs, Mint(r)
    PROVE  GraphInv'
<1>1. PICK w : w = run[r]
  OBVIOUS
<1>2. /\ w \in RunRows /\ run \in [Runs -> RunRows] /\ PlaceIsTrue(w, NodesOf(w, nodes))
      /\ RowsAreTrue(w, NodesOf(w, nodes), ToldBy(w, sightings))
      /\ overlapped \/ TurnIsTrue(w, NodesOf(w, nodes), relations)
  BY <1>1, InWork
<1>3. w.pc = "minting" /\ Unread
  BY <1>1, Zenon DEF Mint, At
<1>4. run[r] # Resting
  BY <1>1, <1>3, PcInWork
<1>5. CASE Abort(r)
  BY <1>3, <1>4, <1>5, AbortKeeps DEF Unread
<1>6. ASSUME NEW id \in 1..MaxNodes, id \notin Used,
             run' = [run EXCEPT ![r] =
                [run[r] EXCEPT !.pc = IF run[r].files = {} THEN "extracting" ELSE "resolving",
                        !.nodes = run[r].nodes \cup {[id |-> id, identity |-> AtHand(r).what.identity, label |-> "canonical"]},
                        !.sightings = run[r].sightings \cup ToSet(run[r].queued),
                        !.queued = <<>>]]
      PROVE  GraphInv'
  <2>1. PICK h : h = Head(w.todo)
    OBVIOUS
  <2>2. PICK n : n = [id |-> id, identity |-> h.what.identity, label |-> "canonical"]
    OBVIOUS
  <2> DEFINE pc == IF w.files = {} THEN "extracting" ELSE "resolving"
             ss == w.sightings \cup ToSet(w.queued)
             x == [w EXCEPT !.pc = pc, !.nodes = w.nodes \cup {n}, !.sightings = ss, !.queued = <<>>]
  <2>3. pc \in {"extracting", "resolving"}
    OBVIOUS
  <2>4. run' = [run EXCEPT ![r] = x]
    BY <1>1, <1>6, <2>1, <2>2, Zenon DEF AtHand
  <2> HIDE DEF pc
  <2>5. /\ x.pc = pc /\ x.files = w.files /\ x.todo = w.todo
        /\ x.edges = w.edges /\ x.picked = w.picked /\ x.seen = w.seen /\ x.nodes = w.nodes \cup {n}
        /\ x.queued = <<>> /\ x.sightings = w.sightings \cup ToSet(w.queued) /\ x.relations = w.relations
    BY <1>2 DEF RunRows
  <2>6. n \in NodeRows
    <3>1. w.todo \in Seq(MentionEntries) /\ w.todo # <<>>
      BY <1>2, <1>3 DEF RunRows, PlaceIsTrue
    <3>2. h \in MentionEntries
      BY <2>1, <3>1, HeadAndTail
    <3>3. h.what.identity \in Resolved
      BY <3>2, MentionAtHand DEF Resolved
    <3> QED
      BY <2>2, <3>3 DEF NodeRows
  <2>7. ToSet(w.queued) \subseteq SightingRows
    BY <1>2 DEF RunRows, ToSet
  <2>8. x \in RunRows
    <3>1. w.nodes \cup {n} \in SUBSET NodeRows /\ w.sightings \cup ToSet(w.queued) \in SUBSET SightingRows
      BY <1>2, <2>6, <2>7 DEF RunRows
    <3>2. w \in RunRows /\ <<>> \in Seq(SightingRows)
      BY <1>2
    <3> QED
      BY <2>3, <3>1, <3>2 DEF RunRows
  <2> HIDE DEF x
  <2>9. \A m \in AllNodes : n.id # m.id
    BY <1>6, <2>2 DEF AllNodes, Used, NodesSeen
  <2>17. \A e \in relations : n.id # e.key[2] /\ n.id # e.key[3]
    BY <1>6, <2>2 DEF Used
  <2>10. ToSet(<<>>) = {} /\ IsInjective(<<>>)
    BY DEF ToSet, IsInjective
  <2>11. NodesOf(x, nodes) = NodesOf(w, nodes) \cup {n} /\ ToldBy(x, sightings) = ToldBy(w, sightings)
    BY <2>5, <2>10 DEF NodesOf, ToldBy
  <2>12. PlaceIsTrue(x, NodesOf(x, nodes))
    BY <1>2, <2>5 DEF PlaceIsTrue, pc
  <2>13. RowsAreTrue(x, NodesOf(x, nodes), ToldBy(x, sightings))
    <3>1. \A s \in x.sightings : Attested(NodesOf(x, nodes), s)
      BY <1>2, <2>5, <2>11, GrowsTrue DEF RowsAreTrue
    <3>2. \A e \in x.relations : Anchored(NodesOf(x, nodes), e) /\ e.subject = e.key[2] /\ e.object = e.key[3]
      BY <1>2, <2>5, <2>11, GrowsTrue DEF RowsAreTrue
    <3>3. \A f \in x.files : \A m \in ToSet(MentionsIn[f]) :
            Visited(x.todo, NodesOf(x, nodes), ToldBy(x, sightings), f, m)
      BY <1>2, <2>5, <2>11, GrowsTrue DEF RowsAreTrue
    <3> QED
      BY <1>2, <2>5, <2>10, <2>11, <3>1, <3>2, <3>3 DEF RowsAreTrue
  <2>14. overlapped \/ TurnIsTrue(x, NodesOf(x, nodes), relations)
    <3> SUFFICES ASSUME ~overlapped PROVE TurnIsTrue(x, NodesOf(x, nodes), relations)
      OBVIOUS
    <3>1. TurnIsTrue(w, NodesOf(w, nodes), relations)
      BY <1>2
    <3>2. \A m \in NodesOf(w, nodes) : ~(m.label = "canonical" /\ m.identity = n.identity)
      BY <1>3, <2>1, <2>2, <3>1 DEF TurnIsTrue
    <3>3. \A k, m \in NodesOf(x, nodes) : k.identity = m.identity /\ k.label = m.label => k = m
      BY <2>2, <2>11, <3>1, <3>2 DEF TurnIsTrue, Exact
    <3> QED
      BY <2>3, <2>5, <2>11, <3>1, <3>3 DEF TurnIsTrue, Exact
  <2>15. RunIsTrue(x, nodes, sightings, relations, overlapped)
    <3>1. EdgesAreTrue(x, NodesOf(x, nodes), relations \cup x.relations)
      BY <2>3, <2>5 DEF EdgesAreTrue
    <3> QED
      BY <2>12, <2>13, <2>14, <3>1 DEF RunIsTrue
  <2>16. x.nodes \ run[r].nodes \subseteq {n}
    BY <1>1, <2>5
  <2> QED
    BY <1>1, <1>3, <1>4, <2>4, <2>5, <2>8, <2>9, <2>15, <2>16, <2>17, RunMoves DEF Unread
<1>7. \/ Abort(r)
      \/ \E id \in 1..MaxNodes :
            /\ id \notin Used
            /\ run' = [run EXCEPT ![r] =
                [run[r] EXCEPT !.pc = IF run[r].files = {} THEN "extracting" ELSE "resolving",
                        !.nodes = run[r].nodes \cup {[id |-> id, identity |-> AtHand(r).what.identity, label |-> "canonical"]},
                        !.sightings = run[r].sightings \cup ToSet(run[r].queued),
                        !.queued = <<>>]]
  BY Zenon DEF Mint
<1>8. CASE \E id \in 1..MaxNodes :
            /\ id \notin Used
            /\ run' = [run EXCEPT ![r] =
                [run[r] EXCEPT !.pc = IF run[r].files = {} THEN "extracting" ELSE "resolving",
                        !.nodes = run[r].nodes \cup {[id |-> id, identity |-> AtHand(r).what.identity, label |-> "canonical"]},
                        !.sightings = run[r].sightings \cup ToSet(run[r].queued),
                        !.queued = <<>>]]
  BY <1>6, <1>8, Zenon
<1> QED
  BY <1>5, <1>7, <1>8, Zenon

\* The edge at hand, between nodes that were told of, under a key nobody has.
LEMMA AddEdgeKeeps ==
    ASSUME GraphInv, NEW r \in Runs, AddEdge(r)
    PROVE  GraphInv'
<1>1. PICK w : w = run[r]
  OBVIOUS
<1>2. /\ w \in RunRows /\ run \in [Runs -> RunRows] /\ PlaceIsTrue(w, NodesOf(w, nodes))
      /\ RowsAreTrue(w, NodesOf(w, nodes), ToldBy(w, sightings))
      /\ EdgesAreTrue(w, NodesOf(w, nodes), relations \cup w.relations)
      /\ overlapped \/ TurnIsTrue(w, NodesOf(w, nodes), relations)
  BY <1>1, InWork
<1>3. w.pc = "stating" /\ Unread
  BY <1>1, Zenon DEF AddEdge, At
<1>4. run[r] # Resting
  BY <1>1, <1>3, PcInWork
<1> DEFINE key == w.picked
           e0 == [key |-> key, subject |-> key[2], object |-> key[3], status |-> "machine_extracted"]
           ss == w.sightings \cup ToSet(w.queued)
           x == [w EXCEPT !.pc = "relating", !.edges = Tail(w.edges), !.picked = <<>>, !.sightings = ss,
                          !.queued = <<>>, !.relations = w.relations \cup {e0}]
<1>5. Abort(r) \/ run' = [run EXCEPT ![r] = x]
  BY <1>1, Zenon DEF AddEdge
<1>6. CASE Abort(r)
  BY <1>3, <1>4, <1>6, AbortKeeps DEF Unread
<1>7. CASE run' = [run EXCEPT ![r] = x]
  <2>1. /\ x.pc = "relating" /\ x.files = w.files /\ x.todo = w.todo /\ x.edges = Tail(w.edges)
        /\ x.picked = <<>> /\ x.seen = w.seen /\ x.nodes = w.nodes /\ x.queued = <<>>
        /\ x.sightings = ss /\ x.relations = w.relations \cup {e0}
    BY <1>2 DEF RunRows
  <2>13. PICK h : h = Head(w.edges)
    OBVIOUS
  <2>2. /\ w.todo = <<>> /\ w.edges # <<>> /\ key \in EdgeKeys /\ w.files # {} /\ key[4] = h.file
        /\ Backed(NodesOf(w, nodes), key[1], key[2], key[3], h.what)
    BY <1>2, <1>3, <2>13 DEF PlaceIsTrue
  <2>3. /\ Tail(w.edges) \in Seq(EdgeEntries) /\ ToSet(w.edges) = {h} \cup ToSet(Tail(w.edges))
        /\ h.what \in ToSet(EdgesIn[h.file])
    <3>1. w.edges \in Seq(EdgeEntries)
      BY <1>2 DEF RunRows
    <3>2. h \in EdgeEntries /\ Tail(w.edges) \in Seq(EdgeEntries) /\ ToSet(w.edges) = {h} \cup ToSet(Tail(w.edges))
      BY <2>2, <2>13, <3>1, HeadAndTail
    <3> QED
      BY <3>2 DEF EdgeEntries
  <2>4. e0 \in RelationRows
    BY <2>2 DEF RelationRows, EdgeKeys
  <2>5. e0.key = key /\ e0.subject = key[2] /\ e0.object = key[3]
    OBVIOUS
  <2> HIDE DEF e0
  <2>6. x \in RunRows
    <3>1. ss \in SUBSET SightingRows /\ w.relations \cup {e0} \in SUBSET RelationRows
      BY <1>2, <2>4 DEF RunRows, ToSet
    <3>2. w \in RunRows /\ <<>> \in Seq(SightingRows) /\ <<>> \in EdgeKeys \cup {<<>>}
      BY <1>2
    <3> HIDE DEF ss
    <3> QED
      BY <2>3, <3>1, <3>2 DEF RunRows
  <2> HIDE DEF x, key
  <2>7. ToSet(<<>>) = {} /\ IsInjective(<<>>)
    BY DEF ToSet, IsInjective
  <2>8. NodesOf(x, nodes) = NodesOf(w, nodes) /\ ToldBy(x, sightings) = ToldBy(w, sightings)
    BY <2>1, <2>7 DEF NodesOf, ToldBy
  <2>9. PlaceIsTrue(x, NodesOf(w, nodes))
    BY <2>1, <2>2 DEF PlaceIsTrue
  <2>10. RowsAreTrue(x, NodesOf(w, nodes), ToldBy(w, sightings))
    <3>1. Anchored(NodesOf(w, nodes), e0)
      BY <2>2, <2>3, <2>5 DEF Anchored
    <3> QED
      BY <1>2, <2>1, <2>5, <2>7, <3>1 DEF RowsAreTrue
  <2>14. EdgesAreTrue(x, NodesOf(w, nodes), relations \cup x.relations)
    <3>1. ASSUME NEW f \in w.files, NEW d \in ToSet(EdgesIn[f])
          PROVE  Written(Tail(w.edges), NodesOf(w, nodes), relations \cup x.relations, f, d)
      <4>1. Written(w.edges, NodesOf(w, nodes), relations \cup w.relations, f, d)
        BY <1>2, <1>3 DEF EdgesAreTrue
      <4>2. CASE [file |-> f, what |-> d] = h
        <5>1. h.file = f /\ h.what = d
          BY <4>2
        <5>2. e0 \in relations \cup x.relations /\ e0.key[4] = f /\ Backed(NodesOf(w, nodes), e0.key[1], e0.subject, e0.object, d)
          BY <2>1, <2>2, <2>5, <5>1
        <5> QED
          BY <5>2 DEF StatedBy, Written
      <4>3. CASE StatedBy(NodesOf(w, nodes), relations \cup w.relations, f, d)
        BY <2>1, <4>3 DEF StatedBy, Written
      <4> QED
        BY <2>3, <4>1, <4>2, <4>3 DEF Written
    <3> QED
      BY <2>1, <3>1 DEF EdgesAreTrue
  <2>11. overlapped \/ TurnIsTrue(x, NodesOf(w, nodes), relations)
    <3> SUFFICES ASSUME ~overlapped PROVE TurnIsTrue(x, NodesOf(w, nodes), relations)
      OBVIOUS
    <3>1. /\ Exact(NodesOf(w, nodes), relations \cup w.relations)
          /\ \A e \in relations, d \in w.relations : e.key # d.key
          /\ \A e \in relations \cup w.relations : e.key # key
          /\ key[2] # key[3] /\ \A d \in StatedEdges : Ordered(key, d)
      BY <1>2, <1>3 DEF TurnIsTrue, key
    <3>2. Exact(NodesOf(w, nodes), relations \cup x.relations)
      BY <2>1, <2>5, <3>1 DEF Exact
    <3>3. \A e \in relations, d \in x.relations : e.key # d.key
      BY <2>1, <2>5, <3>1
    <3> QED
      BY <2>1, <3>2, <3>3 DEF TurnIsTrue
  <2>12. RunIsTrue(x, nodes, sightings, relations, overlapped)
    BY <2>8, <2>9, <2>10, <2>11, <2>14 DEF RunIsTrue
  <2> QED
    BY <1>1, <1>3, <1>4, <1>7, <2>1, <2>6, <2>12, RunKeepsNodes DEF Unread
<1> QED
  BY <1>5, <1>6, <1>7

\* What a run commits is what it saw; whoever else is at work sees more.
LEMMA CommitRunKeeps ==
    ASSUME GraphInv, NEW r \in Runs, CommitRun(r)
    PROVE  GraphInv'
<1>1. PICK w : w = run[r]
  OBVIOUS
<1>2. /\ w \in RunRows /\ run \in [Runs -> RunRows] /\ PlaceIsTrue(w, NodesOf(w, nodes))
      /\ RowsAreTrue(w, NodesOf(w, nodes), ToldBy(w, sightings))
      /\ EdgesAreTrue(w, NodesOf(w, nodes), relations \cup w.relations)
      /\ overlapped \/ TurnIsTrue(w, NodesOf(w, nodes), relations)
  BY <1>1, InWork
<1>3. /\ w.pc \in {"relating", "extracting"} /\ w.todo = <<>> /\ w.edges = <<>> /\ Abort(r) /\ known' = known /\ overlapped' = overlapped
  BY <1>1, Zenon DEF CommitRun, At
<1>4. run[r] # Resting
  BY <1>1, <1>3, PcInWork
<1>5. CASE UNCHANGED <<nodes, sightings, relations, walked>>
  BY <1>3, <1>4, <1>5, AbortKeeps
<1>6. CASE /\ nodes' = nodes \cup w.nodes
           /\ sightings' = sightings \cup w.sightings \cup ToSet(w.queued)
           /\ relations' = relations \cup w.relations
           /\ walked' = walked \cup w.files
  <2>1. run' = [run EXCEPT ![r] = Resting] /\ run'[r] = Resting /\ \A q \in Runs \ {r} : run'[q] = run[q]
    BY <1>2, <1>3 DEF Abort
  <2>2. nodes' = NodesOf(w, nodes) /\ sightings' = ToldBy(w, sightings)
    BY <1>6 DEF NodesOf, ToldBy
  <2>3. GraphTypeOK'
    <3>1. w.nodes \subseteq NodeRows /\ w.sightings \subseteq SightingRows /\ ToSet(w.queued) \subseteq SightingRows
          /\ w.relations \subseteq RelationRows /\ w.files \subseteq Files
      BY <1>2 DEF RunRows, ToSet
    <3>2. run' \in [Runs -> RunRows]
      BY <1>2, <2>1, RestingIsTrue
    <3> QED
      BY <1>3, <1>6, <3>1, <3>2 DEF GraphInv, GraphTypeOK
  <2>9. AllNodes' \subseteq AllNodes
    <3>1. \A q \in Runs : run'[q].nodes \subseteq run[q].nodes
      BY <2>1 DEF Resting
    <3> QED
      BY <1>1, <1>6, <3>1 DEF AllNodes
  <2>4. IdsApart'
    BY <2>9 DEF GraphInv, IdsApart
  <2>10. FilesAreKnown'
    <3>1. \A q \in Runs : run'[q].files \subseteq run[q].files
      BY <2>1 DEF Resting
    <3> QED
      BY <1>3, <3>1 DEF GraphInv, FilesAreKnown
  <2>5. OneAtWork' /\ (~overlapped => \A q \in Runs \ {r} : run[q] = Resting)
    <3>1. Working' \subseteq Working
      BY <2>1 DEF Working
    <3> QED
      BY <1>3, <1>4, <3>1 DEF GraphInv, OneAtWork, Working
  <2>6. StoredIsTrue'
    <3>0. nodes \subseteq nodes' /\ sightings \subseteq sightings' /\ relations \subseteq relations'
      BY <1>6
    <3>1. \A s \in sightings' : Attested(nodes', s)
      <4>1. \A s \in sightings : Attested(nodes', s)
        BY <3>0, GrowsTrue DEF GraphInv, StoredIsTrue
      <4>2. \A s \in w.sightings \cup ToSet(w.queued) : Attested(nodes', s)
        BY <1>2, <2>2 DEF RowsAreTrue
      <4> QED
        BY <1>6, <4>1, <4>2
    <3>2. \A e \in relations' : Anchored(nodes', e)
      <4>1. \A e \in relations : Anchored(nodes', e)
        BY <3>0, GrowsTrue DEF GraphInv, StoredIsTrue
      <4>2. \A e \in w.relations : Anchored(nodes', e)
        BY <1>2, <2>2 DEF RowsAreTrue
      <4> QED
        BY <1>6, <4>1, <4>2
    <3>3. ~overlapped => Exact(nodes', relations')
      BY <1>2, <1>6, <2>2 DEF TurnIsTrue
    <3>4. ASSUME NEW e \in relations' PROVE KeyIsLive(AllNodes', e)
      <4>1. CASE e \in relations
        BY <2>9, <4>1 DEF GraphInv, StoredIsTrue, KeyIsLive
      <4>2. CASE e \in w.relations
        BY <1>2, <4>2 DEF RowsAreTrue, KeyIsLive
      <4> QED
        BY <1>6, <4>1, <4>2
    <3>5. ASSUME NEW f \in walked'
          PROVE  /\ \A m \in ToSet(MentionsIn[f]) : Visited(<<>>, nodes', sightings', f, m)
                 /\ \A d \in ToSet(EdgesIn[f]) : StatedBy(nodes', relations', f, d)
      <4>1. CASE f \in walked
        <5>1. /\ \A m \in ToSet(MentionsIn[f]) : Visited(<<>>, nodes, sightings, f, m)
              /\ \A d \in ToSet(EdgesIn[f]) : StatedBy(nodes, relations, f, d)
          BY <4>1 DEF GraphInv, StoredIsTrue
        <5> QED
          BY <3>0, <5>1, GrowsTrue
      <4>2. CASE f \in w.files
        <5>1. w.pc = "relating" /\ ToSet(<<>>) = {}
          BY <1>2, <1>3, <4>2 DEF PlaceIsTrue, ToSet
        <5>2. \A m \in ToSet(MentionsIn[f]) : Visited(<<>>, nodes', sightings', f, m)
          BY <1>2, <1>3, <2>2, <4>2 DEF RowsAreTrue
        <5>3. ASSUME NEW d \in ToSet(EdgesIn[f]) PROVE StatedBy(nodes', relations', f, d)
          <6>1. Written(w.edges, NodesOf(w, nodes), relations \cup w.relations, f, d)
            BY <1>2, <4>2, <5>1 DEF EdgesAreTrue
          <6>2. Written(<<>>, nodes', relations', f, d)
            BY <1>3, <1>6, <2>2, <6>1
          <6> QED
            BY <5>1, <6>2 DEF Written
        <5> QED
          BY <5>2, <5>3
      <4> QED
        BY <1>6, <4>1, <4>2
    <3> QED
      BY <1>3, <3>1, <3>2, <3>3, <3>4, <3>5 DEF StoredIsTrue
  <2>7. RunIsTrue(Resting, nodes', sightings', relations', overlapped)
    BY <1>3, <2>6, RestingIsTrue DEF StoredIsTrue, GraphInv, GraphTypeOK
  <2>8. ASSUME NEW q \in Runs PROVE RunIsTrue(run'[q], nodes', sightings', relations', overlapped)
    <3>1. CASE q = r \/ ~overlapped
      <4>1. run'[q] = Resting
        BY <2>1, <2>5, <3>1
      <4> QED
        BY <2>7, <4>1
    <3>2. CASE q # r /\ overlapped
      <4>1. PICK y : y = run[q]
        OBVIOUS
      <4>2. run'[q] = y
        BY <2>1, <3>2, <4>1
      <4>3. PlaceIsTrue(y, NodesOf(y, nodes)) /\ RowsAreTrue(y, NodesOf(y, nodes), ToldBy(y, sightings))
           /\ EdgesAreTrue(y, NodesOf(y, nodes), relations \cup y.relations)
        BY <4>1, InWork
      <4>4. /\ NodesOf(y, nodes) \subseteq NodesOf(y, nodes') /\ ToldBy(y, sightings) \subseteq ToldBy(y, sightings')
            /\ relations \cup y.relations \subseteq relations' \cup y.relations
        BY <1>6 DEF NodesOf, ToldBy
      <4>5. /\ \A kind, a, b, d : Backed(NodesOf(y, nodes), kind, a, b, d) => Backed(NodesOf(y, nodes'), kind, a, b, d)
            /\ \A edges, f, d : Written(edges, NodesOf(y, nodes), relations \cup y.relations, f, d)
                              => Written(edges, NodesOf(y, nodes'), relations' \cup y.relations, f, d)
            /\ \A s : Attested(NodesOf(y, nodes), s) => Attested(NodesOf(y, nodes'), s)
            /\ \A e : Anchored(NodesOf(y, nodes), e) => Anchored(NodesOf(y, nodes'), e)
            /\ \A todo, f, m : Visited(todo, NodesOf(y, nodes), ToldBy(y, sightings), f, m)
                              => Visited(todo, NodesOf(y, nodes'), ToldBy(y, sightings'), f, m)
        <5>1. PICK ns, ns2, ss, ss2, es, es2 :
                /\ ns = NodesOf(y, nodes) /\ ns2 = NodesOf(y, nodes')
                /\ ss = ToldBy(y, sightings) /\ ss2 = ToldBy(y, sightings')
                /\ es = relations \cup y.relations /\ es2 = relations' \cup y.relations
          OBVIOUS
        <5>2. ns \subseteq ns2 /\ ss \subseteq ss2 /\ es \subseteq es2
          BY <4>4, <5>1
        <5>3. /\ \A kind, a, b, d : Backed(ns, kind, a, b, d) => Backed(ns2, kind, a, b, d)
              /\ \A s : Attested(ns, s) => Attested(ns2, s)
              /\ \A e : Anchored(ns, e) => Anchored(ns2, e)
              /\ \A edges, f, d : Written(edges, ns, es, f, d) => Written(edges, ns2, es2, f, d)
              /\ \A todo, f, m : Visited(todo, ns, ss, f, m) => Visited(todo, ns2, ss2, f, m)
          BY <5>2, GrowsTrue
        <5> QED
          BY <5>1, <5>3
      <4>6. PlaceIsTrue(y, NodesOf(y, nodes'))
        BY <4>3, <4>5 DEF PlaceIsTrue
      <4>7. RowsAreTrue(y, NodesOf(y, nodes'), ToldBy(y, sightings'))
        BY <4>3, <4>4, <4>5 DEF RowsAreTrue
      <4>8. EdgesAreTrue(y, NodesOf(y, nodes'), relations' \cup y.relations)
        <5>1. ASSUME y.pc \in {"relating", "stating"}, NEW f \in y.files, NEW d \in ToSet(EdgesIn[f])
              PROVE  Written(y.edges, NodesOf(y, nodes'), relations' \cup y.relations, f, d)
          <6>1. Written(y.edges, NodesOf(y, nodes), relations \cup y.relations, f, d)
            BY <4>3, <5>1 DEF EdgesAreTrue
          <6> QED
            BY <4>5, <6>1
        <5> QED
          BY <5>1 DEF EdgesAreTrue
      <4> QED
        BY <3>2, <4>2, <4>6, <4>7, <4>8 DEF RunIsTrue
    <3> QED
      BY <3>1, <3>2
  <2> QED
    BY <1>3, <2>3, <2>4, <2>5, <2>6, <2>8, <2>10 DEF GraphInv
<1> QED
  BY <1>1, <1>5, <1>6, Zenon DEF CommitRun

\* A verdict touches an edge's status alone.
LEMMA ReviewEdgeKeeps ==
    ASSUME GraphInv, NEW e \in relations, NEW status \in Decisions, ReviewEdge(e, status)
    PROVE  GraphInv'
<1> DEFINE d == [e EXCEPT !.status = status]
<1>1. relations' = (relations \ {e}) \cup {d} /\ UNCHANGED <<known, nodes, sightings, run, walked, overlapped>>
  BY DEF ReviewEdge
<1>2. relations \subseteq RelationRows /\ e \in RelationRows
  BY DEF GraphInv, GraphTypeOK
<1>3. d \in RelationRows /\ d.key = e.key /\ d.subject = e.subject /\ d.object = e.object
  BY <1>2 DEF RelationRows
<1> HIDE DEF d
<1>4. GraphTypeOK'
  BY <1>1, <1>2, <1>3 DEF GraphInv, GraphTypeOK
<1>5. IdsApart' /\ OneAtWork' /\ FilesAreKnown' /\ AllNodes' = AllNodes
  BY <1>1 DEF GraphInv, IdsApart, AllNodes, OneAtWork, Working, FilesAreKnown
<1>9. ASSUME NEW ns, NEW es, NEW f, NEW k, StatedBy(ns, relations \cup es, f, k)
      PROVE  StatedBy(ns, relations' \cup es, f, k)
  <2>1. \A l \in relations \cup es : \E j \in relations' \cup es : j.key = l.key /\ j.subject = l.subject /\ j.object = l.object
    BY <1>1, <1>3
  <2> QED
    BY <1>9, <2>1 DEF StatedBy
<1>10. ASSUME NEW edges, NEW ns, NEW es, NEW f, NEW k, Written(edges, ns, relations \cup es, f, k)
       PROVE  Written(edges, ns, relations' \cup es, f, k)
  BY <1>9, <1>10 DEF Written
<1>6. ASSUME NEW ns, NEW es, Exact(ns, relations \cup es), \A k \in relations, l \in es : k.key # l.key
      PROVE  Exact(ns, relations' \cup es) /\ \A k \in relations', l \in es : k.key # l.key
  <2>1. \A k \in relations' \cup es :
          \E l \in relations \cup es : l.key = k.key /\ l.subject = k.subject /\ l.object = k.object
    BY <1>1, <1>3
  <2>2. ASSUME NEW k \in relations' \cup es, NEW l \in relations' \cup es, k.key = l.key PROVE k = l
    <3>1. CASE k = d
      BY <1>1, <1>3, <1>6, <2>2, <3>1 DEF Exact
    <3>2. CASE l = d
      BY <1>1, <1>3, <1>6, <2>2, <3>2 DEF Exact
    <3>3. CASE k # d /\ l # d
      BY <1>1, <1>6, <2>2, <3>3 DEF Exact
    <3> QED
      BY <3>1, <3>2, <3>3
  <2>3. \A k \in relations', l \in es : k.key # l.key
    BY <1>1, <1>3, <1>6
  <2>4. \A k \in relations' \cup es :
          /\ k.subject = k.key[2] /\ k.object = k.key[3] /\ k.subject # k.object
          /\ \A j \in StatedEdges : Ordered(k.key, j)
    BY <1>6, <2>1 DEF Exact
  <2> QED
    BY <1>6, <2>2, <2>3, <2>4 DEF Exact
<1>7. StoredIsTrue'
  <2>1. \A k \in relations' : Anchored(nodes, k) /\ KeyIsLive(AllNodes, k)
    <3>1. Anchored(nodes, d) /\ KeyIsLive(AllNodes, d)
      <4>1. Anchored(nodes, e) /\ KeyIsLive(AllNodes, e)
        BY DEF GraphInv, StoredIsTrue
      <4> QED
        BY <1>3, <4>1 DEF Anchored, KeyIsLive
    <3> QED
      BY <1>1, <3>1 DEF GraphInv, StoredIsTrue
  <2>0. relations \cup {} = relations /\ relations' \cup {} = relations'
    OBVIOUS
  <2>2. ~overlapped => Exact(nodes, relations')
    <3>1. ~overlapped => Exact(nodes, relations)
      BY DEF GraphInv, StoredIsTrue
    <3>2. ~overlapped => Exact(nodes, relations' \cup {})
      BY <1>6, <2>0, <3>1
    <3> QED
      BY <2>0, <3>2
  <2>3. ASSUME NEW f \in walked, NEW k \in ToSet(EdgesIn[f]) PROVE StatedBy(nodes, relations', f, k)
    <3>1. StatedBy(nodes, relations \cup {}, f, k)
      BY <2>0 DEF GraphInv, StoredIsTrue
    <3>2. StatedBy(nodes, relations' \cup {}, f, k)
      BY <1>9, <3>1
    <3> QED
      BY <2>0, <3>2
  <2> QED
    BY <1>1, <1>5, <2>1, <2>2, <2>3 DEF GraphInv, StoredIsTrue
<1>8. ASSUME NEW q \in Runs PROVE RunIsTrue(run[q], nodes, sightings, relations', overlapped)
  <2>1. PICK y : y = run[q]
    OBVIOUS
  <2>2. /\ PlaceIsTrue(y, NodesOf(y, nodes)) /\ RowsAreTrue(y, NodesOf(y, nodes), ToldBy(y, sightings))
        /\ EdgesAreTrue(y, NodesOf(y, nodes), relations \cup y.relations)
        /\ overlapped \/ TurnIsTrue(y, NodesOf(y, nodes), relations)
    BY <2>1, InWork
  <2>3. ASSUME TurnIsTrue(y, NodesOf(y, nodes), relations)
        PROVE  TurnIsTrue(y, NodesOf(y, nodes), relations')
    <3>1. /\ Exact(NodesOf(y, nodes), relations' \cup y.relations)
          /\ \A k \in relations', l \in y.relations : k.key # l.key
      BY <1>6, <2>3 DEF TurnIsTrue
    <3>2. y.pc = "stating" => \A k \in relations' \cup y.relations : k.key # y.picked
      BY <1>1, <1>3, <2>3 DEF TurnIsTrue
    <3> QED
      BY <2>3, <3>1, <3>2 DEF TurnIsTrue
  <2>4. EdgesAreTrue(y, NodesOf(y, nodes), relations' \cup y.relations)
    BY <1>10, <2>2 DEF EdgesAreTrue
  <2> QED
    BY <2>1, <2>2, <2>3, <2>4 DEF RunIsTrue
<1> QED
  BY <1>1, <1>4, <1>5, <1>7, <1>8 DEF GraphInv

-----------------------------------------------------------------------------
IdentityIn(ns, id) == (CHOOSE n \in ns : n.id = id).identity

\* The survivors: one for an identity, no two under one id, and the one the
\* resolver finds where there is one.
LEMMA Survivors ==
    ASSUME GraphInv, NEW kept \in Keepers, Merge(kept)
    PROVE  /\ \A n \in nodes : n.identity \in NodeIdentities /\ IdentityOf(n.id) = n.identity
           /\ \A i \in NodeIdentities :
                /\ \E m \in nodes : m.identity = i /\ m.id = kept[i]
                /\ [id |-> kept[i], identity |-> i, label |-> "canonical"] \in nodes'
                /\ IdentityIn(nodes', kept[i]) = i
           /\ \A i, j \in NodeIdentities : kept[i] = kept[j] => i = j
           /\ \A k, m \in nodes' : k.id = m.id => k = m
           /\ \A n \in nodes : n.label = "canonical" =>
                \E m \in nodes : m.identity = n.identity /\ m.id = kept[n.identity] /\ m.label = "canonical"
<1>1. /\ \A i \in NodeIdentities : kept[i] \in {n.id : n \in Pool(i)}
      /\ nodes' = {[id |-> kept[i], identity |-> i, label |-> "canonical"] : i \in NodeIdentities}
  BY Zenon DEF Merge
<1>2. IdsApart /\ \A k, m \in nodes : k.id = m.id => k = m
  BY DEF GraphInv, IdsApart, AllNodes
<1>3. \A n \in nodes : n.identity \in NodeIdentities /\ IdentityOf(n.id) = n.identity
  BY <1>2, ReadsIdentity DEF NodeIdentities
<1>4. ASSUME NEW i \in NodeIdentities PROVE \E m \in nodes : m.identity = i /\ m.id = kept[i]
  <2>1. PICK m \in Pool(i) : m.id = kept[i]
    BY <1>1
  <2>2. m \in nodes /\ m.identity = i
    BY <2>1 DEF Pool, Of
  <2> QED
    BY <2>1, <2>2
<1>5. \A i, j \in NodeIdentities : kept[i] = kept[j] => i = j
  BY <1>2, <1>4
<1>6. \A i \in NodeIdentities : [id |-> kept[i], identity |-> i, label |-> "canonical"] \in nodes'
  BY <1>1
<1>7. ASSUME NEW k \in nodes', NEW m \in nodes', k.id = m.id PROVE k = m
  <2>1. PICK i \in NodeIdentities : k = [id |-> kept[i], identity |-> i, label |-> "canonical"]
    BY <1>1
  <2>2. PICK j \in NodeIdentities : m = [id |-> kept[j], identity |-> j, label |-> "canonical"]
    BY <1>1
  <2>3. i = j
    BY <1>5, <1>7, <2>1, <2>2
  <2> QED
    BY <2>1, <2>2, <2>3
<1>8. ASSUME NEW i \in NodeIdentities PROVE IdentityIn(nodes', kept[i]) = i
  <2>1. PICK n : n = [id |-> kept[i], identity |-> i, label |-> "canonical"]
    OBVIOUS
  <2>2. n \in nodes' /\ n.id = kept[i] /\ n.identity = i
    BY <1>6, <2>1
  <2>3. (CHOOSE m \in nodes' : m.id = n.id) = n
    BY <1>7, <2>2, ChosenNode
  <2> QED
    BY <2>2, <2>3 DEF IdentityIn
<1>9. ASSUME NEW n \in nodes, n.label = "canonical"
      PROVE  \E m \in nodes : m.identity = n.identity /\ m.id = kept[n.identity] /\ m.label = "canonical"
  <2>1. n \in {k \in Of(n.identity) : k.label = "canonical"}
    BY <1>9 DEF Of
  <2>2. Pool(n.identity) = {k \in Of(n.identity) : k.label = "canonical"}
    BY <2>1 DEF Pool
  <2>3. PICK m \in Pool(n.identity) : m.id = kept[n.identity]
    BY <1>1, <1>3
  <2> QED
    BY <2>2, <2>3 DEF Of
<1> QED
  BY <1>3, <1>4, <1>5, <1>6, <1>7, <1>8, <1>9

\* A sighting and an edge pointed at the survivors.
MovedSighting(kept, s) == <<kept[IdentityOf(s[1])], s[2], s[3]>>
MovedEdge(kept, e) == [e EXCEPT !.subject = kept[IdentityOf(e.subject)], !.object = kept[IdentityOf(e.object)]]

LEMMA MergeTables ==
    ASSUME NEW kept \in Keepers, Merge(kept)
    PROVE  /\ Working = {} /\ UNCHANGED <<known, run, walked, overlapped>>
           /\ nodes' = {[id |-> kept[i], identity |-> i, label |-> "canonical"] : i \in NodeIdentities}
           /\ sightings' = {MovedSighting(kept, s) : s \in sightings}
           /\ relations' = {e \in {MovedEdge(kept, d) : d \in relations} : e.subject # e.object}
BY Zenon DEF Merge, MovedSighting, MovedEdge

LEMMA MovedEdgeIs ==
    ASSUME GraphInv, NEW kept \in Keepers, NEW e \in relations
    PROVE  /\ MovedEdge(kept, e) = [key |-> e.key, subject |-> kept[IdentityOf(e.subject)],
                                    object |-> kept[IdentityOf(e.object)], status |-> e.status]
           /\ e = [key |-> e.key, subject |-> e.subject, object |-> e.object, status |-> e.status]
<1>1. e \in RelationRows
  BY DEF GraphInv, GraphTypeOK
<1>2. e = [key |-> e.key, subject |-> e.subject, object |-> e.object, status |-> e.status]
  BY <1>1 DEF RelationRows
<1>3. PICK a, b : a = kept[IdentityOf(e.subject)] /\ b = kept[IdentityOf(e.object)]
  OBVIOUS
<1>4. [e EXCEPT !.subject = a, !.object = b] = [key |-> e.key, subject |-> a, object |-> b, status |-> e.status]
  <2>1. PICK f : f = [e EXCEPT !.subject = a, !.object = b]
    OBVIOUS
  <2>2. f \in [key : EdgeKeys, subject : {a}, object : {b}, status : {"machine_extracted"} \cup Decisions]
    BY <1>1, <2>1 DEF RelationRows
  <2>3. f.key = e.key /\ f.subject = a /\ f.object = b /\ f.status = e.status
    BY <1>1, <2>1 DEF RelationRows
  <2>4. f = [key |-> f.key, subject |-> f.subject, object |-> f.object, status |-> f.status]
    BY <2>2
  <2> QED
    BY <2>1, <2>3, <2>4
<1>5. MovedEdge(kept, e) = [e EXCEPT !.subject = a, !.object = b]
  BY <1>3, Zenon DEF MovedEdge
<1> QED
  BY <1>2, <1>3, <1>4, <1>5

\* What a stored sighting, and a stored edge, is about has a node.
LEMMA StoredHaveNodes ==
    ASSUME GraphInv
    PROVE  /\ \A s \in sightings : \E n \in nodes :
                n.id = s[1] /\ n.label = "canonical"
                /\ [field |-> s[3], identity |-> n.identity] \in ToSet(MentionsIn[s[2]])
           /\ \A e \in relations :
                /\ \E n \in nodes : n.id = e.subject /\ n.label = "canonical"
                /\ \E n \in nodes : n.id = e.object /\ n.label = "canonical"
BY DEF GraphInv, StoredIsTrue, Attested, Anchored, Backed, Canonical

LEMMA MergeKeeps ==
    ASSUME GraphInv, NEW kept \in Keepers, Merge(kept)
    PROVE  GraphInv'
<1>1. /\ Working = {} /\ UNCHANGED <<known, run, walked, overlapped>>
      /\ nodes' = {[id |-> kept[i], identity |-> i, label |-> "canonical"] : i \in NodeIdentities}
      /\ sightings' = {MovedSighting(kept, s) : s \in sightings}
      /\ relations' = {e \in {MovedEdge(kept, d) : d \in relations} : e.subject # e.object}
  BY MergeTables
<1>2. /\ \A n \in nodes : n.identity \in NodeIdentities /\ IdentityOf(n.id) = n.identity
      /\ \A i \in NodeIdentities :
          /\ \E m \in nodes : m.identity = i /\ m.id = kept[i]
          /\ [id |-> kept[i], identity |-> i, label |-> "canonical"] \in nodes'
      /\ \A i, j \in NodeIdentities : kept[i] = kept[j] => i = j
      /\ \A k, m \in nodes' : k.id = m.id => k = m
      /\ \A n \in nodes : n.label = "canonical" =>
          \E m \in nodes : m.identity = n.identity /\ m.id = kept[n.identity] /\ m.label = "canonical"
  BY Survivors
<1>3. \A r \in Runs : run[r] = Resting /\ run'[r] = Resting
  BY <1>1 DEF Working
<1>4. /\ nodes \subseteq NodeRows /\ sightings \subseteq SightingRows /\ relations \subseteq RelationRows
      /\ run \in [Runs -> RunRows] /\ known \subseteq Files /\ IsFiniteSet(known) /\ overlapped \in BOOLEAN
      /\ walked \subseteq Files
  BY DEF GraphInv, GraphTypeOK
<1>5. ASSUME NEW i \in NodeIdentities PROVE kept[i] \in Int /\ i \in Resolved
  <2>1. PICK m \in nodes : m.identity = i /\ m.id = kept[i]
    BY <1>2
  <2>2. m.id \in Int /\ m.identity \in Resolved
    BY <1>4 DEF NodeRows
  <2> QED
    BY <2>1, <2>2
<1>6. ASSUME NEW s \in sightings
      PROVE  /\ MovedSighting(kept, s) \in SightingRows /\ Attested(nodes', MovedSighting(kept, s))
             /\ MovedSighting(kept, s)[2] = s[2] /\ MovedSighting(kept, s)[3] = s[3]
  <2>1. PICK n \in nodes : n.id = s[1] /\ [field |-> s[3], identity |-> n.identity] \in ToSet(MentionsIn[s[2]])
    BY StoredHaveNodes
  <2>2. IdentityOf(s[1]) = n.identity /\ n.identity \in NodeIdentities
    BY <1>2, <2>1
  <2>3. PICK t : t = MovedSighting(kept, s)
    OBVIOUS
  <2>4. t = <<kept[n.identity], s[2], s[3]>>
    BY <2>2, <2>3 DEF MovedSighting
  <2>5. t[1] = kept[n.identity] /\ t[2] = s[2] /\ t[3] = s[3]
    BY <2>4
  <2>6. t \in SightingRows
    BY <1>4, <1>5, <2>2, <2>4 DEF SightingRows
  <2>7. PICK m \in nodes' : m = [id |-> kept[n.identity], identity |-> n.identity, label |-> "canonical"]
    BY <1>2, <2>2
  <2>8. m.id = t[1] /\ m.label = "canonical" /\ m.identity = n.identity
    BY <2>5, <2>7
  <2>9. Attested(nodes', t)
    BY <2>1, <2>5, <2>8 DEF Attested
  <2> QED
    BY <2>3, <2>5, <2>6, <2>9
<1>17. ASSUME NEW id, NEW i, Canonical(nodes, id, i)
       PROVE  i \in NodeIdentities /\ IdentityOf(id) = i /\ Canonical(nodes', kept[IdentityOf(id)], i)
  <2>1. PICK n \in nodes : n.id = id /\ n.identity = i
    BY <1>17 DEF Canonical
  <2>2. i \in NodeIdentities /\ IdentityOf(id) = i
    BY <1>2, <2>1
  <2>3. PICK m \in nodes' : m = [id |-> kept[i], identity |-> i, label |-> "canonical"]
    BY <1>2, <2>2
  <2>4. m.id = kept[i] /\ m.identity = i /\ m.label = "canonical"
    BY <2>3
  <2> QED
    BY <2>2, <2>4 DEF Canonical
<1>18. ASSUME NEW e \in relations, NEW d, Backed(nodes, e.key[1], e.subject, e.object, d)
       PROVE  /\ Backed(nodes', MovedEdge(kept, e).key[1], MovedEdge(kept, e).subject, MovedEdge(kept, e).object, d)
              /\ d.from # d.to => MovedEdge(kept, e).subject # MovedEdge(kept, e).object
              /\ IdentityOf(e.subject) \in NodeIdentities /\ IdentityOf(e.object) \in NodeIdentities
  <2>1. PICK g : g = MovedEdge(kept, e)
    OBVIOUS
  <2>2. g.key = e.key /\ g.subject = kept[IdentityOf(e.subject)] /\ g.object = kept[IdentityOf(e.object)]
    BY <2>1, MovedEdgeIs
  <2>3. CASE Canonical(nodes, e.subject, d.from) /\ Canonical(nodes, e.object, d.to)
    <3>1. /\ d.from \in NodeIdentities /\ IdentityOf(e.subject) = d.from /\ Canonical(nodes', g.subject, d.from)
          /\ d.to \in NodeIdentities /\ IdentityOf(e.object) = d.to /\ Canonical(nodes', g.object, d.to)
      BY <1>17, <2>2, <2>3
    <3>2. g.subject = g.object => d.from = d.to
      BY <1>2, <2>2, <3>1
    <3> QED
      BY <1>18, <2>1, <2>2, <3>1, <3>2 DEF Backed
  <2>4. CASE ~d.directed /\ Canonical(nodes, e.subject, d.to) /\ Canonical(nodes, e.object, d.from)
    <3>1. /\ d.to \in NodeIdentities /\ IdentityOf(e.subject) = d.to /\ Canonical(nodes', g.subject, d.to)
          /\ d.from \in NodeIdentities /\ IdentityOf(e.object) = d.from /\ Canonical(nodes', g.object, d.from)
      BY <1>17, <2>2, <2>4
    <3>2. g.subject = g.object => d.from = d.to
      BY <1>2, <2>2, <3>1
    <3> QED
      BY <1>18, <2>1, <2>2, <2>4, <3>1, <3>2 DEF Backed
  <2> QED
    BY <1>18, <2>3, <2>4 DEF Backed
<1>7. ASSUME NEW e \in relations
      PROVE  /\ MovedEdge(kept, e) \in RelationRows /\ Anchored(nodes', MovedEdge(kept, e))
             /\ KeyIsLive(nodes', MovedEdge(kept, e))
  <2>1. PICK d \in ToSet(EdgesIn[e.key[4]]) : Backed(nodes, e.key[1], e.subject, e.object, d)
    BY DEF GraphInv, StoredIsTrue, Anchored
  <2>2. PICK g : g = MovedEdge(kept, e)
    OBVIOUS
  <2>3. /\ Backed(nodes', g.key[1], g.subject, g.object, d)
        /\ IdentityOf(e.subject) \in NodeIdentities /\ IdentityOf(e.object) \in NodeIdentities
    BY <1>18, <2>1, <2>2
  <2>4. g = [key |-> e.key, subject |-> kept[IdentityOf(e.subject)], object |-> kept[IdentityOf(e.object)], status |-> e.status]
    BY <2>2, MovedEdgeIs
  <2>5. g \in RelationRows
    BY <1>4, <1>5, <2>3, <2>4 DEF RelationRows
  <2>6. Anchored(nodes', g)
    BY <2>1, <2>3, <2>4 DEF Anchored
  <2>7. KeyIsLive(nodes', g)
    <3>1. ASSUME NEW n \in nodes'
          PROVE  /\ n.id = e.key[2] => kept[IdentityOf(e.subject)] = n.id
                 /\ n.id = e.key[3] => kept[IdentityOf(e.object)] = n.id
      <4>1. PICK i \in NodeIdentities : n = [id |-> kept[i], identity |-> i, label |-> "canonical"]
        BY <1>1
      <4>2. PICK m \in nodes : m.identity = i /\ m.id = kept[i]
        BY <1>2
      <4>3. n.id = m.id /\ IdentityOf(m.id) = i
        BY <1>2, <4>1, <4>2
      <4>4. KeyIsLive(AllNodes, e) /\ m \in AllNodes
        BY DEF GraphInv, StoredIsTrue, AllNodes
      <4> QED
        BY <4>1, <4>2, <4>3, <4>4 DEF KeyIsLive
    <3> QED
      BY <2>4, <3>1 DEF KeyIsLive
  <2> QED
    BY <2>2, <2>5, <2>6, <2>7
<1>19. ASSUME NEW f \in walked, NEW m \in ToSet(MentionsIn[f]) PROVE Visited(<<>>, nodes', sightings', f, m)
  <2>1. Visited(<<>>, nodes, sightings, f, m) /\ ToSet(<<>>) = {}
    BY DEF GraphInv, StoredIsTrue, ToSet
  <2>2. PICK n \in nodes : n.label = "canonical" /\ n.identity = m.identity /\ <<n.id, f, m.field>> \in sightings
    BY <2>1 DEF Visited
  <2>3. IdentityOf(n.id) = m.identity /\ Canonical(nodes', kept[IdentityOf(n.id)], m.identity)
    BY <1>17, <2>2 DEF Canonical
  <2>4. PICK k \in nodes' : k.id = kept[IdentityOf(n.id)] /\ k.label = "canonical" /\ k.identity = m.identity
    BY <2>3 DEF Canonical
  <2>5. PICK s \in sightings : s = <<n.id, f, m.field>>
    BY <2>2
  <2>6. MovedSighting(kept, s) = <<k.id, f, m.field>>
    BY <2>4, <2>5 DEF MovedSighting
  <2>7. <<k.id, f, m.field>> \in sightings'
    BY <1>1, <2>5, <2>6
  <2> QED
    BY <2>4, <2>7 DEF Visited
<1>20. ASSUME NEW f \in walked, NEW d \in ToSet(EdgesIn[f]) PROVE StatedBy(nodes', relations', f, d)
  <2>1. CASE d.from = d.to
    BY <2>1 DEF StatedBy
  <2>2. CASE d.from # d.to
    <3>1. StatedBy(nodes, relations, f, d)
      BY DEF GraphInv, StoredIsTrue
    <3>2. PICK e \in relations : e.key[4] = f /\ Backed(nodes, e.key[1], e.subject, e.object, d)
      BY <2>2, <3>1 DEF StatedBy
    <3>3. PICK g : g = MovedEdge(kept, e)
      OBVIOUS
    <3>4. g.key = e.key
      BY <3>3, MovedEdgeIs
    <3>5. Backed(nodes', g.key[1], g.subject, g.object, d) /\ g.subject # g.object
      BY <1>18, <2>2, <3>2, <3>3
    <3>6. g \in relations'
      BY <1>1, <3>3, <3>5
    <3> QED
      BY <3>2, <3>4, <3>5, <3>6 DEF StatedBy
  <2> QED
    BY <2>1, <2>2
<1>8. GraphTypeOK'
  <2>1. nodes' \subseteq NodeRows
    BY <1>1, <1>5 DEF NodeRows
  <2>2. sightings' \subseteq SightingRows
    BY <1>1, <1>6, Zenon
  <2>3. relations' \subseteq RelationRows
    BY <1>1, <1>7, Zenon
  <2> QED
    BY <1>1, <1>4, <2>1, <2>2, <2>3 DEF GraphTypeOK
<1>9. AllNodes' = nodes'
  BY <1>3 DEF AllNodes, Resting
<1>10. IdsApart'
  BY <1>2, <1>9 DEF IdsApart
<1>11. OneAtWork' /\ FilesAreKnown'
  BY <1>3 DEF OneAtWork, Working, FilesAreKnown, Resting
<1>12. \A s \in sightings' : Attested(nodes', s)
  BY <1>1, <1>6, Zenon
<1>13. \A e \in relations' : Anchored(nodes', e) /\ KeyIsLive(AllNodes', e)
  BY <1>1, <1>7, <1>9, Zenon
<1>14. ASSUME ~overlapped PROVE Exact(nodes', relations')
  <2>1. Exact(nodes, relations)
    BY <1>14 DEF GraphInv, StoredIsTrue
  <2>2. ASSUME NEW n \in nodes, n.label = "canonical" PROVE kept[IdentityOf(n.id)] = n.id
    <3>1. PICK m \in nodes : m.identity = n.identity /\ m.id = kept[n.identity] /\ m.label = "canonical"
      BY <1>2, <2>2
    <3>2. m = n
      BY <2>1, <2>2, <3>1 DEF Exact
    <3> QED
      BY <1>2, <3>1, <3>2
  <2>4. ASSUME NEW e \in relations PROVE MovedEdge(kept, e) = e
    <3>1. kept[IdentityOf(e.subject)] = e.subject /\ kept[IdentityOf(e.object)] = e.object
      BY <2>2, StoredHaveNodes
    <3> QED
      BY <3>1, MovedEdgeIs
  <2>6. relations' \subseteq relations
    BY <1>1, <2>4
  <2>7. \A n, m \in nodes' : n.identity = m.identity /\ n.label = m.label => n = m
    BY <1>1
  <2> QED
    BY <2>1, <2>6, <2>7 DEF Exact
<1>15. StoredIsTrue'
  BY <1>1, <1>12, <1>13, <1>14, <1>19, <1>20 DEF StoredIsTrue
<1>16. RunIsTrue(Resting, nodes', sightings', relations', overlapped)
  BY <1>4, <1>14, RestingIsTrue
<1> QED
  BY <1>1, <1>3, <1>8, <1>10, <1>11, <1>15, <1>16 DEF GraphInv

-----------------------------------------------------------------------------
LEMMA InitTrue ==
    ASSUME GraphInit PROVE GraphInv
<1>1. /\ known = {} /\ sightings = {} /\ relations = {} /\ run = [r \in Runs |-> Resting] /\ overlapped = FALSE
      /\ walked = {}
  BY DEF GraphInit
<1>2. PICK numbering \in [Older -> 1..Cardinality(Older)] :
        /\ IsInjective(numbering)
        /\ nodes = {[id |-> numbering[i], identity |-> i, label |-> "older"] : i \in Older}
  BY DEF GraphInit
<1>3. \A i \in Older : numbering[i] \in Int
  BY <1>2
<1>4. \A i, j \in Older : numbering[i] = numbering[j] => i = j
  BY <1>2 DEF IsInjective
<1>5. Resting \in RunRows
  BY RestingIsTrue
<1>6. GraphTypeOK
  <2>1. nodes \subseteq NodeRows
    BY <1>2, <1>3 DEF NodeRows, Resolved
  <2>2. run \in [Runs -> RunRows]
    BY <1>1, <1>5
  <2> QED
    BY <1>1, <2>1, <2>2, FS_EmptySet DEF GraphTypeOK
<1>7. \A r \in Runs : run[r] = Resting
  BY <1>1
<1>8. AllNodes = nodes
  BY <1>7 DEF AllNodes, Resting
<1>9. IdsApart
  BY <1>2, <1>4, <1>8 DEF IdsApart
<1>10. OneAtWork /\ FilesAreKnown
  BY <1>7 DEF OneAtWork, Working, FilesAreKnown, Resting
<1>11. Exact(nodes, relations)
  BY <1>1, <1>2 DEF Exact
<1>12. StoredIsTrue
  BY <1>1, <1>11 DEF StoredIsTrue
<1>13. RunIsTrue(Resting, nodes, sightings, relations, overlapped)
  BY <1>1, <1>11, RestingIsTrue
<1> QED
  BY <1>6, <1>7, <1>9, <1>10, <1>12, <1>13 DEF GraphInv

LEMMA FailKeeps ==
    ASSUME GraphInv, NEW r \in Runs, Fail(r)
    PROVE  GraphInv'
BY AbortKeeps DEF Fail, Unread

LEMMA NextKeeps ==
    ASSUME GraphInv, [GraphNext]_graphVars
    PROVE  GraphInv'
<1>1. ASSUME NEW f \in Files, StoreRecords(f) PROVE GraphInv'
  BY <1>1, StoreRecordsKeeps
<1>2. ASSUME NEW r \in Runs, StartRun(r) PROVE GraphInv'
  BY <1>2, StartRunKeeps
<1>3. ASSUME NEW r \in Runs, NEW f \in Files, StartExtract(r, f) PROVE GraphInv'
  BY <1>3, StartExtractKeeps
<1>4. ASSUME NEW r \in Runs, Mint(r) PROVE GraphInv'
  BY <1>4, MintKeeps
<1>5. ASSUME NEW r \in Runs, NeedsNode(r) PROVE GraphInv'
  BY <1>5, NeedsNodeKeeps
<1>6. ASSUME NEW r \in Runs, Link(r) PROVE GraphInv'
  BY <1>6, LinkKeeps
<1>7. ASSUME NEW r \in Runs, Observe(r) PROVE GraphInv'
  BY <1>7, ObserveKeeps
<1>15. ASSUME NEW r \in Runs, ReadAgain(r) PROVE GraphInv'
  BY <1>15, ReadAgainKeeps
<1>8. ASSUME NEW r \in Runs, PickEdge(r) PROVE GraphInv'
  BY <1>8, PickEdgeKeeps
<1>9. ASSUME NEW r \in Runs, AddEdge(r) PROVE GraphInv'
  BY <1>9, AddEdgeKeeps
<1>10. ASSUME NEW r \in Runs, CommitRun(r) PROVE GraphInv'
  BY <1>10, CommitRunKeeps
<1>11. ASSUME NEW r \in Runs, Fail(r) PROVE GraphInv'
  BY <1>11, FailKeeps
<1>12. ASSUME NEW e \in relations, NEW status \in Decisions, ReviewEdge(e, status) PROVE GraphInv'
  BY <1>12, ReviewEdgeKeeps
<1>13. ASSUME NEW kept \in Keepers, Merge(kept) PROVE GraphInv'
  BY <1>13, MergeKeeps
<1>14. ASSUME UNCHANGED graphVars PROVE GraphInv'
  <2>1. UNCHANGED <<known, nodes, sightings, relations, run, walked, overlapped>>
    BY <1>14 DEF graphVars
  <2>2. GraphTypeOK' /\ IdsApart' /\ OneAtWork' /\ FilesAreKnown' /\ StoredIsTrue'
    BY <2>1 DEF GraphInv, GraphTypeOK, IdsApart, AllNodes, OneAtWork, Working, FilesAreKnown, StoredIsTrue
  <2>3. \A r \in Runs : RunIsTrue(run'[r], nodes', sightings', relations', overlapped')
    BY <2>1 DEF GraphInv
  <2> QED
    BY <2>2, <2>3 DEF GraphInv
<1> QED
  BY <1>1, <1>2, <1>3, <1>4, <1>5, <1>6, <1>7, <1>8, <1>9, <1>10, <1>11, <1>12, <1>13, <1>14, <1>15, Zenon DEF GraphNext

LEMMA GraphInvariant == GraphSpec => []GraphInv
<1>1. GraphInit => GraphInv
  BY InitTrue
<1>2. GraphInv /\ [GraphNext]_graphVars => GraphInv'
  BY NextKeeps
<1> QED
  BY <1>1, <1>2, PTL DEF GraphSpec

\* The tables and the runs have their types, and no two nodes, stored or not yet
\* committed, ever share an id.
THEOREM GraphTypeCorrect == GraphSpec => [](GraphTypeOK /\ IdsApart)
<1>1. GraphInv => GraphTypeOK /\ IdsApart
  BY DEF GraphInv
<1> QED
  BY <1>1, GraphInvariant, PTL

LEMMA ExactFromInv ==
    ASSUME GraphInv PROVE NetworkIsExact
<1>1. NoRunClashesWithItself
  BY InWork DEF NoRunClashesWithItself, RowsAreTrue
<1>2. IdsApart /\ relations \subseteq RelationRows
  BY DEF GraphInv, GraphTypeOK
<1>3. ASSUME NEW n \in nodes PROVE IdentityOf(n.id) = n.identity
  BY <1>2, ReadsIdentity
<1>4. ASSUME NEW e, NEW d, Backed(nodes, e.key[1], e.subject, e.object, d) PROVE Tells(e, d)
  <2>1. /\ e.key[1] = d.kind
        /\ \/ IdentityOf(e.subject) = d.from /\ IdentityOf(e.object) = d.to
           \/ ~d.directed /\ IdentityOf(e.subject) = d.to /\ IdentityOf(e.object) = d.from
    BY <1>3, <1>4 DEF Backed, Canonical
  <2> QED
    BY <2>1 DEF Tells
<1>5. NetworkIsTold
  <2>1. ASSUME NEW s \in sightings
        PROVE  [field |-> s[3], identity |-> IdentityOf(s[1])] \in ToSet(MentionsIn[s[2]])
    BY <1>3, StoredHaveNodes
  <2>2. ASSUME NEW e \in relations PROVE \E d \in ToSet(EdgesIn[e.key[4]]) : Tells(e, d)
    BY <1>4 DEF GraphInv, StoredIsTrue, Anchored
  <2>3. ASSUME NEW f \in walked, NEW m \in ToSet(MentionsIn[f]) PROVE <<m.identity, f, m.field>> \in SightingFacts
    <3>1. Visited(<<>>, nodes, sightings, f, m) /\ ToSet(<<>>) = {}
      BY DEF GraphInv, StoredIsTrue, ToSet
    <3>2. PICK n \in nodes : n.identity = m.identity /\ <<n.id, f, m.field>> \in sightings
      BY <3>1 DEF Visited
    <3>3. PICK s \in sightings : s = <<n.id, f, m.field>>
      BY <3>2
    <3>4. <<IdentityOf(s[1]), s[2], s[3]>> = <<m.identity, f, m.field>>
      BY <1>3, <3>2, <3>3
    <3> QED
      BY <3>3, <3>4 DEF SightingFacts
  <2>4. ASSUME NEW f \in walked, NEW d \in ToSet(EdgesIn[f]), d.from # d.to PROVE \E e \in EdgesOver(f) : Tells(e, d)
    <3>1. StatedBy(nodes, relations, f, d)
      BY DEF GraphInv, StoredIsTrue
    <3>2. PICK e \in relations : e.key[4] = f /\ Backed(nodes, e.key[1], e.subject, e.object, d)
      BY <2>4, <3>1 DEF StatedBy
    <3> QED
      BY <1>4, <3>2 DEF EdgesOver
  <2> QED
    BY <2>1, <2>2, <2>3, <2>4 DEF NetworkIsTold
<1>6. ASSUME ~overlapped
      PROVE  /\ \A n, m \in nodes : n.identity = m.identity /\ n.label = m.label => n = m
             /\ \A f \in Files : \A d \in ToSet(EdgesIn[f]) : \A e, g \in EdgesOver(f) : Tells(e, d) /\ Tells(g, d) => e = g
             /\ \A f \in walked : \A e \in EdgesOver(f) :
                    {e.subject, e.object} \subseteq {s[1] : s \in {t \in sightings : t[2] = f}}
  <2>1. Exact(nodes, relations)
    BY <1>6 DEF GraphInv, StoredIsTrue
  <2>2. \A n, m \in nodes : n.identity = m.identity /\ n.label = m.label => n = m
    BY <2>1 DEF Exact
  <2>3. ASSUME NEW n \in nodes, NEW m \in nodes, n.label = "canonical", m.label = "canonical",
               IdentityOf(n.id) = IdentityOf(m.id)
        PROVE  n.id = m.id
    BY <1>3, <2>2, <2>3
  <2>4. ASSUME NEW f \in Files, NEW d \in ToSet(EdgesIn[f]), NEW e \in EdgesOver(f), NEW g \in EdgesOver(f),
               Tells(e, d), Tells(g, d)
        PROVE  e = g
    <3>1. e \in relations /\ g \in relations /\ e.key[4] = f /\ g.key[4] = f /\ d \in StatedEdges
      BY DEF EdgesOver, StatedEdges
    <3>2. /\ e.key[1] = d.kind /\ g.key[1] = d.kind
          /\ \/ IdentityOf(e.subject) = IdentityOf(g.subject) /\ IdentityOf(e.object) = IdentityOf(g.object)
             \/ ~d.directed /\ IdentityOf(e.subject) = IdentityOf(g.object) /\ IdentityOf(e.object) = IdentityOf(g.subject)
      BY <2>4 DEF Tells
    <3>3. \/ e.subject = g.subject /\ e.object = g.object
          \/ ~d.directed /\ e.subject = g.object /\ e.object = g.subject
      <4>1. PICK n \in nodes : n.id = e.subject /\ n.label = "canonical"
        BY <3>1, StoredHaveNodes
      <4>2. PICK m \in nodes : m.id = g.subject /\ m.label = "canonical"
        BY <3>1, StoredHaveNodes
      <4>3. PICK k \in nodes : k.id = e.object /\ k.label = "canonical"
        BY <3>1, StoredHaveNodes
      <4>4. PICK l \in nodes : l.id = g.object /\ l.label = "canonical"
        BY <3>1, StoredHaveNodes
      <4> QED
        BY <2>3, <3>2, <4>1, <4>2, <4>3, <4>4
    <3>4. /\ e.subject = e.key[2] /\ e.object = e.key[3] /\ g.subject = g.key[2] /\ g.object = g.key[3]
          /\ Ordered(e.key, d) /\ Ordered(g.key, d)
      BY <2>1, <3>1 DEF Exact
    <3>5. e.key \in EdgeKeys /\ g.key \in EdgeKeys
      BY <1>2, <3>1 DEF RelationRows
    <3>6. e.key[2] \in Int /\ e.key[3] \in Int
      BY <3>5 DEF EdgeKeys
    <3>7. e.key[2] = g.key[2] /\ e.key[3] = g.key[3]
      <4>1. CASE e.subject = g.subject /\ e.object = g.object
        BY <3>4, <4>1
      <4>2. CASE ~d.directed /\ e.subject = g.object /\ e.object = g.subject
        <5>1. e.key[2] < e.key[3] /\ e.key[3] < e.key[2]
          BY <3>2, <3>4, <4>2 DEF Ordered
        <5> QED
          BY <3>6, <5>1
      <4> QED
        BY <3>3, <4>1, <4>2
    <3>8. e.key = g.key
      BY <3>1, <3>2, <3>5, <3>7 DEF EdgeKeys
    <3> QED
      BY <2>1, <3>1, <3>8 DEF Exact
  <2>5. ASSUME NEW f \in walked, NEW e \in EdgesOver(f), NEW id \in {e.subject, e.object}
        PROVE  \E s \in sightings : s[2] = f /\ s[1] = id
    <3>1. e \in relations /\ e.key[4] = f /\ f \in Files
      BY DEF EdgesOver, GraphInv, GraphTypeOK
    <3>2. PICK d \in ToSet(EdgesIn[f]) : Backed(nodes, e.key[1], e.subject, e.object, d)
      BY <3>1 DEF GraphInv, StoredIsTrue, Anchored
    <3>3. PICK i \in {d.from, d.to} : Canonical(nodes, id, i)
      BY <3>2 DEF Backed
    <3>4. PICK m \in ToSet(MentionsIn[f]) : m.identity = i
      BY <3>1, <3>2, <3>3, GraphAssumption
    <3>5. Visited(<<>>, nodes, sightings, f, m) /\ ToSet(<<>>) = {}
      BY DEF GraphInv, StoredIsTrue, ToSet
    <3>6. PICK n \in nodes : n.label = "canonical" /\ n.identity = i /\ <<n.id, f, m.field>> \in sightings
      BY <3>4, <3>5 DEF Visited
    <3>7. PICK k \in nodes : k.id = id /\ k.label = "canonical" /\ k.identity = i
      BY <3>3 DEF Canonical
    <3>8. n = k
      BY <2>2, <3>6, <3>7
    <3>9. PICK s \in sightings : s = <<n.id, f, m.field>>
      BY <3>6
    <3> QED
      BY <3>7, <3>8, <3>9
  <2>6. \A f \in walked : \A e \in EdgesOver(f) :
            {e.subject, e.object} \subseteq {s[1] : s \in {t \in sightings : t[2] = f}}
    BY <2>5
  <2> QED
    BY <2>2, <2>4, <2>6
<1>7. SerialNetworkIsExact
  BY <1>6, Zenon DEF SerialNetworkIsExact
<1> QED
  BY <1>1, <1>5, <1>7 DEF NetworkIsExact

\* However runs overlap and fail, every sighting is of a field that mentions its
\* identity, every edge one its file states, and once a run that walked a file has
\* committed nothing of the file is left untold; and when runs have come one at a
\* time an identity has one node the resolver finds, a statement one edge, between
\* nodes that were seen in its file. Nor is a run ever in its own way.
THEOREM NetworkStaysExact == GraphSpec => []NetworkIsExact
<1>1. GraphInv => NetworkIsExact
  BY ExactFromInv
<1> QED
  BY <1>1, GraphInvariant, PTL

-----------------------------------------------------------------------------

\* The facts told before a merge are those told after it, and no identity has two
\* nodes then.
LEMMA MergeFaithful ==
    ASSUME GraphInv, NEW kept \in Keepers, Merge(kept)
    PROVE  /\ \A n, m \in nodes' : n.identity = m.identity => n = m
           /\ SightingFacts' = SightingFacts
           /\ Rulings' = {f \in Rulings : f[1].subject # f[1].object}
<1>1. /\ nodes' = {[id |-> kept[i], identity |-> i, label |-> "canonical"] : i \in NodeIdentities}
      /\ sightings' = {MovedSighting(kept, s) : s \in sightings}
      /\ relations' = {e \in {MovedEdge(kept, d) : d \in relations} : e.subject # e.object}
  BY MergeTables
<1>2. /\ \A n \in nodes : n.identity \in NodeIdentities /\ IdentityOf(n.id) = n.identity
      /\ \A i \in NodeIdentities : IdentityIn(nodes', kept[i]) = i
      /\ \A i, j \in NodeIdentities : kept[i] = kept[j] => i = j
  BY Survivors
<1>3. \A n, m \in nodes' : n.identity = m.identity => n = m
  BY <1>1
<1> DEFINE Told(t) == <<IdentityIn(nodes', t[1]), t[2], t[3]>>
           Telling(s) == <<IdentityOf(s[1]), s[2], s[3]>>
           Ruled(e) == <<[kind |-> e.key[1], file |-> e.key[4], subject |-> IdentityIn(nodes', e.subject),
                          object |-> IdentityIn(nodes', e.object)], e.status>>
           Ruling(e) == <<EdgeFact(e), e.status>>
<1>4. SightingFacts' = {Told(t) : t \in sightings'} /\ SightingFacts = {Telling(s) : s \in sightings}
  BY Zenon DEF SightingFacts, IdentityOf, IdentityIn
<1>5. Rulings' = {Ruled(e) : e \in relations'} /\ Rulings = {Ruling(e) : e \in relations}
  BY Zenon DEF Rulings, EdgeFact, IdentityOf, IdentityIn
<1>6. ASSUME NEW s \in sightings PROVE Told(MovedSighting(kept, s)) = Telling(s)
  <2>1. PICK n \in nodes : n.id = s[1]
    BY StoredHaveNodes
  <2>2. IdentityOf(s[1]) \in NodeIdentities
    BY <1>2, <2>1
  <2>3. PICK t : t = MovedSighting(kept, s)
    OBVIOUS
  <2>4. t[1] = kept[IdentityOf(s[1])] /\ t[2] = s[2] /\ t[3] = s[3]
    BY <2>3 DEF MovedSighting
  <2>5. Told(t) = Telling(s)
    BY <1>2, <2>2, <2>4
  <2> QED
    BY <2>3, <2>5
<1>7. ASSUME NEW e \in relations
      PROVE  /\ Ruled(MovedEdge(kept, e)) = Ruling(e)
             /\ MovedEdge(kept, e).subject # MovedEdge(kept, e).object <=> Ruling(e)[1].subject # Ruling(e)[1].object
  <2>1. PICK n \in nodes : n.id = e.subject
    BY StoredHaveNodes
  <2>2. PICK m \in nodes : m.id = e.object
    BY StoredHaveNodes
  <2>3. IdentityOf(e.subject) \in NodeIdentities /\ IdentityOf(e.object) \in NodeIdentities
    BY <1>2, <2>1, <2>2
  <2>4. PICK d : d = MovedEdge(kept, e)
    OBVIOUS
  <2>5. /\ d.key = e.key /\ d.status = e.status
        /\ d.subject = kept[IdentityOf(e.subject)] /\ d.object = kept[IdentityOf(e.object)]
    BY <2>4, MovedEdgeIs
  <2>6. /\ IdentityIn(nodes', d.subject) = IdentityOf(e.subject)
        /\ IdentityIn(nodes', d.object) = IdentityOf(e.object)
    BY <1>2, <2>3, <2>5
  <2>7. Ruled(d) = Ruling(e)
    BY <2>5, <2>6, Zenon DEF EdgeFact
  <2>8. Ruling(e)[1].subject = IdentityOf(e.subject) /\ Ruling(e)[1].object = IdentityOf(e.object)
    BY DEF EdgeFact
  <2>9. d.subject # d.object <=> Ruling(e)[1].subject # Ruling(e)[1].object
    BY <1>2, <2>3, <2>5, <2>8
  <2> QED
    BY <2>4, <2>7, <2>9
<1> HIDE DEF Told, Telling, Ruled, Ruling
<1>8. SightingFacts' = SightingFacts
  BY <1>1, <1>4, <1>6
<1>9. Rulings' = {f \in Rulings : f[1].subject # f[1].object}
  <2>1. Rulings' = {Ruled(e) : e \in {d \in {MovedEdge(kept, k) : k \in relations} : d.subject # d.object}}
    BY <1>1, <1>5
  <2>2. ASSUME NEW f \in Rulings' PROVE f \in {g \in Rulings : g[1].subject # g[1].object}
    <3>1. PICK e \in relations : MovedEdge(kept, e).subject # MovedEdge(kept, e).object /\ f = Ruled(MovedEdge(kept, e))
      BY <2>1, <2>2
    <3> QED
      BY <1>5, <1>7, <3>1
  <2>3. ASSUME NEW f \in Rulings, f[1].subject # f[1].object PROVE f \in Rulings'
    <3>1. PICK e \in relations : f = Ruling(e)
      BY <1>5
    <3> QED
      BY <1>7, <2>1, <2>3, <3>1
  <2> QED
    BY <2>2, <2>3
<1> QED
  BY <1>3, <1>8, <1>9

\* Whatever runs, failures and rulings came before, the merge script leaves one
\* node for an identity, keeps every sighting, every edge but those of a node with
\* itself, and every ruling on an edge.
THEOREM MergesKeepFacts == GraphSpec => MergeKeepsFacts
<1>1. GraphInv => [MergeIsFaithful]_graphVars
  BY MergeFaithful DEF MergeIsFaithful
<1> QED
  BY <1>1, GraphInvariant, PTL DEF MergeKeepsFacts

-----------------------------------------------------------------------------
\* SchemaHistory.

WalkBody(f, db, from, n) ==
    [v \in from..n |-> IF v = from THEN [done |-> TRUE, db |-> db] ELSE Stepped(f[v - 1], Revisions[v])]
WalkBackBody(f, db, from, n) ==
    [v \in n..from |-> IF v = from THEN db ELSE TakenBack(Revisions[v + 1], f[v + 1])]

\* A walk takes one revision after the other.
LEMMA WalkIs ==
    ASSUME NEW db, NEW from \in 0..Latest
    PROVE  /\ Walked(db, from)[from] = [done |-> TRUE, db |-> db]
           /\ \A v \in (from + 1)..Latest : Walked(db, from)[v] = Stepped(Walked(db, from)[v - 1], Revisions[v])
<1>1. Latest \in Nat /\ from \in Nat /\ from <= Latest
  BY RevisionsAreTables
<1> DEFINE Bad == {n \in Nat : n >= from /\ ~\E f : f = WalkBody(f, db, from, n)}
<1>2. Bad = {}
  <2> SUFFICES ASSUME Bad # {} PROVE FALSE
    OBVIOUS
  <2>1. PICK n \in Bad : \A y \in Bad : n <= y
    <3>1. Bad \subseteq Nat
      OBVIOUS
    <3> HIDE DEF Bad
    <3> QED
      BY <3>1, LeastOf
  <2>2. n \in Nat /\ n >= from /\ ~\E f : f = WalkBody(f, db, from, n)
    OBVIOUS
  <2>3. CASE n = from
    <3>1. PICK f : f = [v \in from..from |-> [done |-> TRUE, db |-> db]]
      OBVIOUS
    <3>2. \A v \in from..from : v = from
      BY <1>1
    <3>3. f = WalkBody(f, db, from, from)
      BY <3>1, <3>2, Zenon DEF WalkBody
    <3> QED
      BY <2>2, <2>3, <3>3
  <2>4. CASE n # from
    <3>1. n - 1 \in Nat /\ n - 1 >= from /\ n - 1 \notin Bad
      <4>1. n - 1 \in Nat /\ n - 1 >= from /\ ~(n <= n - 1)
        BY <1>1, <2>2, <2>4
      <4> HIDE DEF Bad
      <4> QED
        BY <2>1, <4>1
    <3>2. PICK g : g = WalkBody(g, db, from, n - 1)
      BY <3>1
    <3> HIDE DEF Bad
    <3>3. PICK f : f = [v \in from..n |-> IF v = n THEN Stepped(g[n - 1], Revisions[n]) ELSE g[v]]
      OBVIOUS
    <3>4. \A v \in from..(n - 1) : v \in from..n /\ v # n
      BY <1>1, <2>2
    <3>5. \A v \in from..(n - 1) : f[v] = g[v]
      BY <3>3, <3>4, Zenon
    <3>6. ASSUME NEW v \in from..n
          PROVE  f[v] = IF v = from THEN [done |-> TRUE, db |-> db] ELSE Stepped(f[v - 1], Revisions[v])
      <4>1. CASE v = n
        <5>1. n \in from..n /\ n - 1 \in from..(n - 1)
          BY <1>1, <2>2, <3>1
        <5>2. f[n] = Stepped(g[n - 1], Revisions[n]) /\ g[n - 1] = f[n - 1]
          BY <3>3, <3>5, <5>1
        <5> QED
          BY <2>4, <4>1, <5>2
      <4>2. CASE v # n
        <5>1. v \in from..(n - 1) /\ (v # from => v - 1 \in from..(n - 1))
          BY <1>1, <2>2, <4>2
        <5>2. g[v] = IF v = from THEN [done |-> TRUE, db |-> db] ELSE Stepped(g[v - 1], Revisions[v])
          <6>1. \A k : WalkBody(k, db, from, n - 1)[v]
                         = IF v = from THEN [done |-> TRUE, db |-> db] ELSE Stepped(k[v - 1], Revisions[v])
            BY <5>1, Zenon DEF WalkBody
          <6> QED
            BY <3>2, <6>1, Zenon
        <5>3. f[v] = g[v] /\ (v # from => f[v - 1] = g[v - 1])
          BY <3>5, <5>1
        <5> QED
          BY <5>2, <5>3, Zenon
      <4> QED
        BY <4>1, <4>2
    <3>7. f = [v \in from..n |-> f[v]]
      BY <3>3
    <3>8. f = WalkBody(f, db, from, n)
      BY <3>6, <3>7, Zenon DEF WalkBody
    <3> QED
      BY <2>2, <3>8
  <2> QED
    BY <2>3, <2>4
<1> DEFINE so == CHOOSE f : f = WalkBody(f, db, from, Latest)
<1>3. so = WalkBody(so, db, from, Latest)
  <2>1. \E f : f = WalkBody(f, db, from, Latest)
    BY <1>1, <1>2
  <2> QED
    BY <2>1
<1>4. Walked(db, from) = so
  BY Zenon DEF Walked, WalkBody
<1> HIDE DEF so
<1>5. \A v \in from..Latest : so[v] = IF v = from THEN [done |-> TRUE, db |-> db] ELSE Stepped(so[v - 1], Revisions[v])
  <2>1. \A k : \A v \in from..Latest : WalkBody(k, db, from, Latest)[v]
            = IF v = from THEN [done |-> TRUE, db |-> db] ELSE Stepped(k[v - 1], Revisions[v])
    BY Zenon DEF WalkBody
  <2> QED
    BY <1>3, <2>1, Zenon
<1>6. from \in from..Latest /\ \A v \in (from + 1)..Latest : v \in from..Latest /\ v # from
  BY <1>1
<1> QED
  BY <1>4, <1>5, <1>6, Zenon

\* So does the way back.
LEMMA WalkBackIs ==
    ASSUME NEW db, NEW from \in 0..Latest
    PROVE  /\ WalkedBack(db, from)[from] = db
           /\ \A v \in 0..(from - 1) : WalkedBack(db, from)[v] = TakenBack(Revisions[v + 1], WalkedBack(db, from)[v + 1])
<1>1. Latest \in Nat /\ from \in Nat /\ from <= Latest
  BY RevisionsAreTables
<1> DEFINE Bad == {n \in Nat : n <= from /\ ~\E f : f = WalkBackBody(f, db, from, from - n)}
<1>2. Bad = {}
  <2> SUFFICES ASSUME Bad # {} PROVE FALSE
    OBVIOUS
  <2>1. PICK n \in Bad : \A y \in Bad : n <= y
    <3>1. Bad \subseteq Nat
      OBVIOUS
    <3> HIDE DEF Bad
    <3> QED
      BY <3>1, LeastOf
  <2>2. n \in Nat /\ n <= from /\ ~\E f : f = WalkBackBody(f, db, from, from - n)
    OBVIOUS
  <2>3. CASE n = 0
    <3>1. PICK f : f = [v \in from..from |-> db]
      OBVIOUS
    <3>2. \A v \in from..from : v = from
      BY <1>1
    <3>3. f = WalkBackBody(f, db, from, from)
      BY <3>1, <3>2, Zenon DEF WalkBackBody
    <3>4. from - 0 = from
      BY <1>1
    <3> QED
      BY <2>2, <2>3, <3>3, <3>4
  <2>4. CASE n # 0
    <3>1. n - 1 \in Nat /\ n - 1 <= from /\ n - 1 \notin Bad
      <4>1. n - 1 \in Nat /\ n - 1 <= from /\ ~(n <= n - 1)
        BY <1>1, <2>2, <2>4
      <4> HIDE DEF Bad
      <4> QED
        BY <2>1, <4>1
    <3>2. PICK low : low = from - n
      OBVIOUS
    <3>3. low \in Nat /\ low < from /\ from - (n - 1) = low + 1
      BY <1>1, <2>2, <2>4, <3>2
    <3>4. PICK g : g = WalkBackBody(g, db, from, low + 1)
      BY <3>1, <3>3
    <3> HIDE DEF Bad
    <3>5. PICK f : f = [v \in low..from |-> IF v = low THEN TakenBack(Revisions[low + 1], g[low + 1]) ELSE g[v]]
      OBVIOUS
    <3>6. \A v \in (low + 1)..from : v \in low..from /\ v # low
      BY <1>1, <3>3
    <3>7. \A v \in (low + 1)..from : f[v] = g[v]
      BY <3>5, <3>6, Zenon
    <3>8. ASSUME NEW v \in low..from
          PROVE  f[v] = IF v = from THEN db ELSE TakenBack(Revisions[v + 1], f[v + 1])
      <4>1. CASE v = low
        <5>1. low \in low..from /\ low + 1 \in (low + 1)..from /\ low # from
          BY <1>1, <3>3
        <5>2. f[low] = TakenBack(Revisions[low + 1], g[low + 1]) /\ g[low + 1] = f[low + 1]
          BY <3>5, <3>7, <5>1
        <5> QED
          BY <4>1, <5>1, <5>2
      <4>2. CASE v # low
        <5>1. v \in (low + 1)..from /\ (v # from => v + 1 \in (low + 1)..from)
          BY <1>1, <3>3, <4>2
        <5>2. g[v] = IF v = from THEN db ELSE TakenBack(Revisions[v + 1], g[v + 1])
          <6>1. \A k : WalkBackBody(k, db, from, low + 1)[v]
                         = IF v = from THEN db ELSE TakenBack(Revisions[v + 1], k[v + 1])
            BY <5>1, Zenon DEF WalkBackBody
          <6> QED
            BY <3>4, <6>1, Zenon
        <5>3. f[v] = g[v] /\ (v # from => f[v + 1] = g[v + 1])
          BY <3>7, <5>1
        <5> QED
          BY <5>2, <5>3, Zenon
      <4> QED
        BY <4>1, <4>2
    <3>9. f = [v \in low..from |-> f[v]]
      BY <3>5
    <3>10. f = WalkBackBody(f, db, from, low)
      BY <3>8, <3>9, Zenon DEF WalkBackBody
    <3> QED
      BY <2>2, <3>2, <3>10
  <2> QED
    BY <2>3, <2>4
<1> DEFINE so == CHOOSE f : f = WalkBackBody(f, db, from, 0)
<1>3. so = WalkBackBody(so, db, from, 0)
  <2>1. from \notin Bad /\ from \in Nat /\ from <= from /\ from - from = 0
    BY <1>1, <1>2
  <2>2. \E f : f = WalkBackBody(f, db, from, 0)
    BY <2>1
  <2> QED
    BY <2>2
<1>4. WalkedBack(db, from) = so
  BY Zenon DEF WalkedBack, WalkBackBody
<1> HIDE DEF so
<1>5. \A v \in 0..from : so[v] = IF v = from THEN db ELSE TakenBack(Revisions[v + 1], so[v + 1])
  <2>1. \A k : \A v \in 0..from : WalkBackBody(k, db, from, 0)[v]
            = IF v = from THEN db ELSE TakenBack(Revisions[v + 1], k[v + 1])
    BY Zenon DEF WalkBackBody
  <2> QED
    BY <1>3, <2>1, Zenon
<1>6. from \in 0..from /\ \A v \in 0..(from - 1) : v \in 0..from /\ v # from
  BY <1>1
<1> QED
  BY <1>4, <1>5, <1>6, Zenon

\* A version's schema is its revision's, applied to the one before.
LEMMA SchemaGrows ==
    /\ SchemaAt(0) = Vacant
    /\ \A v \in 1..Latest : SchemaAt(v) = Applied(Revisions[v], SchemaAt(v - 1))
<1>1. Latest \in Nat /\ 0 \in 0..Latest
  BY RevisionsAreTables
<1>2. /\ Walked(Vacant, 0)[0] = [done |-> TRUE, db |-> Vacant]
      /\ \A v \in (0 + 1)..Latest : Walked(Vacant, 0)[v] = Stepped(Walked(Vacant, 0)[v - 1], Revisions[v])
  BY <1>1, WalkIs
<1>3. \A so, r : Stepped(so, r).db = Applied(r, so.db)
  BY DEF Stepped
<1>4. 0 + 1 = 1
  OBVIOUS
<1>5. SchemaAt(0) = Vacant
  BY <1>2 DEF SchemaAt
<1>6. \A v \in 1..Latest : SchemaAt(v) = Applied(Revisions[v], SchemaAt(v - 1))
  BY <1>2, <1>3, <1>4, Zenon DEF SchemaAt
<1> QED
  BY <1>5, <1>6

\* What the revisions leave: tables with numbers of columns, and types.
IsSchema(db) ==
    /\ db = [columns |-> db.columns, unique |-> db.unique, types |-> db.types]
    /\ db.columns \in [DOMAIN db.columns -> Nat]
    /\ db.types = [t \in DOMAIN db.types |-> db.types[t]]

LEMMA AppliedIsSchema ==
    ASSUME NEW db, IsSchema(db), NEW v \in 1..Latest
    PROVE  IsSchema(Applied(Revisions[v], db))
<1>1. PICK c : c = db.columns
  OBVIOUS
<1>2. PICK r : r = Revisions[v]
  OBVIOUS
<1>3. r.creates \in [DOMAIN r.creates -> Nat] /\ r.adds \in [DOMAIN r.adds -> Nat]
  <2>1. \A what \in {r.creates, r.adds, r.types, r.labels} : what \in [DOMAIN what -> Nat]
    BY <1>2, RevisionsAreTables
  <2> QED
    BY <2>1
<1>4. PICK g : g = Grown(c, r.adds)
  OBVIOUS
<1>5. DOMAIN g = DOMAIN c /\ \A t \in DOMAIN c : g[t] \in Nat
  <2>1. c \in [DOMAIN c -> Nat]
    BY <1>1 DEF IsSchema
  <2>2. g = [t \in DOMAIN c |-> c[t] + (IF t \in DOMAIN r.adds THEN r.adds[t] ELSE 0)]
    BY <1>4 DEF Grown
  <2>3. ASSUME NEW t \in DOMAIN c PROVE g[t] \in Nat
    <3>1. c[t] \in Nat /\ (t \in DOMAIN r.adds => r.adds[t] \in Nat)
      BY <1>3, <2>1
    <3>2. g[t] = c[t] + (IF t \in DOMAIN r.adds THEN r.adds[t] ELSE 0)
      BY <2>2
    <3> QED
      BY <3>1, <3>2
  <2> QED
    BY <2>2, <2>3
<1>6. PICK d : d = Over(g, r.creates)
  OBVIOUS
<1>7. d \in [DOMAIN d -> Nat]
  <2>1. d = [t \in DOMAIN g \cup DOMAIN r.creates |-> IF t \in DOMAIN g THEN g[t] ELSE r.creates[t]]
    BY <1>6 DEF Over
  <2>2. \A t \in DOMAIN g \cup DOMAIN r.creates : (IF t \in DOMAIN g THEN g[t] ELSE r.creates[t]) \in Nat
    BY <1>3, <1>5
  <2> QED
    BY <2>1, <2>2
<1>8. PICK u : u = db.unique \cup r.unique
  OBVIOUS
<1>9. PICK y : y = Over(r.labels, Over(db.types, r.types))
  OBVIOUS
<1>10. y = [t \in DOMAIN y |-> y[t]]
  BY <1>9 DEF Over
<1>11. Applied(r, db) = [columns |-> d, unique |-> u, types |-> y]
  BY <1>1, <1>4, <1>6, <1>8, <1>9 DEF Applied
<1> QED
  BY <1>2, <1>7, <1>10, <1>11 DEF IsSchema

LEMMA VersionsAreSchemas ==
    \A v \in 0..Latest : IsSchema(SchemaAt(v))
<1> DEFINE Bad == {v \in Nat : v <= Latest /\ ~IsSchema(SchemaAt(v))}
<1>1. Latest \in Nat
  BY RevisionsAreTables
<1>2. Bad = {}
  <2> SUFFICES ASSUME Bad # {} PROVE FALSE
    OBVIOUS
  <2>1. PICK v \in Bad : \A y \in Bad : v <= y
    <3>1. Bad \subseteq Nat
      OBVIOUS
    <3> HIDE DEF Bad
    <3> QED
      BY <3>1, LeastOf
  <2>2. v \in Nat /\ v <= Latest /\ ~IsSchema(SchemaAt(v))
    OBVIOUS
  <2>3. v # 0
    BY <2>2, SchemaGrows DEF Vacant, IsSchema
  <2>4. v - 1 \in Nat /\ v - 1 <= Latest /\ v - 1 \notin Bad /\ v \in 1..Latest
    <3>1. v - 1 \in Nat /\ v - 1 <= Latest /\ ~(v <= v - 1) /\ v \in 1..Latest
      BY <1>1, <2>2, <2>3
    <3> HIDE DEF Bad
    <3> QED
      BY <2>1, <3>1
  <2>5. IsSchema(SchemaAt(v - 1))
    BY <2>4
  <2>6. IsSchema(Applied(Revisions[v], SchemaAt(v - 1)))
    BY <2>4, <2>5, AppliedIsSchema
  <2>7. SchemaAt(v) = Applied(Revisions[v], SchemaAt(v - 1))
    BY <2>4, SchemaGrows
  <2> QED
    BY <2>2, <2>6, <2>7
<1> QED
  BY <1>1, <1>2

\* A database as a version leaves it. Types keep labels that later revisions gave.
AsOf(db, v) ==
    /\ db = [columns |-> db.columns, unique |-> db.unique, types |-> db.types]
    /\ db.columns = SchemaAt(v).columns
    /\ db.unique = SchemaAt(v).unique
    /\ DOMAIN db.types = DOMAIN SchemaAt(v).types
    /\ db.types = [t \in DOMAIN db.types |-> db.types[t]]
    /\ \A t \in DOMAIN db.types : db.types[t] = SchemaAt(v).types[t] \/ db.types[t] = Declared.types[t]

\* One that was taken back to nothing: the first revision's types are still there.
LeftOver(db) ==
    /\ db.columns = Vacant.columns
    /\ db.unique = Vacant.unique
    /\ DOMAIN db.types = DOMAIN Revisions[1].types

\* The next revision applies to such a database and leaves the next version's.
LEMMA StepUp ==
    ASSUME NEW v \in 1..Latest, NEW db, AsOf(db, v - 1)
    PROVE  Applies(Revisions[v], db) /\ AsOf(Applied(Revisions[v], db), v)
<1>1. PICK r : r = Revisions[v]
  OBVIOUS
<1>2. PICK before : before = SchemaAt(v - 1)
  OBVIOUS
<1>3. /\ db.columns = before.columns /\ db.unique = before.unique /\ DOMAIN db.types = DOMAIN before.types
      /\ \A t \in DOMAIN db.types : db.types[t] = before.types[t] \/ db.types[t] = Declared.types[t]
  BY <1>2 DEF AsOf
<1>4. Applies(r, before) /\ \A t \in DOMAIN r.labels : r.labels[t] = Declared.types[t]
  BY <1>1, <1>2, RevisionsFit
<1>5. Applies(r, db)
  BY <1>3, <1>4, Zenon DEF Applies
<1>6. SchemaAt(v) = Applied(r, before)
  BY <1>1, <1>2, SchemaGrows
<1>7. PICK a : a = Over(r.labels, Over(db.types, r.types))
  OBVIOUS
<1>8. PICK b : b = Over(r.labels, Over(before.types, r.types))
  OBVIOUS
<1>9. /\ DOMAIN a = DOMAIN b /\ a = [t \in DOMAIN a |-> a[t]]
      /\ \A t \in DOMAIN a : a[t] = b[t] \/ a[t] = Declared.types[t]
  <2>1. DOMAIN a = DOMAIN b /\ a = [t \in DOMAIN a |-> a[t]]
    BY <1>3, <1>7, <1>8 DEF Over
  <2>2. ASSUME NEW t \in DOMAIN a PROVE a[t] = b[t] \/ a[t] = Declared.types[t]
    <3>1. CASE t \in DOMAIN r.labels
      BY <1>3, <1>7, <1>8, <3>1 DEF Over
    <3>2. CASE t \notin DOMAIN r.labels /\ t \in DOMAIN db.types
      <4>1. a[t] = db.types[t] /\ b[t] = before.types[t]
        BY <1>3, <1>7, <1>8, <2>1, <3>2 DEF Over
      <4> QED
        BY <1>3, <3>2, <4>1
    <3>3. CASE t \notin DOMAIN r.labels /\ t \notin DOMAIN db.types
      BY <1>3, <1>7, <1>8, <2>1, <3>3 DEF Over
    <3> QED
      BY <3>1, <3>2, <3>3
  <2> QED
    BY <2>1, <2>2
<1>10. PICK c : c = Over(Grown(before.columns, r.adds), r.creates)
  OBVIOUS
<1>11. PICK u : u = before.unique \cup r.unique
  OBVIOUS
<1>12. Applied(r, db) = [columns |-> c, unique |-> u, types |-> a]
  BY <1>3, <1>7, <1>10, <1>11, Zenon DEF Applied
<1>13. Applied(r, before) = [columns |-> c, unique |-> u, types |-> b]
  BY <1>8, <1>10, <1>11, Zenon DEF Applied
<1>14. AsOf(Applied(r, db), v)
  <2>1. PICK x : x = Applied(r, db)
    OBVIOUS
  <2>2. x.columns = c /\ x.unique = u /\ x.types = a /\ x = [columns |-> x.columns, unique |-> x.unique, types |-> x.types]
    BY <1>12, <2>1
  <2>3. SchemaAt(v).columns = c /\ SchemaAt(v).unique = u /\ SchemaAt(v).types = b
    BY <1>6, <1>13
  <2>4. AsOf(x, v)
    BY <1>9, <2>2, <2>3, Zenon DEF AsOf
  <2> QED
    BY <2>1, <2>4
<1> QED
  BY <1>1, <1>5, <1>14

\* A revision that is taken back leaves what was there before it, but the types of
\* the first.
LEMMA StepDown ==
    ASSUME NEW v \in 1..Latest, NEW db, AsOf(db, v)
    PROVE  /\ v # 1 => AsOf(TakenBack(Revisions[v], db), v - 1)
           /\ v = 1 => LeftOver(TakenBack(Revisions[v], db))
<1>0. v \in Nat /\ v - 1 \in 0..Latest
  BY RevisionsAreTables
<1>1. PICK r : r = Revisions[v]
  OBVIOUS
<1>2. PICK before : before = SchemaAt(v - 1)
  OBVIOUS
<1>3. PICK after : after = SchemaAt(v)
  OBVIOUS
<1>4. /\ db.columns = after.columns /\ db.unique = after.unique /\ DOMAIN db.types = DOMAIN after.types
      /\ db.types = [t \in DOMAIN db.types |-> db.types[t]]
      /\ \A t \in DOMAIN db.types : db.types[t] = after.types[t] \/ db.types[t] = Declared.types[t]
  BY <1>3 DEF AsOf
<1>5. after = Applied(r, before)
  BY <1>1, <1>2, <1>3, SchemaGrows
<1>6. /\ Applies(r, before) /\ DOMAIN r.types \cap DOMAIN before.types = {}
      /\ \A t \in DOMAIN r.labels : r.labels[t] = Declared.types[t]
      /\ IF v = 1 THEN ~r.checks /\ DOMAIN r.types # {} ELSE r.checks \/ DOMAIN r.types = {}
  BY <1>1, <1>2, RevisionsFit
<1>7. r.adds \in [DOMAIN r.adds -> Nat] /\ r.checks \in BOOLEAN
  <2>1. \A what \in {r.creates, r.adds, r.types, r.labels} : what \in [DOMAIN what -> Nat]
    BY <1>1, RevisionsAreTables
  <2>2. r.checks \in BOOLEAN
    BY <1>1, RevisionsAreTables
  <2> QED
    BY <2>1, <2>2
<1>8. before.columns \in [DOMAIN before.columns -> Nat] /\ before.types = [t \in DOMAIN before.types |-> before.types[t]]
  <2>1. IsSchema(before)
    BY <1>0, <1>2, VersionsAreSchemas
  <2> QED
    BY <2>1, Zenon DEF IsSchema
<1>9. PICK x : x = TakenBack(r, db)
  OBVIOUS
<1>10. x.columns = before.columns
  <2>1. PICK c : c = before.columns
    OBVIOUS
  <2>2. PICK d : d = after.columns
    OBVIOUS
  <2>3. PICK g : g = Grown(c, r.adds)
    OBVIOUS
  <2>4. d = Over(g, r.creates)
    BY <1>5, <2>1, <2>2, <2>3 DEF Applied
  <2>5. DOMAIN g = DOMAIN c /\ \A t \in DOMAIN c : g[t] = c[t] + (IF t \in DOMAIN r.adds THEN r.adds[t] ELSE 0)
    BY <2>3 DEF Grown
  <2>6. DOMAIN d = DOMAIN c \cup DOMAIN r.creates /\ \A t \in DOMAIN c : d[t] = g[t]
    BY <2>4, <2>5 DEF Over
  <2>7. DOMAIN r.creates \cap DOMAIN c = {}
    BY <1>6, <2>1 DEF Applies
  <2>8. DOMAIN d \ DOMAIN r.creates = DOMAIN c
    BY <2>6, <2>7
  <2>9. x.columns = [t \in DOMAIN c |-> d[t] - (IF t \in DOMAIN r.adds THEN r.adds[t] ELSE 0)]
    BY <1>4, <1>9, <2>2, <2>8 DEF TakenBack
  <2>10. ASSUME NEW t \in DOMAIN c PROVE x.columns[t] = c[t]
    <3>1. c[t] \in Nat /\ (t \in DOMAIN r.adds => r.adds[t] \in Nat)
      BY <1>7, <1>8, <2>1
    <3>2. x.columns[t] = d[t] - (IF t \in DOMAIN r.adds THEN r.adds[t] ELSE 0)
      BY <2>9
    <3>3. d[t] = c[t] + (IF t \in DOMAIN r.adds THEN r.adds[t] ELSE 0)
      BY <2>5, <2>6
    <3> QED
      BY <3>1, <3>2, <3>3
  <2>11. c = [t \in DOMAIN c |-> c[t]]
    BY <1>8, <2>1
  <2>12. x.columns = [t \in DOMAIN c |-> x.columns[t]]
    BY <2>9
  <2> QED
    BY <2>1, <2>10, <2>11, <2>12
<1>11. x.unique = before.unique
  <2>1. r.unique \cap before.unique = {} /\ db.unique = before.unique \cup r.unique
    BY <1>4, <1>5, <1>6 DEF Applies, Applied
  <2>2. x.unique = db.unique \ r.unique
    BY <1>9 DEF TakenBack
  <2> QED
    BY <2>1, <2>2
<1>12. PICK y : y = db.types
  OBVIOUS
<1>13. x.types = IF r.checks THEN [t \in DOMAIN y \ DOMAIN r.types |-> y[t]] ELSE y
  BY <1>9, <1>12 DEF TakenBack, Restrict
<1>14. PICK a : a = after.types
  OBVIOUS
<1>15. PICK b : b = before.types
  OBVIOUS
<1>16. a = Over(r.labels, Over(b, r.types))
  BY <1>5, <1>14, <1>15 DEF Applied
<1>17. DOMAIN r.labels \subseteq DOMAIN b
  BY <1>6, <1>15 DEF Applies
<1>18. DOMAIN y = DOMAIN b \cup DOMAIN r.types
  BY <1>4, <1>12, <1>14, <1>16, <1>17 DEF Over
<1>19. CASE v # 1
  <2>1. DOMAIN x.types = DOMAIN b /\ x.types = [t \in DOMAIN x.types |-> x.types[t]] /\ \A t \in DOMAIN b : x.types[t] = y[t]
    <3>1. CASE r.checks
      <4>1. DOMAIN y \ DOMAIN r.types = DOMAIN b
        BY <1>6, <1>15, <1>18
      <4> QED
        BY <1>13, <3>1, <4>1
    <3>2. CASE ~r.checks
      <4>1. DOMAIN y = DOMAIN b /\ y = [t \in DOMAIN y |-> y[t]]
        BY <1>4, <1>6, <1>12, <1>18, <1>19, <3>2
      <4> QED
        BY <1>13, <3>2, <4>1
    <3> QED
      BY <3>1, <3>2
  <2>2. ASSUME NEW t \in DOMAIN b PROVE y[t] = b[t] \/ y[t] = Declared.types[t]
    <3>1. y[t] = a[t] \/ y[t] = Declared.types[t]
      BY <1>4, <1>12, <1>14, <1>18
    <3>2. a[t] = IF t \in DOMAIN r.labels THEN r.labels[t] ELSE b[t]
      BY <1>16 DEF Over
    <3> QED
      BY <1>6, <3>1, <3>2
  <2>3. x = [columns |-> x.columns, unique |-> x.unique, types |-> x.types]
    BY <1>9 DEF TakenBack
  <2>4. AsOf(x, v - 1)
    BY <1>2, <1>10, <1>11, <1>15, <2>1, <2>2, <2>3 DEF AsOf
  <2> QED
    BY <1>1, <1>9, <1>19, <2>4
<1>20. CASE v = 1
  <2>1. before = Vacant
    BY <1>2, <1>20, SchemaGrows
  <2>2. DOMAIN b = {}
    BY <1>15, <2>1 DEF Vacant
  <2>3. x.types = y /\ DOMAIN y = DOMAIN r.types
    BY <1>6, <1>13, <1>18, <1>20, <2>2
  <2>4. LeftOver(x)
    BY <1>1, <1>10, <1>11, <1>20, <2>1, <2>3 DEF LeftOver
  <2> QED
    BY <1>1, <1>9, <1>20, <2>4
<1> QED
  BY <1>19, <1>20

\* From a database as its version left it, a walk is never refused and leaves each
\* version's schema.
LEMMA WalksUp ==
    ASSUME NEW from \in 0..Latest, NEW db, AsOf(db, from)
    PROVE  \A v \in from..Latest : Walked(db, from)[v].done /\ AsOf(Walked(db, from)[v].db, v)
<1>1. Latest \in Nat /\ from \in Nat
  BY RevisionsAreTables
<1>2. PICK so : so = Walked(db, from)
  OBVIOUS
<1>3. so[from] = [done |-> TRUE, db |-> db] /\ \A v \in (from + 1)..Latest : so[v] = Stepped(so[v - 1], Revisions[v])
  BY <1>2, WalkIs
<1> DEFINE Bad == {v \in Nat : v \in from..Latest /\ ~(so[v].done /\ AsOf(so[v].db, v))}
<1>4. Bad = {}
  <2> SUFFICES ASSUME Bad # {} PROVE FALSE
    OBVIOUS
  <2>1. PICK v \in Bad : \A y \in Bad : v <= y
    <3>1. Bad \subseteq Nat
      OBVIOUS
    <3> HIDE DEF Bad
    <3> QED
      BY <3>1, LeastOf
  <2>2. v \in Nat /\ v \in from..Latest /\ ~(so[v].done /\ AsOf(so[v].db, v))
    OBVIOUS
  <2>3. v # from
    BY <1>3, <2>2
  <2>4. v - 1 \in Nat /\ v - 1 \in from..Latest /\ v - 1 \notin Bad /\ v \in 1..Latest /\ v \in (from + 1)..Latest
    <3>1. v - 1 \in Nat /\ v - 1 \in from..Latest /\ ~(v <= v - 1) /\ v \in 1..Latest /\ v \in (from + 1)..Latest
      BY <1>1, <2>2, <2>3
    <3> HIDE DEF Bad
    <3> QED
      BY <2>1, <3>1
  <2>5. PICK old : old = so[v - 1]
    OBVIOUS
  <2>6. old.done /\ AsOf(old.db, v - 1)
    BY <2>4, <2>5
  <2> HIDE DEF Bad
  <2>7. PICK was : was = old.db
    OBVIOUS
  <2>8. Applies(Revisions[v], was) /\ AsOf(Applied(Revisions[v], was), v)
    BY <2>4, <2>6, <2>7, StepUp
  <2>9. so[v] = Stepped(old, Revisions[v])
    BY <1>3, <2>4, <2>5
  <2>10. so[v].done = (old.done /\ Applies(Revisions[v], was)) /\ so[v].db = Applied(Revisions[v], was)
    BY <2>7, <2>9 DEF Stepped
  <2> QED
    BY <2>2, <2>6, <2>8, <2>10, Zenon
<1>5. \A v \in from..Latest : v \in Nat
  BY <1>1
<1> QED
  BY <1>2, <1>4, <1>5

\* On what is left of one that was taken back to nothing, the first revision is
\* refused, and with it every walk.
LEMMA LeftOverIsRefused ==
    ASSUME NEW db, LeftOver(db)
    PROVE  \A v \in 1..Latest : ~Walked(db, 0)[v].done
<1>1. Latest \in Nat /\ 0 \in 0..Latest /\ 0 + 1 = 1 /\ 1 \in 1..Latest
  BY RevisionsAreTables
<1>2. PICK so : so = Walked(db, 0)
  OBVIOUS
<1>3. so[0] = [done |-> TRUE, db |-> db] /\ \A v \in 1..Latest : so[v] = Stepped(so[v - 1], Revisions[v])
  BY <1>1, <1>2, WalkIs
<1>4. ~Applies(Revisions[1], db)
  <2>1. ~Revisions[1].checks /\ DOMAIN Revisions[1].types # {}
    BY <1>1, RevisionsFit
  <2>2. DOMAIN db.types = DOMAIN Revisions[1].types
    BY DEF LeftOver
  <2>3. DOMAIN Revisions[1].types \cap DOMAIN db.types # {}
    BY <2>1, <2>2
  <2> QED
    BY <2>1, <2>3, Zenon DEF Applies
<1>5. ~so[1].done
  <2>1. so[1] = Stepped(so[0], Revisions[1])
    <3>1. 1 - 1 = 0
      OBVIOUS
    <3> QED
      BY <1>1, <1>3, <3>1
  <2>2. so[1].done = (so[0].done /\ Applies(Revisions[1], so[0].db))
    BY <2>1 DEF Stepped
  <2>3. so[0].db = db
    BY <1>3
  <2> QED
    BY <1>4, <2>2, <2>3
<1> DEFINE Bad == {v \in Nat : v \in 1..Latest /\ so[v].done}
<1>6. Bad = {}
  <2> SUFFICES ASSUME Bad # {} PROVE FALSE
    OBVIOUS
  <2>1. PICK v \in Bad : \A y \in Bad : v <= y
    <3>1. Bad \subseteq Nat
      OBVIOUS
    <3> HIDE DEF Bad
    <3> QED
      BY <3>1, LeastOf
  <2>2. v \in Nat /\ v \in 1..Latest /\ so[v].done
    OBVIOUS
  <2>3. v # 1
    BY <1>5, <2>2
  <2>4. v - 1 \in 1..Latest /\ v - 1 \in Nat /\ ~so[v - 1].done
    <3>1. v - 1 \in 1..Latest /\ v - 1 \in Nat /\ ~(v <= v - 1)
      BY <1>1, <2>2, <2>3
    <3>2. v - 1 \notin Bad
      <4> HIDE DEF Bad
      <4> QED
        BY <2>1, <3>1
    <3> QED
      BY <3>1, <3>2
  <2> HIDE DEF Bad
  <2>5. so[v] = Stepped(so[v - 1], Revisions[v])
    BY <1>3, <2>2
  <2>6. so[v].done = (so[v - 1].done /\ Applies(Revisions[v], so[v - 1].db))
    BY <2>5 DEF Stepped
  <2> QED
    BY <2>2, <2>4, <2>6
<1>7. \A v \in 1..Latest : v \in Nat
  OBVIOUS
<1> QED
  BY <1>2, <1>6, <1>7

\* The way back leaves each earlier version's schema.
LEMMA WalksDown ==
    ASSUME NEW from \in 0..Latest, NEW db, AsOf(db, from)
    PROVE  /\ \A v \in 1..from : AsOf(WalkedBack(db, from)[v], v)
           /\ from # 0 => LeftOver(WalkedBack(db, from)[0])
<1>1. Latest \in Nat /\ from \in Nat /\ from <= Latest
  BY RevisionsAreTables
<1>2. PICK so : so = WalkedBack(db, from)
  OBVIOUS
<1>3. so[from] = db /\ \A v \in 0..(from - 1) : so[v] = TakenBack(Revisions[v + 1], so[v + 1])
  BY <1>2, WalkBackIs
<1> DEFINE Bad == {k \in Nat : k < from /\ ~AsOf(so[from - k], from - k)}
<1>4. Bad = {}
  <2> SUFFICES ASSUME Bad # {} PROVE FALSE
    OBVIOUS
  <2>1. PICK k \in Bad : \A y \in Bad : k <= y
    <3>1. Bad \subseteq Nat
      OBVIOUS
    <3> HIDE DEF Bad
    <3> QED
      BY <3>1, LeastOf
  <2>2. PICK v : v = from - k
    OBVIOUS
  <2>3. k \in Nat /\ k < from /\ ~AsOf(so[v], v)
    BY <2>2
  <2>4. k # 0
    <3>1. k = 0 => v = from
      BY <1>1, <2>2
    <3> QED
      BY <1>3, <2>3, <3>1
  <2>5. k - 1 \in Nat /\ k - 1 < from /\ k - 1 \notin Bad /\ from - (k - 1) = v + 1
    <3>1. k - 1 \in Nat /\ k - 1 < from /\ ~(k <= k - 1) /\ from - (k - 1) = v + 1
      BY <1>1, <2>2, <2>3, <2>4
    <3> HIDE DEF Bad
    <3> QED
      BY <2>1, <3>1
  <2>6. AsOf(so[v + 1], v + 1)
    BY <2>5
  <2> HIDE DEF Bad
  <2>7. v \in 0..(from - 1) /\ v + 1 \in 1..Latest /\ v + 1 # 1 /\ (v + 1) - 1 = v
    BY <1>1, <2>2, <2>3, <2>4
  <2>8. PICK was : was = so[v + 1]
    OBVIOUS
  <2>9. PICK w \in 1..Latest : w = v + 1
    BY <2>7
  <2>10. AsOf(TakenBack(Revisions[w], was), w - 1)
    BY <2>6, <2>7, <2>8, <2>9, StepDown
  <2>11. so[v] = TakenBack(Revisions[w], was)
    BY <1>3, <2>7, <2>8, <2>9
  <2> QED
    BY <2>3, <2>7, <2>9, <2>10, <2>11
<1>5. \A v \in 1..from : AsOf(so[v], v)
  <2> TAKE v \in 1..from
  <2>1. PICK k : k = from - v
    OBVIOUS
  <2>2. k \in Nat /\ k < from /\ from - k = v
    BY <1>1, <2>1
  <2>3. k \notin Bad
    BY <1>4
  <2> QED
    BY <2>2, <2>3
<1>6. from # 0 => LeftOver(so[0])
  <2> SUFFICES ASSUME from # 0 PROVE LeftOver(so[0])
    OBVIOUS
  <2> HIDE DEF Bad
  <2>1. 0 \in 0..(from - 1) /\ 1 \in 1..from /\ 1 \in 1..Latest /\ 0 + 1 = 1
    BY <1>1
  <2>2. PICK was : was = so[1]
    OBVIOUS
  <2>3. AsOf(was, 1)
    BY <1>5, <2>1, <2>2
  <2>4. LeftOver(TakenBack(Revisions[1], was))
    BY <2>1, <2>3, StepDown
  <2>5. so[0] = TakenBack(Revisions[1], was)
    BY <1>3, <2>1, <2>2
  <2> QED
    BY <2>4, <2>5
<1> QED
  BY <1>2, <1>5, <1>6

\* At the latest version, types are labelled as the models declare.
LEMMA LatestIsDeclared ==
    ASSUME NEW db, AsOf(db, Latest)
    PROVE  db = Declared
<1>1. PICK d : d = Declared
  OBVIOUS
<1>2. d = SchemaAt(Latest) /\ Latest \in 0..Latest
  BY <1>1, LastIsDeclared, RevisionsAreTables
<1>3. d = [columns |-> d.columns, unique |-> d.unique, types |-> d.types] /\ d.types = [t \in DOMAIN d.types |-> d.types[t]]
  <2>1. IsSchema(d)
    BY <1>2, VersionsAreSchemas
  <2> QED
    BY <2>1, Zenon DEF IsSchema
<1>4. /\ db = [columns |-> db.columns, unique |-> db.unique, types |-> db.types]
      /\ db.columns = d.columns /\ db.unique = d.unique /\ DOMAIN db.types = DOMAIN d.types
      /\ db.types = [t \in DOMAIN db.types |-> db.types[t]]
      /\ \A t \in DOMAIN db.types : db.types[t] = d.types[t]
  BY <1>1, <1>2, Zenon DEF AsOf
<1>5. db.types = d.types
  <2>1. PICK x : x = db.types
    OBVIOUS
  <2>2. PICK y : y = d.types
    OBVIOUS
  <2>3. x = [t \in DOMAIN x |-> x[t]] /\ y = [t \in DOMAIN y |-> y[t]] /\ DOMAIN x = DOMAIN y /\ \A t \in DOMAIN x : x[t] = y[t]
    BY <1>3, <1>4, <2>1, <2>2
  <2> QED
    BY <2>1, <2>2, <2>3
<1> QED
  BY <1>1, <1>3, <1>4, <1>5, Zenon

\* A version tells the database but for its types' labels, or it is what is left of
\* one that was taken back to nothing. While the API serves, the version is the
\* latest.
SchemaInv ==
    /\ version \in 0..Latest
    /\ AsOf(database, version) \/ (version = 0 /\ LeftOver(database))
    /\ serving => version = Latest /\ AsOf(database, Latest)

\* SchemaInv holds of every reachable state: each command takes a walk up or down,
\* or none.
LEMMA SchemaInvariant ==
    SchemaSpec => []SchemaInv
<1>1. SchemaInit => SchemaInv
  <2> SUFFICES ASSUME SchemaInit PROVE SchemaInv
    OBVIOUS
  <2>1. Latest \in Nat
    BY RevisionsAreTables
  <2>2. version = 0 /\ database = Vacant /\ serving = FALSE
    BY DEF SchemaInit
  <2>3. AsOf(Vacant, 0)
    BY SchemaGrows DEF AsOf, Vacant
  <2> QED
    BY <2>1, <2>2, <2>3 DEF SchemaInv
<1>2. SchemaInv /\ [SchemaNext]_schemaVars => SchemaInv'
  <2> SUFFICES ASSUME SchemaInv, [SchemaNext]_schemaVars PROVE SchemaInv'
    OBVIOUS
  <2>0. Latest \in Nat /\ version \in 0..Latest /\ Latest # 0
    BY RevisionsAreTables DEF SchemaInv
  <2>1. ASSUME NEW to \in 0..Latest, Upgrade(to) PROVE SchemaInv'
    <3>1. PICK walk : walk = Walked(database, version)[to]
      OBVIOUS
    <3>2. /\ ~serving /\ serving' = serving /\ to \in (version + 1)..Latest
          /\ IF walk.done THEN version' = to /\ database' = walk.db ELSE version' = version /\ database' = database
      BY <2>1, <3>1 DEF Upgrade
    <3>3. CASE walk.done
      <4>1. AsOf(database, version)
        <5>1. SUFFICES ASSUME version = 0, LeftOver(database) PROVE FALSE
          BY DEF SchemaInv
        <5>2. to \in 1..Latest
          BY <3>2, <5>1
        <5> QED
          BY <3>1, <3>3, <5>1, <5>2, LeftOverIsRefused
      <4>2. to \in version..Latest
        BY <2>0, <3>2
      <4>3. AsOf(walk.db, to)
        BY <2>0, <3>1, <4>1, <4>2, WalksUp
      <4> QED
        BY <3>2, <3>3, <4>3 DEF SchemaInv
    <3>4. CASE ~walk.done
      BY <3>2, <3>4 DEF SchemaInv
    <3> QED
      BY <3>3, <3>4
  <2>2. ASSUME NEW to \in 0..Latest, Downgrade(to) PROVE SchemaInv'
    <3>1. /\ ~serving /\ serving' = serving /\ to \in 0..(version - 1)
          /\ version' = to /\ database' = WalkedBack(database, version)[to]
      BY <2>2 DEF Downgrade
    <3>2. version # 0 /\ (to # 0 => to \in 1..version)
      BY <2>0, <3>1
    <3>3. AsOf(database, version)
      BY <3>2 DEF SchemaInv
    <3>4. /\ \A v \in 1..version : AsOf(WalkedBack(database, version)[v], v)
          /\ version # 0 => LeftOver(WalkedBack(database, version)[0])
      BY <2>0, <3>3, WalksDown
    <3>5. CASE to = 0
      BY <3>1, <3>2, <3>4, <3>5 DEF SchemaInv
    <3>6. CASE to # 0
      BY <3>1, <3>2, <3>4, <3>6 DEF SchemaInv
    <3> QED
      BY <3>5, <3>6
  <2>3. CASE StartApi
    <3>1. PICK walk : walk = Walked(database, version)[Latest]
      OBVIOUS
    <3>2. walk.done /\ database' = walk.db /\ version' = Latest
      BY <2>3, <3>1 DEF StartApi
    <3>3. AsOf(database, version)
      <4>1. SUFFICES ASSUME version = 0, LeftOver(database) PROVE FALSE
        BY DEF SchemaInv
      <4>2. Latest \in 1..Latest
        BY <2>0
      <4> QED
        BY <3>1, <3>2, <4>1, <4>2, LeftOverIsRefused
    <3>4. Latest \in version..Latest /\ Latest \in 0..Latest
      BY <2>0
    <3>5. AsOf(walk.db, Latest)
      BY <2>0, <3>1, <3>3, <3>4, WalksUp
    <3> QED
      BY <3>2, <3>4, <3>5 DEF SchemaInv
  <2>4. CASE StopApi
    BY <2>4 DEF StopApi, SchemaInv
  <2>5. CASE UNCHANGED schemaVars
    BY <2>5 DEF schemaVars, SchemaInv
  <2> QED
    BY <2>1, <2>2, <2>3, <2>4, <2>5 DEF SchemaNext
<1> QED
  BY <1>1, <1>2, PTL DEF SchemaSpec

\* However often the database is upgraded, taken back or refused, of revisions that
\* fit: an API that answers finds the schema its models declare, a version tells
\* which tables, columns and keys are there, and the latest can be reached exactly
\* from a database that was never taken back to nothing (migrations/env.py).
THEOREM SchemaStaysDeclared ==
    SchemaSpec => [](SchemaIsDeclared /\ ServesDeclaredSchema /\ VersionTellsSchema /\ LatestIsReachable)
<1>1. SchemaInv => SchemaIsDeclared /\ ServesDeclaredSchema /\ VersionTellsSchema /\ LatestIsReachable
  <2> SUFFICES ASSUME SchemaInv PROVE ServesDeclaredSchema /\ VersionTellsSchema /\ LatestIsReachable
    BY DEF SchemaIsDeclared
  <2>0. Latest \in Nat /\ version \in 0..Latest /\ Latest # 0 /\ Latest \in version..Latest /\ Latest \in 1..Latest
    BY RevisionsAreTables DEF SchemaInv
  <2>1. ServesDeclaredSchema
    BY LatestIsDeclared DEF SchemaInv, ServesDeclaredSchema
  <2>2. CASE AsOf(database, version)
    <3>1. VersionTellsSchema
      BY <2>2 DEF AsOf, VersionTellsSchema
    <3>2. Walked(database, version)[Latest].done
      BY <2>0, <2>2, WalksUp
    <3>3. version = 0 => database.types = Vacant.types
      <4> SUFFICES ASSUME version = 0 PROVE database.types = Vacant.types
        OBVIOUS
      <4>1. PICK x : x = database.types
        OBVIOUS
      <4>2. DOMAIN x = DOMAIN Vacant.types /\ x = [t \in DOMAIN x |-> x[t]]
        BY <2>2, <4>1, SchemaGrows DEF AsOf
      <4>3. Vacant.types = [t \in {} |-> 0] /\ DOMAIN Vacant.types = {}
        BY DEF Vacant
      <4> QED
        BY <4>1, <4>2, <4>3
    <3>4. version > 0 \/ version = 0
      BY <2>0
    <3>5. LatestIsReachable
      BY <3>2, <3>3, <3>4 DEF LatestIsReachable
    <3> QED
      BY <2>1, <3>1, <3>5
  <2>3. CASE version = 0 /\ LeftOver(database)
    <3>1. SchemaAt(0) = Vacant /\ DOMAIN Vacant.types = {}
      BY SchemaGrows DEF Vacant
    <3>2. VersionTellsSchema
      BY <2>3, <3>1 DEF LeftOver, VersionTellsSchema
    <3>3. ~Walked(database, version)[Latest].done
      BY <2>0, <2>3, LeftOverIsRefused
    <3>4. database.types # Vacant.types
      <4>1. DOMAIN Revisions[1].types # {}
        <5>1. 1 \in 1..Latest
          BY <2>0
        <5> QED
          BY <5>1, RevisionsFit
      <4>2. DOMAIN database.types = DOMAIN Revisions[1].types
        BY <2>3 DEF LeftOver
      <4> QED
        BY <3>1, <4>1, <4>2
    <3>5. ~(version > 0)
      BY <2>3
    <3>6. LatestIsReachable
      BY <3>3, <3>4, <3>5 DEF LatestIsReachable
    <3> QED
      BY <2>1, <3>2, <3>6
  <2> QED
    BY <2>2, <2>3 DEF SchemaInv
<1> QED
  BY <1>1, SchemaInvariant, PTL

=============================================================================
