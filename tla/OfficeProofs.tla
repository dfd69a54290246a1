----------------------------- MODULE OfficeProofs -----------------------------
(***************************************************************************)
(* Proofs about accounts and sessions (AccountSessions): whose a token is, *)
(* what an account's page says, and what a code lets through, by two       *)
(* inductive invariants: SessionsInv, for whatever requests do at once,    *)
(* and GuardInv, for requests that take turns. And about what people do    *)
(* around the evidence: the sending account (MailSender), uploads          *)
(* (EvidenceIntake) and the records of the desk (CaseDesk), each with an   *)
(* inductive invariant of its own. The four share no state.                *)
(***************************************************************************)
EXTENDS AccountSessions, MailSender, EvidenceIntake, CaseDesk,
        SequenceTheorems, FiniteSetTheorems, WellFoundedInduction, TLAPS

-------------------------------------------------------------------------------
\* What the operators of the module return

\* Newest picks one of the codes it is given.
LEMMA NewestIsOne ==
    ASSUME NEW n \in Nat, NEW ks \in SUBSET (1..n), ks # {}
    PROVE  Newest(ks) \in ks /\ \A k \in ks : k <= Newest(ks)
<1> DEFINE ages == {n - k : k \in ks}
<1>0. \A k \in ks : k \in Nat /\ n - k \in Nat
  OBVIOUS
<1>1. ages \in SUBSET Nat /\ ages # {}
  BY <1>0
<1>2. PICK x \in ages : \A y \in ages : x <= y
  <2> HIDE DEF ages
  <2> DEFINE Less == OpToRel(<, Nat)
  <2>1. IsWellFoundedOn(Less, Nat)
    BY NatLessThanWellFounded, Zenon
  <2> HIDE DEF Less
  <2>2. PICK x \in ages : \A y \in ages : <<y, x>> \notin Less
    BY <1>1, <2>1, WFMin
  <2>3. \A y \in ages : ~(y < x)
    BY <1>1, <2>2 DEF OpToRel, Less
  <2> QED
    BY <1>1, <2>3
<1>3. PICK k \in ks : x = n - k
  BY <1>2
<1>4. \A j \in ks : k >= j
  <2> SUFFICES ASSUME NEW j \in ks PROVE k >= j
    OBVIOUS
  <2>1. n - k <= n - j
    BY <1>2, <1>3
  <2>2. k \in Nat /\ j \in Nat
    BY <1>0
  <2> HIDE DEF ages
  <2> QED
    BY <2>1, <2>2
<1>5. Newest(ks) = CHOOSE i \in ks : \A j \in ks : i >= j
  BY DEF Newest, Max
<1>6. Newest(ks) \in ks /\ \A j \in ks : Newest(ks) >= j
  BY <1>3, <1>4, <1>5
<1> QED
  BY <1>6

\* The calls handlers begin with.
Entering(p, e) == [Idle EXCEPT !.pc = p, !.user = e]
Using(e, s) == [Idle EXCEPT !.pc = "using", !.user = e, !.code = s]
Asking(e, purpose, unused) == [Idle EXCEPT !.pc = "requesting", !.user = e, !.purpose = purpose, !.seen = unused]
Guessing(e, purpose, n, m, a) ==
    [Idle EXCEPT !.pc = "verifying", !.user = e, !.purpose = purpose, !.code = n, !.typed = m, !.attempts = a]

LEMMA CallOf ==
    ASSUME NEW e, NEW p
    PROVE  [Idle EXCEPT !.pc = p, !.user = e]
             = [pc |-> p, user |-> e, code |-> 0, typed |-> 0, attempts |-> 0, purpose |-> Signup, seen |-> {}]
<1> DEFINE q1 == [Idle EXCEPT !.pc = p]
           q2 == [q1 EXCEPT !.user = e]
<1>0. [Idle EXCEPT !.pc = p, !.user = e] = q2
  OBVIOUS
<1> HIDE DEF q1, q2
<1>1. q1 = [pc |-> p, user |-> "nobody", code |-> 0, typed |-> 0, attempts |-> 0, purpose |-> Signup, seen |-> {}]
  BY DEF q1, Idle
<1>2. q2 = [pc |-> p, user |-> e, code |-> 0, typed |-> 0, attempts |-> 0, purpose |-> Signup, seen |-> {}]
  BY <1>1 DEF q2
<1> QED
  BY <1>0, <1>2

LEMMA CallOfSession ==
    ASSUME NEW e, NEW p, NEW s
    PROVE  [Idle EXCEPT !.pc = p, !.user = e, !.code = s]
             = [pc |-> p, user |-> e, code |-> s, typed |-> 0, attempts |-> 0, purpose |-> Signup, seen |-> {}]
<1> DEFINE q2 == [Idle EXCEPT !.pc = p, !.user = e]
           q3 == [q2 EXCEPT !.code = s]
<1>1. q2 = [pc |-> p, user |-> e, code |-> 0, typed |-> 0, attempts |-> 0, purpose |-> Signup, seen |-> {}]
  BY CallOf
<1>0. [Idle EXCEPT !.pc = p, !.user = e, !.code = s] = q3
  OBVIOUS
<1> HIDE DEF q2, q3
<1>2. q3 = [pc |-> p, user |-> e, code |-> s, typed |-> 0, attempts |-> 0, purpose |-> Signup, seen |-> {}]
  BY <1>1 DEF q3
<1> QED
  BY <1>0, <1>2

LEMMA CallOfRequest ==
    ASSUME NEW e, NEW p, NEW purpose, NEW unused
    PROVE  [Idle EXCEPT !.pc = p, !.user = e, !.purpose = purpose, !.seen = unused]
             = [pc |-> p, user |-> e, code |-> 0, typed |-> 0, attempts |-> 0, purpose |-> purpose, seen |-> unused]
<1> DEFINE q2 == [Idle EXCEPT !.pc = p, !.user = e]
           q3 == [q2 EXCEPT !.purpose = purpose]
           q4 == [q3 EXCEPT !.seen = unused]
<1>1. q2 = [pc |-> p, user |-> e, code |-> 0, typed |-> 0, attempts |-> 0, purpose |-> Signup, seen |-> {}]
  BY CallOf
<1>0. [Idle EXCEPT !.pc = p, !.user = e, !.purpose = purpose, !.seen = unused] = q4
  OBVIOUS
<1> HIDE DEF q2, q3, q4
<1>2. q3 = [pc |-> p, user |-> e, code |-> 0, typed |-> 0, attempts |-> 0, purpose |-> purpose, seen |-> {}]
  BY <1>1 DEF q3
<1>3. q4 = [pc |-> p, user |-> e, code |-> 0, typed |-> 0, attempts |-> 0, purpose |-> purpose, seen |-> unused]
  BY <1>2 DEF q4
<1> QED
  BY <1>0, <1>3

LEMMA CallBegins ==
    ASSUME NEW e \in Emails, NEW p \in Stages
    PROVE  Entering(p, e) \in Calls /\ Entering(p, e).pc = p /\ Entering(p, e).user = e
<1> PICK work : work = [pc |-> p, user |-> e, code |-> 0, typed |-> 0, attempts |-> 0, purpose |-> Signup, seen |-> {}]
  OBVIOUS
<1>1. work \in Calls /\ work.pc = p /\ work.user = e
  BY DEF Calls, Purposes
<1>2. Entering(p, e) = work
  BY CallOf DEF Entering
<1> QED
  BY <1>1, <1>2

LEMMA CallNames ==
    ASSUME NEW e \in Emails, NEW s \in Nat
    PROVE  Using(e, s) \in Calls /\ Using(e, s).pc = "using" /\ Using(e, s).user = e /\ Using(e, s).code = s
<1> PICK work : work = [pc |-> "using", user |-> e, code |-> s, typed |-> 0, attempts |-> 0,
                        purpose |-> Signup, seen |-> {}]
  OBVIOUS
<1>1. work \in Calls /\ work.pc = "using" /\ work.user = e /\ work.code = s
  BY DEF Calls, Purposes, Stages
<1>2. Using(e, s) = work
  BY CallOfSession DEF Using
<1> QED
  BY <1>1, <1>2

LEMMA CallRequests ==
    ASSUME NEW e \in Emails, NEW purpose \in Purposes, NEW unused \in SUBSET Nat
    PROVE  LET work == Asking(e, purpose, unused)
           IN  /\ work \in Calls /\ work.pc = "requesting" /\ work.user = e
               /\ work.purpose = purpose /\ work.seen = unused
<1> PICK work : work = [pc |-> "requesting", user |-> e, code |-> 0, typed |-> 0, attempts |-> 0,
                        purpose |-> purpose, seen |-> unused]
  OBVIOUS
<1>1. /\ work \in Calls /\ work.pc = "requesting" /\ work.user = e
      /\ work.purpose = purpose /\ work.seen = unused
  BY DEF Calls, Stages
<1>2. Asking(e, purpose, unused) = work
  BY CallOfRequest DEF Asking
<1> QED
  BY <1>1, <1>2

LEMMA CallVerifies ==
    ASSUME NEW e \in Emails, NEW purpose \in Purposes, NEW n \in Nat, NEW m \in Nat, NEW a \in Nat
    PROVE  LET work == Guessing(e, purpose, n, m, a)
           IN  /\ work \in Calls /\ work.pc = "verifying" /\ work.user = e
               /\ work.purpose = purpose /\ work.code = n /\ work.attempts = a
<1> DEFINE q2 == [Idle EXCEPT !.pc = "verifying", !.user = e]
           q3 == [q2 EXCEPT !.purpose = purpose]
           q4 == [q3 EXCEPT !.code = n]
           q5 == [q4 EXCEPT !.typed = m]
           q6 == [q5 EXCEPT !.attempts = a]
<1>0. Guessing(e, purpose, n, m, a) = q6
  BY DEF Guessing
<1>1. q2 = [pc |-> "verifying", user |-> e, code |-> 0, typed |-> 0, attempts |-> 0,
            purpose |-> Signup, seen |-> {}]
  BY CallOf
<1> HIDE DEF q2, q3, q4, q5, q6
<1>2. q3 = [pc |-> "verifying", user |-> e, code |-> 0, typed |-> 0, attempts |-> 0,
            purpose |-> purpose, seen |-> {}]
  BY <1>1 DEF q3
<1>3. q4 = [pc |-> "verifying", user |-> e, code |-> n, typed |-> 0, attempts |-> 0,
            purpose |-> purpose, seen |-> {}]
  BY <1>2 DEF q4
<1>4. q5 = [pc |-> "verifying", user |-> e, code |-> n, typed |-> m, attempts |-> 0,
            purpose |-> purpose, seen |-> {}]
  BY <1>3 DEF q5
<1>5. q6 = [pc |-> "verifying", user |-> e, code |-> n, typed |-> m, attempts |-> a,
            purpose |-> purpose, seen |-> {}]
  BY <1>4 DEF q6
<1>6. /\ q6 \in Calls /\ q6.pc = "verifying" /\ q6.user = e
      /\ q6.purpose = purpose /\ q6.code = n /\ q6.attempts = a
  BY <1>5 DEF Calls, Stages
<1> QED
  BY <1>0, <1>6

LEMMA CallMoves ==
    ASSUME NEW q \in Calls, NEW p \in Stages
    PROVE  /\ [q EXCEPT !.pc = p] \in Calls
           /\ [q EXCEPT !.pc = p].pc = p /\ [q EXCEPT !.pc = p].user = q.user
           /\ [q EXCEPT !.pc = p].code = q.code /\ [q EXCEPT !.pc = p].purpose = q.purpose
  BY DEF Calls

LEMMA CallCodes ==
    ASSUME NEW q \in Calls, NEW n \in Nat
    PROVE  /\ [q EXCEPT !.code = n] \in Calls
           /\ [q EXCEPT !.code = n].code = n /\ [q EXCEPT !.code = n].user = q.user
           /\ [q EXCEPT !.code = n].pc = q.pc /\ [q EXCEPT !.code = n].purpose = q.purpose
  BY DEF Calls

\* The request that steps, and the others.
LEMMA Opened ==
    ASSUME AccountTypeOK, NEW r \in Requests, NEW e \in Emails, NEW work \in Calls, Open(r, e, work)
    PROVE  /\ request' \in [Requests -> {Idle} \cup Calls] /\ overlapped' \in BOOLEAN
           /\ request[r] = Idle /\ request'[r] = work
           /\ \A q \in Requests \ {r} : request'[q] = request[q]
           /\ ~overlapped' => ~overlapped /\ \A q \in Requests : request[q].user # e
  BY DEF Open, AccountTypeOK

LEMMA Closed ==
    ASSUME AccountTypeOK, NEW r \in Requests, Close(r)
    PROVE  /\ request' \in [Requests -> {Idle} \cup Calls]
           /\ request'[r] = Idle
           /\ \A q \in Requests \ {r} : request'[q] = request[q]
  BY DEF Close, AccountTypeOK

LEMMA IdleIsNone == Idle \notin Calls /\ Idle.pc = "idle" /\ Idle.user = "nobody"
  BY DEF Idle, Calls, Stages

LEMMA ServedCall ==
    ASSUME AccountTypeOK, NEW r \in Requests, request[r].pc # "idle"
    PROVE  request[r] \in Calls
  BY IdleIsNone DEF AccountTypeOK

LEMMA GoesOn ==
    ASSUME AccountTypeOK, NEW r \in Requests, request[r] \in Calls, NEW p \in Stages,
           request' = [request EXCEPT ![r].pc = p]
    PROVE  /\ request' \in [Requests -> {Idle} \cup Calls]
           /\ request'[r].pc = p /\ request'[r].user = request[r].user /\ request'[r].code = request[r].code
           /\ request'[r].purpose = request[r].purpose
           /\ \A q \in Requests \ {r} : request'[q] = request[q]
<1>1. request'[r] = [request[r] EXCEPT !.pc = p] /\ \A q \in Requests \ {r} : request'[q] = request[q]
  BY DEF AccountTypeOK
<1>2. request' = [q \in Requests |-> request'[q]]
  BY DEF AccountTypeOK
<1>3. /\ [request[r] EXCEPT !.pc = p] \in Calls
      /\ [request[r] EXCEPT !.pc = p].pc = p /\ [request[r] EXCEPT !.pc = p].user = request[r].user
      /\ [request[r] EXCEPT !.pc = p].code = request[r].code /\ [request[r] EXCEPT !.pc = p].purpose = request[r].purpose
  BY CallMoves
<1>4. \A q \in Requests : request'[q] \in {Idle} \cup Calls
  BY <1>1, <1>3 DEF AccountTypeOK
<1>5. request' \in [Requests -> {Idle} \cup Calls]
  BY <1>2, <1>4
<1> QED
  BY <1>1, <1>3, <1>5

LEMMA MailsNext ==
    ASSUME AccountTypeOK, NEW r \in Requests, request[r] \in Calls, NEW n \in Nat,
           request' = [request EXCEPT ![r].pc = "mailing", ![r].code = n]
    PROVE  /\ request' \in [Requests -> {Idle} \cup Calls]
           /\ request'[r].pc = "mailing" /\ request'[r].user = request[r].user /\ request'[r].code = n
           /\ \A q \in Requests \ {r} : request'[q] = request[q]
<1> DEFINE q1 == [request[r] EXCEPT !.pc = "mailing"]
           q2 == [q1 EXCEPT !.code = n]
<1>0. "mailing" \in Stages
  BY DEF Stages
<1>1. request'[r] = q2 /\ \A q \in Requests \ {r} : request'[q] = request[q]
  BY DEF AccountTypeOK
<1>2. request' = [q \in Requests |-> request'[q]]
  BY DEF AccountTypeOK
<1>3. q1 \in Calls /\ q1.pc = "mailing" /\ q1.user = request[r].user
  BY <1>0, CallMoves
<1> HIDE DEF q1
<1>4. q2 \in Calls /\ q2.pc = "mailing" /\ q2.user = request[r].user /\ q2.code = n
  BY <1>3, CallCodes
<1> HIDE DEF q2
<1>5. \A q \in Requests : request'[q] \in {Idle} \cup Calls
  BY <1>1, <1>4 DEF AccountTypeOK
<1>6. request' \in [Requests -> {Idle} \cup Calls]
  BY <1>2, <1>5
<1> QED
  BY <1>1, <1>4, <1>6

\* A code with one column changed.
LEMMA Code_attempts ==
    ASSUME NEW c \in Codes, NEW n \in Nat
    PROVE  /\ [c EXCEPT !.attempts = n] \in Codes
           /\ [c EXCEPT !.attempts = n].attempts = n
           /\ [c EXCEPT !.attempts = n].user = c.user /\ [c EXCEPT !.attempts = n].purpose = c.purpose
           /\ [c EXCEPT !.attempts = n].consumed = c.consumed /\ [c EXCEPT !.attempts = n].guessed = c.guessed
           /\ [c EXCEPT !.attempts = n].spent = c.spent
  BY DEF Codes

LEMMA Code_guessed ==
    ASSUME NEW c \in Codes, NEW n \in Nat
    PROVE  /\ [c EXCEPT !.guessed = n] \in Codes
           /\ [c EXCEPT !.guessed = n].guessed = n
           /\ [c EXCEPT !.guessed = n].user = c.user /\ [c EXCEPT !.guessed = n].purpose = c.purpose
           /\ [c EXCEPT !.guessed = n].consumed = c.consumed /\ [c EXCEPT !.guessed = n].attempts = c.attempts
           /\ [c EXCEPT !.guessed = n].spent = c.spent
  BY DEF Codes

LEMMA Code_spent ==
    ASSUME NEW c \in Codes, NEW n \in Nat
    PROVE  /\ [c EXCEPT !.spent = n] \in Codes
           /\ [c EXCEPT !.spent = n].spent = n
           /\ [c EXCEPT !.spent = n].user = c.user /\ [c EXCEPT !.spent = n].purpose = c.purpose
           /\ [c EXCEPT !.spent = n].consumed = c.consumed /\ [c EXCEPT !.spent = n].attempts = c.attempts
           /\ [c EXCEPT !.spent = n].guessed = c.guessed
  BY DEF Codes

LEMMA Code_consumed ==
    ASSUME NEW c \in Codes, NEW b \in BOOLEAN
    PROVE  /\ [c EXCEPT !.consumed = b] \in Codes
           /\ [c EXCEPT !.consumed = b].consumed = b
           /\ [c EXCEPT !.consumed = b].user = c.user /\ [c EXCEPT !.consumed = b].purpose = c.purpose
           /\ [c EXCEPT !.consumed = b].attempts = c.attempts /\ [c EXCEPT !.consumed = b].guessed = c.guessed
           /\ [c EXCEPT !.consumed = b].spent = c.spent
  BY DEF Codes

LEMMA Code_delivered ==
    ASSUME NEW c \in Codes, NEW b \in BOOLEAN
    PROVE  /\ [c EXCEPT !.delivered = b] \in Codes
           /\ [c EXCEPT !.delivered = b].delivered = b
           /\ [c EXCEPT !.delivered = b].user = c.user /\ [c EXCEPT !.delivered = b].purpose = c.purpose
           /\ [c EXCEPT !.delivered = b].consumed = c.consumed /\ [c EXCEPT !.delivered = b].attempts = c.attempts
           /\ [c EXCEPT !.delivered = b].guessed = c.guessed /\ [c EXCEPT !.delivered = b].spent = c.spent
  BY DEF Codes

LEMMA Code_fresh ==
    ASSUME NEW c \in Codes, NEW b \in BOOLEAN
    PROVE  /\ [c EXCEPT !.fresh = b] \in Codes
           /\ [c EXCEPT !.fresh = b].fresh = b
           /\ [c EXCEPT !.fresh = b].user = c.user /\ [c EXCEPT !.fresh = b].purpose = c.purpose
           /\ [c EXCEPT !.fresh = b].consumed = c.consumed /\ [c EXCEPT !.fresh = b].attempts = c.attempts
           /\ [c EXCEPT !.fresh = b].guessed = c.guessed /\ [c EXCEPT !.fresh = b].spent = c.spent
  BY DEF Codes

LEMMA Code_expired ==
    ASSUME NEW c \in Codes, NEW b \in BOOLEAN
    PROVE  /\ [c EXCEPT !.expired = b] \in Codes
           /\ [c EXCEPT !.expired = b].expired = b
           /\ [c EXCEPT !.expired = b].user = c.user /\ [c EXCEPT !.expired = b].purpose = c.purpose
           /\ [c EXCEPT !.expired = b].consumed = c.consumed /\ [c EXCEPT !.expired = b].attempts = c.attempts
           /\ [c EXCEPT !.expired = b].guessed = c.guessed /\ [c EXCEPT !.expired = b].spent = c.spent
  BY DEF Codes

\* What of a code decides whether it is open and how often it was tried.
Trials(c) == <<c.consumed, c.attempts, c.guessed, c.spent>>

LEMMA CodeChanged ==
    ASSUME codes \in Seq(Codes), NEW k \in 1..Len(codes), NEW c \in Codes
    PROVE  /\ [codes EXCEPT ![k] = c] \in Seq(Codes) /\ Len([codes EXCEPT ![k] = c]) = Len(codes)
           /\ [codes EXCEPT ![k] = c][k] = c
           /\ \A j \in 1..Len(codes) : j # k => [codes EXCEPT ![k] = c][j] = codes[j]
  BY ExceptSeq

LEMMA CodeReplaced ==
    ASSUME codes \in Seq(Codes), NEW k \in 1..Len(codes), NEW c \in Codes, codes' = [codes EXCEPT ![k] = c]
    PROVE  /\ codes' \in Seq(Codes) /\ Len(codes') = Len(codes) /\ codes'[k] = c
           /\ \A j \in 1..Len(codes) : j # k => codes'[j] = codes[j]
  BY CodeChanged

\* A right guess and a wrong one, in the row of the code.
LEMMA CodeSpent ==
    ASSUME codes \in Seq(Codes), NEW k \in 1..Len(codes), NEW a \in Nat,
           codes' = [codes EXCEPT ![k].attempts = a, ![k].consumed = TRUE, ![k].spent = @ + 1]
    PROVE  /\ codes' \in Seq(Codes) /\ Len(codes') = Len(codes)
           /\ codes'[k].user = codes[k].user /\ codes'[k].purpose = codes[k].purpose
           /\ codes'[k].consumed /\ codes'[k].attempts = a /\ codes'[k].guessed = codes[k].guessed
           /\ codes'[k].spent = codes[k].spent + 1
           /\ \A j \in 1..Len(codes) : j # k => codes'[j] = codes[j]
<1> DEFINE c1 == [codes[k] EXCEPT !.attempts = a]
           c2 == [c1 EXCEPT !.consumed = TRUE]
           c3 == [c2 EXCEPT !.spent = c2.spent + 1]
<1>0. codes[k] \in Codes
  BY ElementOfSeq
<1>1. c1 \in Codes /\ c1.attempts = a /\ c1.user = codes[k].user /\ c1.purpose = codes[k].purpose
      /\ c1.guessed = codes[k].guessed /\ c1.spent = codes[k].spent
  BY <1>0, Code_attempts
<1>9. codes' = [codes EXCEPT ![k] = c3]
  BY <1>0, ElementOfSeq
<1> HIDE DEF c1
<1>2. c2 \in Codes /\ c2.consumed /\ c2.attempts = a /\ c2.user = codes[k].user /\ c2.purpose = codes[k].purpose
      /\ c2.guessed = codes[k].guessed /\ c2.spent = codes[k].spent
  BY <1>1, Code_consumed
<1>3. c2.spent + 1 \in Nat
  <2>1. codes[k].spent \in Nat /\ c2.spent = codes[k].spent
    BY <1>0, <1>2 DEF Codes
  <2> QED
    BY <2>1
<1> HIDE DEF c2
<1>4. c3 \in Codes /\ c3.consumed /\ c3.attempts = a /\ c3.user = codes[k].user /\ c3.purpose = codes[k].purpose
      /\ c3.guessed = codes[k].guessed /\ c3.spent = codes[k].spent + 1
  BY <1>2, <1>3, Code_spent
<1> HIDE DEF c3
<1>5. /\ codes' \in Seq(Codes) /\ Len(codes') = Len(codes) /\ codes'[k] = c3
      /\ \A j \in 1..Len(codes) : j # k => codes'[j] = codes[j]
  <2>1. c3 \in Codes
    BY <1>4
  <2> PICK row : row = c3
    OBVIOUS
  <2>2. row \in Codes /\ codes' = [codes EXCEPT ![k] = row]
    BY <1>9, <2>1
  <2>3. codes' \in Seq(Codes) /\ Len(codes') = Len(codes) /\ codes'[k] = row
    BY <2>2, CodeReplaced, Zenon
  <2>4. \A j \in 1..Len(codes) : j # k => codes'[j] = codes[j]
    BY <2>2, CodeReplaced, Zenon
  <2> QED
    BY <2>3, <2>4
<1> QED
  BY <1>4, <1>5

LEMMA CodeMissed ==
    ASSUME codes \in Seq(Codes), NEW k \in 1..Len(codes), NEW a \in Nat,
           codes' = [codes EXCEPT ![k].attempts = a, ![k].guessed = @ + 1]
    PROVE  /\ codes' \in Seq(Codes) /\ Len(codes') = Len(codes)
           /\ codes'[k].user = codes[k].user /\ codes'[k].purpose = codes[k].purpose
           /\ codes'[k].consumed = codes[k].consumed /\ codes'[k].attempts = a
           /\ codes'[k].guessed = codes[k].guessed + 1 /\ codes'[k].spent = codes[k].spent
           /\ \A j \in 1..Len(codes) : j # k => codes'[j] = codes[j]
<1> DEFINE c1 == [codes[k] EXCEPT !.attempts = a]
           c2 == [c1 EXCEPT !.guessed = c1.guessed + 1]
<1>0. codes[k] \in Codes
  BY ElementOfSeq
<1>1. c1 \in Codes /\ c1.attempts = a /\ c1.user = codes[k].user /\ c1.purpose = codes[k].purpose
      /\ c1.guessed = codes[k].guessed /\ c1.spent = codes[k].spent /\ c1.consumed = codes[k].consumed
  BY <1>0, Code_attempts
<1>9. codes' = [codes EXCEPT ![k] = c2]
  BY <1>0, ElementOfSeq
<1>2. c1.guessed + 1 \in Nat
  <2> HIDE DEF c1
  <2>1. c1.guessed \in Nat
    BY <1>1 DEF Codes
  <2> QED
    BY <2>1
<1> HIDE DEF c1
<1>3. c2 \in Codes /\ c2.attempts = a /\ c2.user = codes[k].user /\ c2.purpose = codes[k].purpose
      /\ c2.guessed = codes[k].guessed + 1 /\ c2.spent = codes[k].spent /\ c2.consumed = codes[k].consumed
  <2>1. c1 \in Codes
    BY <1>1
  <2>2. /\ c2 \in Codes /\ c2.guessed = c1.guessed + 1 /\ c2.user = c1.user /\ c2.purpose = c1.purpose
        /\ c2.consumed = c1.consumed /\ c2.attempts = c1.attempts /\ c2.spent = c1.spent
    BY <1>2, <2>1, Code_guessed
  <2> HIDE DEF c2
  <2> QED
    BY <1>1, <2>2
<1> HIDE DEF c2
<1>4. c2 \in Codes
  BY <1>3
<1>5. /\ codes' \in Seq(Codes) /\ Len(codes') = Len(codes) /\ codes'[k] = c2
      /\ \A j \in 1..Len(codes) : j # k => codes'[j] = codes[j]
  BY <1>4, <1>9, CodeReplaced, Zenon
<1> QED
  BY <1>3, <1>5, Zenon

\* A column that no trial reads.
LEMMA CodeMarked ==
    ASSUME codes \in Seq(Codes), NEW k \in 1..Len(codes), NEW b \in BOOLEAN,
           \/ codes' = [codes EXCEPT ![k].delivered = b]
           \/ codes' = [codes EXCEPT ![k].fresh = b]
           \/ codes' = [codes EXCEPT ![k].expired = b]
    PROVE  /\ codes' \in Seq(Codes) /\ Len(codes') = Len(codes)
           /\ \A j \in 1..Len(codes) : /\ codes'[j].user = codes[j].user /\ codes'[j].purpose = codes[j].purpose
                                       /\ Trials(codes'[j]) = Trials(codes[j])
<1>0. codes[k] \in Codes
  BY ElementOfSeq
<1>1. PICK c \in Codes : /\ codes' = [codes EXCEPT ![k] = c]
                         /\ c.user = codes[k].user /\ c.purpose = codes[k].purpose
                         /\ Trials(c) = Trials(codes[k])
  <2>1. CASE codes' = [codes EXCEPT ![k].delivered = b]
    BY <1>0, <2>1, Code_delivered DEF Trials
  <2>2. CASE codes' = [codes EXCEPT ![k].fresh = b]
    BY <1>0, <2>2, Code_fresh DEF Trials
  <2>3. CASE codes' = [codes EXCEPT ![k].expired = b]
    BY <1>0, <2>3, Code_expired DEF Trials
  <2> QED
    BY <2>1, <2>2, <2>3
<1> QED
  BY <1>1, CodeChanged

LEMMA CodeAppended ==
    ASSUME NEW s \in Seq(Codes), NEW c \in Codes, NEW t, t = Append(s, c)
    PROVE  /\ t \in Seq(Codes) /\ Len(t) = Len(s) + 1 /\ t[Len(s) + 1] = c
           /\ \A k \in 1..Len(s) : t[k] = s[k]
  BY AppendProperties

LEMMA CodeBefore ==
    ASSUME NEW s \in Seq(Codes), NEW c \in Codes, NEW t, t = Append(s, c), NEW k \in 1..Len(s)
    PROVE  t[k] = s[k]
  BY AppendProperties

\* A code is added, after those that were read have been consumed.
LEMMA CodeAdded ==
    ASSUME AccountTypeOK, NEW r \in Requests, CommitCode(r)
    PROVE  /\ codes' \in Seq(Codes) /\ Len(codes') = Len(codes) + 1
           /\ codes'[Len(codes) + 1] = NewCode(request[r].user, request[r].purpose)
           /\ \A k \in 1..Len(codes) :
                /\ codes'[k].user = codes[k].user /\ codes'[k].purpose = codes[k].purpose
                /\ codes'[k].attempts = codes[k].attempts /\ codes'[k].guessed = codes[k].guessed
                /\ codes'[k].spent = codes[k].spent
                /\ codes'[k].consumed <=> codes[k].consumed \/ k \in request[r].seen
<1> PICK ks : ks = request[r].seen
  OBVIOUS
<1>a. request[r] \in Calls
  BY ServedCall DEF CommitCode, Serving
<1> PICK e \in Emails : e = request[r].user
  BY <1>a DEF Calls
<1> PICK purpose \in Purposes : purpose = request[r].purpose
  BY <1>a DEF Calls
<1>b. codes \in Seq(Codes)
  BY DEF AccountTypeOK
<1> DEFINE spent(k) == [codes[k] EXCEPT !.consumed = codes[k].consumed \/ k \in ks]
           old == [k \in 1..Len(codes) |-> spent(k)]
<1>0. codes' = Append(old, NewCode(e, purpose))
  BY DEF CommitCode
<1>1. ASSUME NEW k \in 1..Len(codes)
      PROVE  /\ spent(k) \in Codes
             /\ spent(k).user = codes[k].user /\ spent(k).purpose = codes[k].purpose
             /\ spent(k).attempts = codes[k].attempts /\ spent(k).guessed = codes[k].guessed
             /\ spent(k).spent = codes[k].spent
             /\ spent(k).consumed = (codes[k].consumed \/ k \in ks)
  <2>1. codes[k] \in Codes
    BY <1>b, ElementOfSeq
  <2>2. (codes[k].consumed \/ k \in ks) \in BOOLEAN
    OBVIOUS
  <2> QED
    BY <2>1, <2>2, Code_consumed
<1> HIDE DEF spent
<1>2. Len(codes) \in Nat
  BY <1>b, LenProperties
<1>3. old \in Seq(Codes) /\ Len(old) = Len(codes) /\ \A k \in 1..Len(codes) : old[k] = spent(k)
  BY <1>1, <1>2, <1>b
<1>4. NewCode(e, purpose) \in Codes
  BY DEF NewCode, Codes
<1> HIDE DEF old
<1>5. /\ codes' \in Seq(Codes) /\ Len(codes') = Len(old) + 1
      /\ \A k \in 1..Len(old) : codes'[k] = old[k]
      /\ codes'[Len(old) + 1] = NewCode(e, purpose)
  <2>1. old \in Seq(Codes) /\ NewCode(e, purpose) \in Codes
    BY <1>3, <1>4
  <2> PICK new \in Codes : new = NewCode(e, purpose)
    BY <2>1
  <2> PICK s \in Seq(Codes) : s = old
    BY <2>1
  <2> PICK listed : listed = codes'
    OBVIOUS
  <2>2. listed = Append(s, new)
    BY <1>0
  <2>3. listed \in Seq(Codes) /\ Len(listed) = Len(s) + 1 /\ listed[Len(s) + 1] = new
    BY <2>2, CodeAppended
  <2>4. ASSUME NEW k \in 1..Len(s) PROVE listed[k] = s[k]
    BY <2>2, CodeBefore
  <2> QED
    BY <2>3, <2>4
<1>6. \A k \in 1..Len(codes) : codes'[k] = spent(k)
  BY <1>3, <1>5
<1>7. ASSUME NEW k \in 1..Len(codes)
      PROVE  /\ codes'[k].user = codes[k].user /\ codes'[k].purpose = codes[k].purpose
             /\ codes'[k].attempts = codes[k].attempts /\ codes'[k].guessed = codes[k].guessed
             /\ codes'[k].spent = codes[k].spent
  BY <1>1, <1>6
<1>8. ASSUME NEW k \in 1..Len(codes)
      PROVE  codes'[k].consumed <=> codes[k].consumed \/ k \in ks
  <2>1. codes'[k].consumed = (codes[k].consumed \/ k \in ks)
    BY <1>1, <1>6, Zenon
  <2> QED
    BY <2>1, Zenon
<1> QED
  BY <1>3, <1>5, <1>7, <1>8

\* One request steps; what it then points at is there.
RowsKept ==
    /\ account' \in [Emails -> Accounts]
    /\ codes' \in Seq(Codes) /\ Len(codes) <= Len(codes')
    /\ sessions' \in Seq([user : Emails, revoked : BOOLEAN]) /\ Len(sessions) <= Len(sessions')
    /\ revokedTokens' \subseteq 1..Len(sessions')
    /\ overlapped' \in BOOLEAN

LEMMA StepKeepsTypes ==
    ASSUME AccountTypeOK, NEW r \in Requests,
           request' \in [Requests -> {Idle} \cup Calls],
           \A q \in Requests \ {r} : request'[q] = request[q],
           RowsKept,
           request'[r].pc \in {"mailing", "verifying"} => request'[r].code \in 1..Len(codes'),
           request'[r].pc = "using" => request'[r].code \in 1..Len(sessions')
    PROVE  AccountTypeOK'
<1>1. ASSUME NEW q \in Requests
      PROVE  /\ request'[q].pc \in {"mailing", "verifying"} => request'[q].code \in 1..Len(codes')
             /\ request'[q].pc = "using" => request'[q].code \in 1..Len(sessions')
  <2>1. Len(codes) \in Nat /\ Len(codes') \in Nat /\ Len(sessions) \in Nat /\ Len(sessions') \in Nat
    BY LenProperties DEF AccountTypeOK, RowsKept
  <2>2. CASE q = r
    BY <2>2
  <2>3. CASE q # r
    <3>1. request'[q] = request[q]
      BY <2>3
    <3>2. /\ request[q].pc \in {"mailing", "verifying"} => request[q].code \in 1..Len(codes)
          /\ request[q].pc = "using" => request[q].code \in 1..Len(sessions)
      BY DEF AccountTypeOK
    <3>3. Len(codes) <= Len(codes') /\ Len(sessions) <= Len(sessions')
      BY DEF RowsKept
    <3> QED
      BY <2>1, <3>1, <3>2, <3>3
  <2> QED
    BY <2>2, <2>3
<1> QED
  BY <1>1 DEF AccountTypeOK, RowsKept

LEMMA OpenKeepsTypes ==
    ASSUME AccountTypeOK, NEW r \in Requests, NEW e \in Emails, NEW work \in Calls, Open(r, e, work),
           UNCHANGED <<account, codes, sessions, revokedTokens>>,
           work.pc \in {"mailing", "verifying"} => work.code \in 1..Len(codes),
           work.pc = "using" => work.code \in 1..Len(sessions)
    PROVE  AccountTypeOK'
<1>1. /\ request' \in [Requests -> {Idle} \cup Calls] /\ overlapped' \in BOOLEAN
      /\ request'[r] = work
      /\ \A q \in Requests \ {r} : request'[q] = request[q]
  BY Opened
<1>2. Len(codes) \in Nat /\ Len(sessions) \in Nat
  BY LenProperties DEF AccountTypeOK
<1>3. RowsKept
  BY <1>1, <1>2 DEF AccountTypeOK, RowsKept
<1> QED
  BY <1>1, <1>2, <1>3, StepKeepsTypes

LEMMA CloseKeepsTypes ==
    ASSUME AccountTypeOK, NEW r \in Requests, Close(r), RowsKept
    PROVE  AccountTypeOK'
<1>1. /\ request' \in [Requests -> {Idle} \cup Calls]
      /\ request'[r] = Idle
      /\ \A q \in Requests \ {r} : request'[q] = request[q]
  BY Closed
<1>2. Idle.pc = "idle"
  BY IdleIsNone
<1> QED
  BY <1>1, <1>2, StepKeepsTypes

LEMMA NumberOfRows ==
    ASSUME AccountTypeOK
    PROVE  /\ Len(codes) \in Nat /\ Len(sessions) \in Nat
           /\ codes \in Seq(Codes) /\ sessions \in Seq([user : Emails, revoked : BOOLEAN])
           /\ \A k \in 1..Len(codes) : codes[k] \in Codes
           /\ \A s \in 1..Len(sessions) : sessions[s] \in [user : Emails, revoked : BOOLEAN]
<1>1. codes \in Seq(Codes) /\ sessions \in Seq([user : Emails, revoked : BOOLEAN])
  BY DEF AccountTypeOK
<1> QED
  BY <1>1, LenProperties, ElementOfSeq

LEMMA RowsStay ==
    ASSUME AccountTypeOK, UNCHANGED <<account, codes, sessions, revokedTokens, overlapped>>
    PROVE  RowsKept
<1>1. Len(codes) \in Nat /\ Len(sessions) \in Nat
  BY NumberOfRows
<1> QED
  BY <1>1 DEF RowsKept, AccountTypeOK

\* The session a revocation marks, and the one that is issued.
LEMMA SessionsAfter ==
    ASSUME AccountTypeOK
    PROVE  /\ \A s \in 1..Len(sessions) : Revoke(s) =>
                 /\ sessions' \in Seq([user : Emails, revoked : BOOLEAN]) /\ Len(sessions') = Len(sessions)
                 /\ revokedTokens' \subseteq 1..Len(sessions)
                 /\ \A t \in 1..Len(sessions) : sessions'[t].user = sessions[t].user
                 /\ RevocationsAgree => \A t \in 1..Len(sessions) : sessions'[t].revoked <=> t \in revokedTokens'
           /\ \A e \in Emails : sessions' = Append(sessions, [user |-> e, revoked |-> FALSE]) =>
                 /\ sessions' \in Seq([user : Emails, revoked : BOOLEAN]) /\ Len(sessions') = Len(sessions) + 1
                 /\ sessions'[Len(sessions) + 1] = [user |-> e, revoked |-> FALSE]
                 /\ \A t \in 1..Len(sessions) : sessions'[t] = sessions[t]
<1> DEFINE Rows == [user : Emails, revoked : BOOLEAN]
<1>0. sessions \in Seq(Rows) /\ Len(sessions) \in Nat
  BY NumberOfRows
<1>1. ASSUME NEW s \in 1..Len(sessions), Revoke(s)
      PROVE  /\ sessions' \in Seq(Rows) /\ Len(sessions') = Len(sessions)
             /\ revokedTokens' \subseteq 1..Len(sessions)
             /\ \A t \in 1..Len(sessions) : sessions'[t].user = sessions[t].user
             /\ RevocationsAgree => \A t \in 1..Len(sessions) : sessions'[t].revoked <=> t \in revokedTokens'
  <2>1. CASE s \in revokedTokens
    BY <1>0, <1>1, <2>1 DEF Revoke, AccountTypeOK, RevocationsAgree
  <2>2. CASE s \notin revokedTokens
    <3> PICK row : row = [sessions[s] EXCEPT !.revoked = TRUE]
      OBVIOUS
    <3>1. sessions[s] \in Rows
      BY <1>0, ElementOfSeq
    <3>2. row \in Rows /\ row.user = sessions[s].user /\ row.revoked = TRUE
      BY <3>1
    <3>3. sessions' = [sessions EXCEPT ![s] = row] /\ revokedTokens' = revokedTokens \cup {s}
      BY <1>1, <2>2 DEF Revoke
    <3>4. /\ sessions' \in Seq(Rows) /\ Len(sessions') = Len(sessions)
          /\ \A t \in 1..Len(sessions) : sessions'[t] = IF t = s THEN row ELSE sessions[t]
      BY <1>0, <3>2, <3>3, ExceptSeq
    <3>5. revokedTokens' \subseteq 1..Len(sessions)
      BY <3>3 DEF AccountTypeOK
    <3>6. ASSUME NEW t \in 1..Len(sessions) PROVE sessions'[t].user = sessions[t].user
      BY <3>2, <3>4
    <3>7. ASSUME RevocationsAgree, NEW t \in 1..Len(sessions) PROVE sessions'[t].revoked <=> t \in revokedTokens'
      BY <3>2, <3>3, <3>4, <3>7 DEF RevocationsAgree
    <3> QED
      BY <3>4, <3>5, <3>6, <3>7
  <2> QED
    BY <2>1, <2>2
<1>2. ASSUME NEW e \in Emails, sessions' = Append(sessions, [user |-> e, revoked |-> FALSE])
      PROVE  /\ sessions' \in Seq(Rows) /\ Len(sessions') = Len(sessions) + 1
             /\ sessions'[Len(sessions) + 1] = [user |-> e, revoked |-> FALSE]
             /\ \A t \in 1..Len(sessions) : sessions'[t] = sessions[t]
  <2> PICK row \in Rows : row = [user |-> e, revoked |-> FALSE]
    OBVIOUS
  <2>1. sessions' = Append(sessions, row)
    BY <1>2
  <2>2. /\ sessions' \in Seq(Rows) /\ Len(sessions') = Len(sessions) + 1
        /\ sessions'[Len(sessions) + 1] = row
        /\ \A t \in 1..Len(sessions) : sessions'[t] = sessions[t]
    BY <1>0, <2>1, AppendProperties
  <2> QED
    BY <2>2
<1> QED
  BY <1>1, <1>2


\* The code that is taken to be verified.
LEMMA VerifiedCode ==
    ASSUME AccountTypeOK, NEW e \in Emails, NEW purpose \in Purposes, Usable(Newest(Unused(e, purpose)))
    PROVE  /\ Newest(Unused(e, purpose)) \in Unused(e, purpose)
           /\ Newest(Unused(e, purpose)) \in 1..Len(codes)
<1>1. Unused(e, purpose) # {}
  BY DEF Usable, Newest
<1>2. Unused(e, purpose) \in SUBSET (1..Len(codes))
  BY DEF Unused
<1>3. Len(codes) \in Nat
  BY NumberOfRows
<1> QED
  BY <1>1, <1>2, <1>3, NewestIsOne

LEMMA NewCodeIs ==
    ASSUME NEW e \in Emails, NEW purpose \in Purposes
    PROVE  /\ NewCode(e, purpose) \in Codes
           /\ NewCode(e, purpose).user = e /\ NewCode(e, purpose).purpose = purpose
           /\ ~NewCode(e, purpose).consumed /\ NewCode(e, purpose).attempts = 0
           /\ NewCode(e, purpose).guessed = 0 /\ NewCode(e, purpose).spent = 0
  BY DEF NewCode, Codes

\* The row of users a signup adds, a sign-in with Google adds, a right code activates.
LEMMA AccountRows ==
    ASSUME account \in [Emails -> Accounts], NEW e \in Emails
    PROVE  /\ \A row \in Accounts : account' = [account EXCEPT ![e] = row] =>
                 /\ account' \in [Emails -> Accounts] /\ account'[e] = row
                 /\ \A d \in Emails \ {e} : account'[d] = account[d]
           /\ account' = [account EXCEPT ![e].status = "active", ![e].verified = TRUE] =>
                 /\ account' \in [Emails -> Accounts]
                 /\ account'[e].status = "active" /\ account'[e].verified
                 /\ account'[e].provider = account[e].provider
                 /\ \A d \in Emails \ {e} : account'[d] = account[d]
<1>1. ASSUME NEW row \in Accounts, account' = [account EXCEPT ![e] = row]
      PROVE  /\ account' \in [Emails -> Accounts] /\ account'[e] = row
             /\ \A d \in Emails \ {e} : account'[d] = account[d]
  BY <1>1
<1>2. ASSUME account' = [account EXCEPT ![e].status = "active", ![e].verified = TRUE]
      PROVE  /\ account' \in [Emails -> Accounts]
             /\ account'[e].status = "active" /\ account'[e].verified
             /\ account'[e].provider = account[e].provider
             /\ \A d \in Emails \ {e} : account'[d] = account[d]
  <2> DEFINE a1 == [account[e] EXCEPT !.status = "active"]
             a2 == [a1 EXCEPT !.verified = TRUE]
  <2>1. account' = [account EXCEPT ![e] = a2]
    BY <1>2
  <2>2. account[e] \in Accounts
    OBVIOUS
  <2>3. a1 \in Accounts /\ a1.status = "active" /\ a1.provider = account[e].provider
    BY <2>2 DEF Accounts
  <2> HIDE DEF a1
  <2>4. a2 \in Accounts /\ a2.status = "active" /\ a2.provider = account[e].provider
    BY <2>3 DEF Accounts
  <2>5. a2.verified = TRUE
    BY <2>3 DEF Accounts
  <2> HIDE DEF a2
  <2>6. account' \in [Emails -> Accounts] /\ account'[e] = a2 /\ \A d \in Emails \ {e} : account'[d] = account[d]
    BY <2>1, <2>4, <1>1
  <2> QED
    BY <2>4, <2>5, <2>6
<1> QED
  BY <1>1, <1>2

\* What a verification, once begun, goes by.
LEMMA VerifyBegun ==
    ASSUME AccountTypeOK, NEW r \in Requests, NEW e \in Emails, NEW purpose \in Purposes,
           NEW typed \in {0} \cup Unused(e, purpose), BeginVerify(r, e, purpose, typed)
    PROVE  \E code \in Unused(e, purpose), work \in Calls :
             /\ code \in 1..Len(codes) /\ Usable(code)
             /\ Open(r, e, work)
             /\ work.pc = "verifying" /\ work.user = e /\ work.purpose = purpose /\ work.code = code
             /\ work.attempts = codes[code].attempts + 1
<1>0. Len(codes) \in Nat
  BY NumberOfRows
<1> PICK code : code = Newest(Unused(e, purpose))
  OBVIOUS
<1> PICK a : a = codes[code].attempts + 1
  OBVIOUS
<1> PICK work : work = Guessing(e, purpose, code, typed, a)
  OBVIOUS
<1>1. Usable(code) /\ Open(r, e, work)
  BY DEF BeginVerify, Guessing
<1>2. code \in Unused(e, purpose) /\ code \in 1..Len(codes)
  BY <1>1, VerifiedCode
<1>3. a \in Nat /\ typed \in Nat /\ code \in Nat
  <2>1. codes[code] \in Codes
    BY <1>2, NumberOfRows
  <2>2. codes[code].attempts \in Nat
    BY <2>1 DEF Codes
  <2>3. typed \in Nat
    BY <1>0 DEF Unused
  <2> QED
    BY <1>0, <1>2, <2>2, <2>3
<1>4. /\ work \in Calls /\ work.pc = "verifying" /\ work.user = e /\ work.purpose = purpose
      /\ work.code = code /\ work.attempts = a
  BY <1>3, CallVerifies
<1> QED
  BY <1>1, <1>2, <1>4

\* What a request that begins to verify a code is, whichever code it is.
LEMMA VerifyOpens ==
    ASSUME AccountTypeOK, NEW r \in Requests, NEW e \in Emails, NEW purpose \in Purposes,
           NEW typed \in {0} \cup Unused(e, purpose), BeginVerify(r, e, purpose, typed)
    PROVE  \E work \in Calls :
              Open(r, e, work) /\ work.pc = "verifying" /\ work.user = e /\ work.purpose = purpose
<1> PICK code \in Unused(e, purpose), work \in Calls :
         /\ code \in 1..Len(codes) /\ Usable(code)
         /\ Open(r, e, work)
         /\ work.pc = "verifying" /\ work.user = e /\ work.purpose = purpose /\ work.code = code
         /\ work.attempts = codes[code].attempts + 1
  BY VerifyBegun
<1> QED
  OBVIOUS

\* One step of a request, or of time, keeps every row and every call what it should be.
LEMMA BeginningKeepsTypes ==
    ASSUME AccountTypeOK, NEW r \in Requests, NEW e \in Emails,
           \/ BeginSignup(r, e) \/ BeginGoogle(r, e)
           \/ \E provider \in {"password", "google"} : Enter(r, e, provider)
           \/ \E purpose \in Purposes : BeginCode(r, e, purpose)
           \/ \E purpose \in Purposes : \E typed \in {0} \cup Unused(e, purpose) : BeginVerify(r, e, purpose, typed)
    PROVE  AccountTypeOK'
<1>0. Len(codes) \in Nat
  BY NumberOfRows
<1>1. ASSUME NEW p \in {"signing up", "joining", "issuing"},
             Open(r, e, [Idle EXCEPT !.pc = p, !.user = e]),
             UNCHANGED <<account, codes, sessions, revokedTokens>>
      PROVE  AccountTypeOK'
  <2>1. p \in Stages
    BY DEF Stages
  <2>2. Entering(p, e) \in Calls /\ Entering(p, e).pc = p
    BY <2>1, CallBegins
  <2>3. Open(r, e, Entering(p, e))
    BY <1>1 DEF Entering
  <2> QED
    BY <1>1, <2>2, <2>3, OpenKeepsTypes
<1>2. CASE BeginSignup(r, e)
  BY <1>1, <1>2 DEF BeginSignup
<1>3. CASE BeginGoogle(r, e)
  BY <1>1, <1>3 DEF BeginGoogle
<1>4. ASSUME NEW provider \in {"password", "google"}, Enter(r, e, provider)
      PROVE  AccountTypeOK'
  BY <1>1, <1>4 DEF Enter
<1>5. ASSUME NEW purpose \in Purposes, BeginCode(r, e, purpose)
      PROVE  AccountTypeOK'
  <2> PICK unused : unused = Unused(e, purpose)
    OBVIOUS
  <2>1. unused \in SUBSET Nat
    BY <1>0 DEF Unused
  <2>2. Asking(e, purpose, unused) \in Calls /\ Asking(e, purpose, unused).pc = "requesting"
    BY <2>1, CallRequests
  <2>3. Open(r, e, Asking(e, purpose, unused)) /\ UNCHANGED <<account, codes, sessions, revokedTokens>>
    BY <1>5 DEF BeginCode, Asking
  <2> QED
    BY <2>2, <2>3, OpenKeepsTypes
<1>6. ASSUME NEW purpose \in Purposes, NEW typed \in {0} \cup Unused(e, purpose), BeginVerify(r, e, purpose, typed)
      PROVE  AccountTypeOK'
  <2>1. PICK code \in 1..Len(codes), work \in Calls :
           Open(r, e, work) /\ work.pc = "verifying" /\ work.code = code
    BY <1>6, VerifyBegun
  <2>2. UNCHANGED <<account, codes, sessions, revokedTokens>>
    BY <1>6 DEF BeginVerify
  <2> QED
    BY <2>1, <2>2, OpenKeepsTypes
<1> QED
  BY <1>2, <1>3, <1>4, <1>5, <1>6

LEMMA CommitKeepsTypes ==
    ASSUME AccountTypeOK, NEW r \in Requests,
           \/ CommitSignup(r) \/ CommitGoogle(r) \/ CommitCode(r) \/ CommitVerify(r)
           \/ \E ok \in BOOLEAN : Deliver(r, ok) \/ Issue(r, ok)
    PROVE  AccountTypeOK'
<1>0. Len(codes) \in Nat /\ Len(sessions) \in Nat /\ codes \in Seq(Codes)
      /\ sessions \in Seq([user : Emails, revoked : BOOLEAN])
  BY NumberOfRows
<1>1. request[r] \in Calls /\ request[r].user \in Emails /\ request[r].purpose \in Purposes
  <2>1. request[r].pc # "idle"
    BY DEF CommitSignup, CommitGoogle, CommitCode, CommitVerify, Deliver, Issue, Serving
  <2>2. request[r] \in Calls
    BY <2>1, ServedCall
  <2> QED
    BY <2>2, SMTT(30) DEF Calls
<1>2. account \in [Emails -> Accounts] /\ revokedTokens \subseteq 1..Len(sessions) /\ overlapped \in BOOLEAN
  BY DEF AccountTypeOK
<1>3. Signup \in Purposes /\ "issuing" \in Stages /\ "mailing" \in Stages
  BY DEF Purposes, Stages
<1> PICK e \in Emails : e = request[r].user
  BY <1>1
<1>4. CASE CommitSignup(r)
  <2>1. CASE account[e] = NoAccount
    <3>1. PICK row \in Accounts : row = [status |-> "pending", provider |-> "password", verified |-> FALSE]
      BY DEF Accounts
    <3>2. /\ account' = [account EXCEPT ![e] = row]
          /\ codes' = Append(codes, NewCode(e, Signup))
          /\ request' = [request EXCEPT ![r].pc = "mailing", ![r].code = Len(codes) + 1]
          /\ UNCHANGED <<sessions, revokedTokens, overlapped>>
      BY <1>4, <2>1, <3>1 DEF CommitSignup
    <3>3. account' \in [Emails -> Accounts]
      BY <1>2, <3>2, AccountRows
    <3>4. NewCode(e, Signup) \in Codes
      BY <1>3, NewCodeIs
    <3>5. codes' \in Seq(Codes) /\ Len(codes') = Len(codes) + 1
      BY <1>0, <3>2, <3>4, CodeAppended
    <3>6. /\ request' \in [Requests -> {Idle} \cup Calls]
          /\ request'[r].pc = "mailing" /\ request'[r].code = Len(codes) + 1
          /\ \A q \in Requests \ {r} : request'[q] = request[q]
      <4> PICK n \in Nat : n = Len(codes) + 1
        BY <1>0
      <4>1. request' = [request EXCEPT ![r].pc = "mailing", ![r].code = n]
        BY <3>2
      <4> QED
        BY <1>1, <4>1, MailsNext
    <3>7. RowsKept
      BY <1>0, <1>2, <3>2, <3>3, <3>5 DEF RowsKept
    <3>8. Len(codes) + 1 \in 1..Len(codes')
      BY <1>0, <3>5
    <3> QED
      BY <3>6, <3>7, <3>8, StepKeepsTypes
  <2>2. CASE account[e] # NoAccount
    <3>1. Close(r) /\ UNCHANGED <<account, codes, sessions, revokedTokens, overlapped>>
      BY <1>4, <2>2 DEF CommitSignup
    <3> QED
      BY <3>1, RowsStay, CloseKeepsTypes
  <2> QED
    BY <2>1, <2>2
<1>5. CASE CommitGoogle(r)
  <2>1. CASE account[e] = NoAccount
    <3>1. PICK row \in Accounts : row = [status |-> "active", provider |-> "google", verified |-> TRUE]
      BY DEF Accounts
    <3>2. /\ account' = [account EXCEPT ![e] = row]
          /\ request' = [request EXCEPT ![r].pc = "issuing"]
          /\ UNCHANGED <<codes, sessions, revokedTokens, overlapped>>
      BY <1>5, <2>1, <3>1 DEF CommitGoogle
    <3>3. account' \in [Emails -> Accounts]
      BY <1>2, <3>2, AccountRows
    <3>4. /\ request' \in [Requests -> {Idle} \cup Calls] /\ request'[r].pc = "issuing"
          /\ \A q \in Requests \ {r} : request'[q] = request[q]
      BY <1>1, <1>3, <3>2, GoesOn
    <3>5. RowsKept
      BY <1>0, <1>2, <3>2, <3>3 DEF RowsKept
    <3> QED
      BY <3>4, <3>5, StepKeepsTypes
  <2>2. CASE account[e] # NoAccount
    <3>1. Close(r) /\ UNCHANGED <<account, codes, sessions, revokedTokens, overlapped>>
      BY <1>5, <2>2 DEF CommitGoogle
    <3> QED
      BY <3>1, RowsStay, CloseKeepsTypes
  <2> QED
    BY <2>1, <2>2
<1>6. CASE CommitCode(r)
  <2>1. /\ request' = [request EXCEPT ![r].pc = "mailing", ![r].code = Len(codes) + 1]
        /\ UNCHANGED <<account, sessions, revokedTokens, overlapped>>
    BY <1>6 DEF CommitCode
  <2>2. codes' \in Seq(Codes) /\ Len(codes') = Len(codes) + 1
    BY <1>6, CodeAdded
  <2>3. /\ request' \in [Requests -> {Idle} \cup Calls]
        /\ request'[r].pc = "mailing" /\ request'[r].code = Len(codes) + 1
        /\ \A q \in Requests \ {r} : request'[q] = request[q]
    <3> PICK n \in Nat : n = Len(codes) + 1
      BY <1>0
    <3>1. request' = [request EXCEPT ![r].pc = "mailing", ![r].code = n]
      BY <2>1
    <3> QED
      BY <1>1, <3>1, MailsNext
  <2>4. UNCHANGED <<account, sessions, revokedTokens, overlapped>>
    BY <2>1
  <2>5. RowsKept
    BY <1>0, <1>2, <2>2, <2>4 DEF RowsKept
  <2>6. Len(codes) + 1 \in 1..Len(codes')
    BY <1>0, <2>2
  <2> QED
    BY <2>3, <2>5, <2>6, StepKeepsTypes
<1>7. CASE CommitVerify(r)
  <2>1. Serving(r, "verifying") /\ UNCHANGED <<sessions, revokedTokens, overlapped>>
    BY <1>7 DEF CommitVerify
  <2> PICK k : k = request[r].code
    OBVIOUS
  <2>2. k \in 1..Len(codes)
    BY <2>1 DEF AccountTypeOK, Serving
  <2> PICK a \in Nat : a = request[r].attempts
    BY <1>1 DEF Calls
  <2>3. CASE request[r].typed # k
    <3>1. /\ codes' = [codes EXCEPT ![k].attempts = a, ![k].guessed = @ + 1]
          /\ Close(r) /\ UNCHANGED account
      BY <1>7, <2>3, SMTT(30) DEF CommitVerify
    <3>2. codes' \in Seq(Codes) /\ Len(codes') = Len(codes)
      BY <1>0, <2>2, <3>1, CodeMissed
    <3>3. RowsKept
      BY <1>0, <1>2, <2>1, <3>1, <3>2 DEF RowsKept
    <3> QED
      BY <3>1, <3>3, CloseKeepsTypes
  <2>4. CASE request[r].typed = k
    <3>1. /\ codes' = [codes EXCEPT ![k].attempts = a, ![k].consumed = TRUE, ![k].spent = @ + 1]
          /\ account' = IF request[r].purpose = Signup
                        THEN [account EXCEPT ![e].status = "active", ![e].verified = TRUE]
                        ELSE account
          /\ request' = [request EXCEPT ![r].pc = "issuing"]
      BY <1>7, <2>4, SMTT(30) DEF CommitVerify
    <3>2. codes' \in Seq(Codes) /\ Len(codes') = Len(codes)
      BY <1>0, <2>2, <3>1, CodeSpent
    <3>3. account' \in [Emails -> Accounts]
      <4>1. account' = account \/ account' = [account EXCEPT ![e].status = "active", ![e].verified = TRUE]
        BY <3>1
      <4> QED
        BY <1>2, <4>1, AccountRows
    <3>4. /\ request' \in [Requests -> {Idle} \cup Calls] /\ request'[r].pc = "issuing"
          /\ \A q \in Requests \ {r} : request'[q] = request[q]
      BY <1>1, <1>3, <3>1, GoesOn
    <3>5. RowsKept
      BY <1>0, <1>2, <2>1, <3>2, <3>3 DEF RowsKept
    <3> QED
      BY <3>4, <3>5, StepKeepsTypes
  <2> QED
    BY <2>3, <2>4
<1>8. ASSUME NEW sent \in BOOLEAN, Deliver(r, sent) PROVE AccountTypeOK'
  <2>1. Serving(r, "mailing") /\ Close(r) /\ UNCHANGED <<account, sessions, revokedTokens, overlapped>>
    BY <1>8 DEF Deliver
  <2>2. request[r].code \in 1..Len(codes)
    BY <2>1 DEF AccountTypeOK, Serving
  <2>3. codes' \in Seq(Codes) /\ Len(codes') = Len(codes)
    <3>1. codes' = codes \/ codes' = [codes EXCEPT ![request[r].code].delivered = TRUE]
      BY <1>8 DEF Deliver
    <3> QED
      BY <1>0, <2>2, <3>1, CodeMarked
  <2>4. RowsKept
    BY <1>0, <1>2, <2>1, <2>3 DEF RowsKept
  <2> QED
    BY <2>1, <2>4, CloseKeepsTypes
<1>9. ASSUME NEW stored \in BOOLEAN, Issue(r, stored) PROVE AccountTypeOK'
  <2>1. Close(r) /\ UNCHANGED <<account, codes, revokedTokens, overlapped>>
    BY <1>9 DEF Issue
  <2>2. sessions' = sessions \/ sessions' = Append(sessions, [user |-> e, revoked |-> FALSE])
    BY <1>9 DEF Issue
  <2>3. sessions' \in Seq([user : Emails, revoked : BOOLEAN]) /\ Len(sessions) <= Len(sessions')
    <3>1. CASE sessions' = sessions
      BY <1>0, <3>1
    <3>2. CASE sessions' = Append(sessions, [user |-> e, revoked |-> FALSE])
      BY <1>0, <3>2, SessionsAfter
    <3> QED
      BY <2>2, <3>1, <3>2
  <2>4. Len(sessions') \in Nat
    BY <2>3, LenProperties
  <2>5. revokedTokens' \subseteq 1..Len(sessions')
    BY <1>0, <1>2, <2>1, <2>3, <2>4
  <2>6. RowsKept
    BY <1>0, <1>2, <2>1, <2>3, <2>5 DEF RowsKept
  <2> QED
    BY <2>1, <2>6, CloseKeepsTypes
<1> QED
  BY <1>4, <1>5, <1>6, <1>7, <1>8, <1>9

LEMMA UseKeepsTypes ==
    ASSUME AccountTypeOK, NEW r \in Requests,
           \/ \E s \in 1..Len(sessions) : Access(r, s) \/ RevokeOther(r, s)
           \/ Logout(r) \/ BeginSettings(r) \/ Leave(r)
           \/ \E fs \in (SUBSET Fields) \ {{}} : \E new \in [fs -> Values] : CommitSettings(r, fs, new)
    PROVE  AccountTypeOK'
<1>0. Len(codes) \in Nat /\ Len(sessions) \in Nat /\ codes \in Seq(Codes)
      /\ sessions \in Seq([user : Emails, revoked : BOOLEAN])
      /\ \A s \in 1..Len(sessions) : sessions[s] \in [user : Emails, revoked : BOOLEAN]
  BY NumberOfRows
<1>1. revokedTokens \subseteq 1..Len(sessions)
  BY DEF AccountTypeOK
<1>2. ASSUME NEW s \in 1..Len(sessions), Access(r, s) PROVE AccountTypeOK'
  <2> PICK e \in Emails : e = sessions[s].user
    BY <1>0
  <2>1. Using(e, s) \in Calls /\ Using(e, s).pc = "using" /\ Using(e, s).code = s
    BY <1>0, CallNames
  <2>2. Open(r, e, Using(e, s)) /\ UNCHANGED <<account, codes, sessions, revokedTokens>>
    BY <1>2 DEF Access, Using
  <2> QED
    BY <2>1, <2>2, OpenKeepsTypes
<1>3. ASSUME NEW s \in 1..Len(sessions), Revoke(s), Close(r), UNCHANGED <<account, codes, overlapped>>
      PROVE  AccountTypeOK'
  <2>1. /\ sessions' \in Seq([user : Emails, revoked : BOOLEAN]) /\ Len(sessions') = Len(sessions)
        /\ revokedTokens' \subseteq 1..Len(sessions)
    BY <1>3, SessionsAfter
  <2>2. account \in [Emails -> Accounts] /\ overlapped \in BOOLEAN
    BY DEF AccountTypeOK
  <2>3. RowsKept
    BY <1>0, <1>3, <2>1, <2>2 DEF RowsKept
  <2> QED
    BY <1>3, <2>3, CloseKeepsTypes
<1>4. ASSUME NEW s \in 1..Len(sessions), RevokeOther(r, s) PROVE AccountTypeOK'
  BY <1>3, <1>4 DEF RevokeOther
<1>5. CASE Logout(r)
  <2>1. request[r].code \in 1..Len(sessions)
    BY <1>5 DEF Logout, Serving, AccountTypeOK
  <2> QED
    BY <1>3, <1>5, <2>1 DEF Logout
<1>6. CASE BeginSettings(r)
  <2>1. PICK p \in {"updating", "creating"} : request' = [request EXCEPT ![r].pc = p]
    BY <1>6 DEF BeginSettings
  <2>2. request[r] \in Calls /\ p \in Stages
    <3>1. request[r].pc # "idle"
      BY <1>6 DEF BeginSettings, Serving
    <3> QED
      BY <3>1, ServedCall DEF Stages
  <2>3. /\ request' \in [Requests -> {Idle} \cup Calls] /\ request'[r].pc = p
        /\ \A q \in Requests \ {r} : request'[q] = request[q]
    BY <2>1, <2>2, GoesOn
  <2>4. UNCHANGED <<account, codes, sessions, revokedTokens, overlapped>>
    BY <1>6 DEF BeginSettings
  <2>5. RowsKept
    BY <2>4, RowsStay
  <2> QED
    BY <2>3, <2>5, StepKeepsTypes
<1>7. CASE Leave(r) \/ \E fs \in (SUBSET Fields) \ {{}} : \E new \in [fs -> Values] : CommitSettings(r, fs, new)
  <2>1. Close(r) /\ UNCHANGED <<account, codes, sessions, revokedTokens, overlapped>>
    BY <1>7 DEF Leave, CommitSettings
  <2> QED
    BY <2>1, RowsStay, CloseKeepsTypes
<1> QED
  BY <1>2, <1>4, <1>5, <1>6, <1>7

\* A code cools or expires: nothing that is decided by it changes.
LEMMA TimePasses ==
    ASSUME AccountTypeOK, Time
    PROVE  /\ codes' \in Seq(Codes) /\ Len(codes') = Len(codes)
           /\ \A j \in 1..Len(codes) : /\ codes'[j].user = codes[j].user /\ codes'[j].purpose = codes[j].purpose
                                       /\ Trials(codes'[j]) = Trials(codes[j])
           /\ UNCHANGED <<account, sessions, revokedTokens, settingsVars, request, overlapped>>
<1>1. codes \in Seq(Codes)
  BY DEF AccountTypeOK
<1>2. PICK k \in 1..Len(codes) : Cool(k) \/ Expire(k)
  BY DEF Time
<1>3. codes' = [codes EXCEPT ![k].fresh = FALSE] \/ codes' = [codes EXCEPT ![k].expired = TRUE]
  BY <1>2 DEF Cool, Expire
<1>4. UNCHANGED <<account, sessions, revokedTokens, settingsVars, request, overlapped>>
  BY DEF Time
<1> QED
  BY <1>1, <1>3, <1>4, CodeMarked

\* The accounts, the codes and the sessions keep their types: a request that waits
\* names a code or a session there is.
THEOREM AccountTypeCorrect == AccountSpec => []AccountTypeOK
<1>1. AccountInit => AccountTypeOK
  <2> SUFFICES ASSUME AccountInit PROVE AccountTypeOK
    OBVIOUS
  <2>1. NoAccount \in Accounts
    BY DEF NoAccount, Accounts
  <2>2. account \in [Emails -> Accounts] /\ codes \in Seq(Codes) /\ sessions \in Seq([user : Emails, revoked : BOOLEAN])
    BY <2>1 DEF AccountInit
  <2>3. \A r \in Requests : request[r] = Idle /\ request[r].pc = "idle"
    BY IdleIsNone DEF AccountInit
  <2>4. request \in [Requests -> {Idle} \cup Calls] /\ overlapped \in BOOLEAN /\ revokedTokens \subseteq 1..Len(sessions)
    BY DEF AccountInit
  <2> QED
    BY <2>2, <2>3, <2>4 DEF AccountTypeOK
<1>2. AccountTypeOK /\ [AccountNext]_accountVars => AccountTypeOK'
  <2> SUFFICES ASSUME AccountTypeOK, [AccountNext]_accountVars PROVE AccountTypeOK'
    OBVIOUS
  <2>1. ASSUME NEW r \in Requests, NEW e \in Emails,
               \/ BeginSignup(r, e) \/ BeginGoogle(r, e)
               \/ \E provider \in {"password", "google"} : Enter(r, e, provider)
               \/ \E purpose \in {Signup, Login} :
                    \/ BeginCode(r, e, purpose)
                    \/ \E typed \in {0} \cup Unused(e, purpose) : BeginVerify(r, e, purpose, typed)
        PROVE  AccountTypeOK'
    BY <2>1, BeginningKeepsTypes DEF Purposes
  <2>2. ASSUME NEW r \in Requests,
               \/ CommitSignup(r) \/ CommitGoogle(r) \/ CommitCode(r) \/ CommitVerify(r)
               \/ \E ok \in BOOLEAN : Deliver(r, ok) \/ Issue(r, ok)
        PROVE  AccountTypeOK'
    BY <2>2, CommitKeepsTypes
  <2>3. ASSUME NEW r \in Requests,
               \/ \E s \in 1..Len(sessions) : Access(r, s) \/ RevokeOther(r, s)
               \/ Logout(r) \/ BeginSettings(r) \/ Leave(r)
               \/ \E fs \in (SUBSET Fields) \ {{}} : \E new \in [fs -> Values] : CommitSettings(r, fs, new)
        PROVE  AccountTypeOK'
    BY <2>3, UseKeepsTypes
  <2>4. CASE Time
    BY <2>4, TimePasses DEF AccountTypeOK
  <2>5. CASE UNCHANGED accountVars
    BY <2>5 DEF accountVars, AccountTypeOK
  <2> QED
    BY <2>1, <2>2, <2>3, <2>4, <2>5 DEF AccountNext
<1> QED
  BY <1>1, <1>2, PTL DEF AccountSpec

\* Only an account somebody proved to own is active, and whoever is signed in, is about
\* to be, or verifies a code to sign in with has one.
SessionsInv ==
    /\ \A e \in Emails : account[e].status = "active" => account[e].verified
    /\ \A r \in Requests :
        request[r].pc = "issuing" \/ (request[r].pc = "verifying" /\ request[r].purpose = Login)
          => account[request[r].user].status = "active"
    /\ \A s \in 1..Len(sessions) : account[sessions[s].user].status = "active"

LEMMA SignedInStep ==
    ASSUME AccountTypeOK, SessionsInv, NEW r \in Requests,
           \A e \in Emails : /\ account[e].status = "active" => account'[e].status = "active"
                             /\ account'[e].status = "active" => account'[e].verified,
           \A q \in Requests \ {r} : request'[q] = request[q],
           request'[r].pc = "issuing" \/ (request'[r].pc = "verifying" /\ request'[r].purpose = Login)
             => account'[request'[r].user].status = "active",
           \A s \in 1..Len(sessions') : \/ s \in 1..Len(sessions) /\ sessions'[s].user = sessions[s].user
                                        \/ account'[sessions'[s].user].status = "active"
    PROVE  SessionsInv'
<1>1. ASSUME NEW q \in Requests \ {r},
             request'[q].pc = "issuing" \/ (request'[q].pc = "verifying" /\ request'[q].purpose = Login)
      PROVE  account'[request'[q].user].status = "active"
  <2>1. request'[q] = request[q]
    OBVIOUS
  <2>2. request[q].pc # "idle"
    BY <1>1, <2>1
  <2>3. request[q].user \in Emails
    BY <2>2, ServedCall DEF Calls
  <2> QED
    BY <1>1, <2>1, <2>3 DEF SessionsInv
<1>2. ASSUME NEW s \in 1..Len(sessions')
      PROVE  account'[sessions'[s].user].status = "active"
  <2>1. CASE s \in 1..Len(sessions) /\ sessions'[s].user = sessions[s].user
    <3>1. sessions[s].user \in Emails
      BY <2>1, NumberOfRows
    <3> QED
      BY <2>1, <3>1 DEF SessionsInv
  <2> QED
    BY <2>1
<1> QED
  BY <1>1, <1>2 DEF SessionsInv

LEMMA NoAccountIs == NoAccount \in Accounts /\ NoAccount.status = "none"
  BY DEF NoAccount, Accounts

\* Most steps leave the accounts and the sessions as they are.
LEMMA SignedInStays ==
    ASSUME AccountTypeOK, SessionsInv, NEW r \in Requests, UNCHANGED <<account, sessions>>,
           \A q \in Requests \ {r} : request'[q] = request[q],
           request'[r].pc = "issuing" \/ (request'[r].pc = "verifying" /\ request'[r].purpose = Login)
             => account[request'[r].user].status = "active"
    PROVE  SessionsInv'
<1>1. \A s \in 1..Len(sessions') : s \in 1..Len(sessions) /\ sessions'[s].user = sessions[s].user
  OBVIOUS
<1>2. \A e \in Emails : /\ account[e].status = "active" => account'[e].status = "active"
                        /\ account'[e].status = "active" => account'[e].verified
  BY DEF SessionsInv
<1> QED
  BY <1>1, <1>2, SignedInStep

LEMMA SignedInCloses ==
    ASSUME AccountTypeOK, SessionsInv, NEW r \in Requests, UNCHANGED <<account, sessions>>, Close(r)
    PROVE  SessionsInv'
<1>1. request'[r].pc = "idle" /\ \A q \in Requests \ {r} : request'[q] = request[q]
  BY Closed, IdleIsNone
<1> QED
  BY <1>1, SignedInStays

LEMMA BeginningKeepsSessions ==
    ASSUME AccountTypeOK, SessionsInv, NEW r \in Requests, NEW e \in Emails,
           \/ BeginSignup(r, e) \/ BeginGoogle(r, e)
           \/ \E provider \in {"password", "google"} : Enter(r, e, provider)
           \/ \E purpose \in Purposes : BeginCode(r, e, purpose)
           \/ \E purpose \in Purposes : \E typed \in {0} \cup Unused(e, purpose) : BeginVerify(r, e, purpose, typed)
    PROVE  SessionsInv'
<1>0. Len(codes) \in Nat
  BY NumberOfRows
<1>1. ASSUME NEW p \in {"signing up", "joining", "issuing"},
             Open(r, e, [Idle EXCEPT !.pc = p, !.user = e]), UNCHANGED <<account, sessions>>,
             p = "issuing" => account[e].status = "active"
      PROVE  SessionsInv'
  <2>1. p \in Stages
    BY DEF Stages
  <2>2. Entering(p, e) \in Calls /\ Entering(p, e).pc = p /\ Entering(p, e).user = e
    BY <2>1, CallBegins
  <2>3. Open(r, e, Entering(p, e))
    BY <1>1 DEF Entering
  <2>4. request'[r] = Entering(p, e) /\ \A q \in Requests \ {r} : request'[q] = request[q]
    BY <2>2, <2>3, Opened
  <2> QED
    BY <1>1, <2>2, <2>4, SignedInStays
<1>2. CASE BeginSignup(r, e)
  BY <1>1, <1>2 DEF BeginSignup
<1>3. CASE BeginGoogle(r, e)
  BY <1>1, <1>3 DEF BeginGoogle
<1>4. ASSUME NEW provider \in {"password", "google"}, Enter(r, e, provider)
      PROVE  SessionsInv'
  BY <1>1, <1>4 DEF Enter
<1>5. ASSUME NEW purpose \in Purposes, BeginCode(r, e, purpose)
      PROVE  SessionsInv'
  <2> PICK unused : unused = Unused(e, purpose)
    OBVIOUS
  <2>1. unused \in SUBSET Nat
    BY <1>0 DEF Unused
  <2>2. Asking(e, purpose, unused) \in Calls /\ Asking(e, purpose, unused).pc = "requesting"
    BY <2>1, CallRequests
  <2>3. Open(r, e, Asking(e, purpose, unused)) /\ UNCHANGED <<account, sessions>>
    BY <1>5 DEF BeginCode, Asking
  <2>4. request'[r].pc = "requesting" /\ \A q \in Requests \ {r} : request'[q] = request[q]
    BY <2>2, <2>3, Opened
  <2> QED
    BY <2>3, <2>4, SignedInStays
<1>6. ASSUME NEW purpose \in Purposes, NEW typed \in {0} \cup Unused(e, purpose), BeginVerify(r, e, purpose, typed)
      PROVE  SessionsInv'
  <2>1. request'[r].pc = "verifying" /\ request'[r].user = e /\ request'[r].purpose = purpose
        /\ \A q \in Requests \ {r} : request'[q] = request[q]
    <3>1. PICK work \in Calls :
             Open(r, e, work) /\ work.pc = "verifying" /\ work.user = e /\ work.purpose = purpose
      BY <1>6, VerifyOpens
    <3> QED
      BY <3>1, Opened
  <2>2. UNCHANGED <<account, sessions>> /\ (purpose = Login => account[e].status = "active")
    BY <1>6 DEF BeginVerify, Eligible, Login, Signup
  <2> QED
    BY <2>1, <2>2, SignedInStays
<1> QED
  BY <1>2, <1>3, <1>4, <1>5, <1>6

LEMMA CommitKeepsSessions ==
    ASSUME AccountTypeOK, SessionsInv, NEW r \in Requests,
           \/ CommitSignup(r) \/ CommitGoogle(r) \/ CommitCode(r) \/ CommitVerify(r)
           \/ \E ok \in BOOLEAN : Deliver(r, ok) \/ Issue(r, ok)
    PROVE  SessionsInv'
<1>0. Len(codes) \in Nat /\ Len(sessions) \in Nat /\ account \in [Emails -> Accounts]
  BY NumberOfRows DEF AccountTypeOK
<1>1. request[r] \in Calls /\ request[r].user \in Emails
  <2>1. request[r].pc # "idle"
    BY DEF CommitSignup, CommitGoogle, CommitCode, CommitVerify, Deliver, Issue, Serving
  <2>2. request[r] \in Calls
    BY <2>1, ServedCall
  <2> QED
    BY <2>2, SMTT(30) DEF Calls
<1> PICK e \in Emails : e = request[r].user
  BY <1>1
<1>2. "issuing" \in Stages
  BY DEF Stages
<1>3. \A d \in Emails : account[d].status = "active" => account[d].verified
  BY DEF SessionsInv
<1>4. CASE CommitSignup(r)
  <2>1. CASE account[e] = NoAccount
    <3>1. PICK row \in Accounts : row = [status |-> "pending", provider |-> "password", verified |-> FALSE]
      BY DEF Accounts
    <3>2. /\ account' = [account EXCEPT ![e] = row] /\ UNCHANGED sessions
          /\ request' = [request EXCEPT ![r].pc = "mailing", ![r].code = Len(codes) + 1]
      BY <1>4, <2>1, <3>1 DEF CommitSignup
    <3>3. account'[e] = row /\ \A d \in Emails \ {e} : account'[d] = account[d]
      BY <1>0, <3>2, AccountRows
    <3>4. row.status # "active" /\ account[e].status # "active"
      BY <2>1, <3>1, NoAccountIs
    <3>5. request'[r].pc = "mailing" /\ \A q \in Requests \ {r} : request'[q] = request[q]
      <4> PICK n \in Nat : n = Len(codes) + 1
        BY <1>0
      <4>1. request' = [request EXCEPT ![r].pc = "mailing", ![r].code = n]
        BY <3>2
      <4> QED
        BY <1>1, <4>1, MailsNext
    <3>6. \A d \in Emails : /\ account[d].status = "active" => account'[d].status = "active"
                            /\ account'[d].status = "active" => account'[d].verified
      BY <1>3, <3>3, <3>4
    <3> QED
      BY <3>2, <3>5, <3>6, SignedInStep
  <2>2. CASE account[e] # NoAccount
    BY <1>4, <2>2, SignedInCloses DEF CommitSignup
  <2> QED
    BY <2>1, <2>2
<1>5. CASE CommitGoogle(r)
  <2>1. CASE account[e] = NoAccount
    <3>1. PICK row \in Accounts : row = [status |-> "active", provider |-> "google", verified |-> TRUE]
      BY DEF Accounts
    <3>2. /\ account' = [account EXCEPT ![e] = row] /\ UNCHANGED sessions
          /\ request' = [request EXCEPT ![r].pc = "issuing"]
      BY <1>5, <2>1, <3>1 DEF CommitGoogle
    <3>3. account'[e] = row /\ \A d \in Emails \ {e} : account'[d] = account[d]
      BY <1>0, <3>2, AccountRows
    <3>4. row.status = "active" /\ row.verified
      BY <3>1
    <3>5. request'[r].user = e /\ \A q \in Requests \ {r} : request'[q] = request[q]
      BY <1>1, <1>2, <3>2, GoesOn
    <3>6. \A d \in Emails : /\ account[d].status = "active" => account'[d].status = "active"
                            /\ account'[d].status = "active" => account'[d].verified
      BY <1>3, <3>3, <3>4
    <3> QED
      BY <3>2, <3>3, <3>4, <3>5, <3>6, SignedInStep
  <2>2. CASE account[e] # NoAccount
    BY <1>5, <2>2, SignedInCloses DEF CommitGoogle
  <2> QED
    BY <2>1, <2>2
<1>6. CASE CommitCode(r)
  <2>1. request' = [request EXCEPT ![r].pc = "mailing", ![r].code = Len(codes) + 1]
        /\ UNCHANGED <<account, sessions>>
    BY <1>6 DEF CommitCode
  <2>2. request'[r].pc = "mailing" /\ \A q \in Requests \ {r} : request'[q] = request[q]
    <3> PICK n \in Nat : n = Len(codes) + 1
      BY <1>0
    <3>1. request' = [request EXCEPT ![r].pc = "mailing", ![r].code = n]
      BY <2>1
    <3> QED
      BY <1>1, <3>1, MailsNext
  <2> QED
    BY <2>1, <2>2, SignedInStays
<1>7. CASE CommitVerify(r)
  <2>0. UNCHANGED sessions /\ request[r].pc = "verifying"
    BY <1>7 DEF CommitVerify, Serving
  <2>1. CASE request[r].typed # request[r].code
    BY <1>7, <2>1, SignedInCloses DEF CommitVerify
  <2>2. CASE request[r].typed = request[r].code
    <3>1. /\ account' = IF request[r].purpose = Signup
                        THEN [account EXCEPT ![e].status = "active", ![e].verified = TRUE]
                        ELSE account
          /\ request' = [request EXCEPT ![r].pc = "issuing"]
      BY <1>7, <2>2 DEF CommitVerify
    <3>2. request'[r].user = e /\ \A q \in Requests \ {r} : request'[q] = request[q]
      BY <1>1, <1>2, <3>1, GoesOn
    <3>3. CASE request[r].purpose = Signup
      <4>1. account' = [account EXCEPT ![e].status = "active", ![e].verified = TRUE]
        BY <3>1, <3>3, SMTT(30)
      <4>2. /\ account'[e].status = "active" /\ account'[e].verified
            /\ \A d \in Emails \ {e} : account'[d] = account[d]
        BY <1>0, <4>1, AccountRows
      <4>3. \A d \in Emails : /\ account[d].status = "active" => account'[d].status = "active"
                              /\ account'[d].status = "active" => account'[d].verified
        BY <1>3, <4>2
      <4> QED
        BY <2>0, <3>2, <4>2, <4>3, SignedInStep
    <3>4. CASE request[r].purpose # Signup
      <4>1. request[r].purpose = Login
        BY <1>1, <3>4 DEF Calls, Purposes
      <4>2. account[e].status = "active"
        BY <2>0, <4>1 DEF SessionsInv
      <4> QED
        BY <2>0, <3>1, <3>2, <3>4, <4>2, SignedInStays
    <3> QED
      BY <3>3, <3>4
  <2> QED
    BY <2>1, <2>2
<1>8. ASSUME NEW sent \in BOOLEAN, Deliver(r, sent) PROVE SessionsInv'
  BY <1>8, SignedInCloses DEF Deliver
<1>9. ASSUME NEW stored \in BOOLEAN, Issue(r, stored) PROVE SessionsInv'
  <2>1. Close(r) /\ UNCHANGED account /\ request[r].pc = "issuing"
    BY <1>9 DEF Issue, Serving
  <2>2. CASE sessions' = sessions
    BY <2>1, <2>2, SignedInCloses
  <2>3. CASE sessions' = Append(sessions, [user |-> e, revoked |-> FALSE])
    <3>1. /\ Len(sessions') = Len(sessions) + 1
          /\ sessions'[Len(sessions) + 1] = [user |-> e, revoked |-> FALSE]
          /\ \A t \in 1..Len(sessions) : sessions'[t] = sessions[t]
      BY <2>3, SessionsAfter
    <3>2. account'[e].status = "active"
      BY <2>1 DEF SessionsInv
    <3>3. ASSUME NEW s \in 1..Len(sessions')
          PROVE  \/ s \in 1..Len(sessions) /\ sessions'[s].user = sessions[s].user
                 \/ account'[sessions'[s].user].status = "active"
      <4>1. s \in 1..Len(sessions) \/ s = Len(sessions) + 1
        BY <1>0, <3>1
      <4> QED
        BY <3>1, <3>2, <4>1
    <3>4. request'[r].pc = "idle" /\ \A q \in Requests \ {r} : request'[q] = request[q]
      BY <2>1, Closed, IdleIsNone
    <3>5. \A d \in Emails : /\ account[d].status = "active" => account'[d].status = "active"
                            /\ account'[d].status = "active" => account'[d].verified
      BY <1>3, <2>1
    <3> QED
      BY <3>3, <3>4, <3>5, SignedInStep
  <2> QED
    BY <1>9, <2>2, <2>3 DEF Issue
<1> QED
  BY <1>4, <1>5, <1>6, <1>7, <1>8, <1>9

LEMMA UseKeepsSessions ==
    ASSUME AccountTypeOK, SessionsInv, NEW r \in Requests,
           \/ \E s \in 1..Len(sessions) : Access(r, s) \/ RevokeOther(r, s)
           \/ Logout(r) \/ BeginSettings(r) \/ Leave(r)
           \/ \E fs \in (SUBSET Fields) \ {{}} : \E new \in [fs -> Values] : CommitSettings(r, fs, new)
    PROVE  SessionsInv'
<1>0. Len(sessions) \in Nat /\ \A s \in 1..Len(sessions) : sessions[s] \in [user : Emails, revoked : BOOLEAN]
  BY NumberOfRows
<1>1. ASSUME NEW s \in 1..Len(sessions), Access(r, s) PROVE SessionsInv'
  <2> PICK e \in Emails : e = sessions[s].user
    BY <1>0
  <2>1. Using(e, s) \in Calls /\ Using(e, s).pc = "using" /\ Using(e, s).code = s
    BY <1>0, CallNames
  <2>2. Open(r, e, Using(e, s)) /\ UNCHANGED <<account, sessions>>
    BY <1>1 DEF Access, Using
  <2>3. request'[r].pc = "using" /\ \A q \in Requests \ {r} : request'[q] = request[q]
    BY <2>1, <2>2, Opened
  <2> QED
    BY <2>2, <2>3, SignedInStays
<1>2. ASSUME NEW s \in 1..Len(sessions), Revoke(s), Close(r), UNCHANGED account PROVE SessionsInv'
  <2>1. Len(sessions') = Len(sessions) /\ \A t \in 1..Len(sessions) : sessions'[t].user = sessions[t].user
    BY <1>2, SessionsAfter
  <2>2. \A t \in 1..Len(sessions') : t \in 1..Len(sessions) /\ sessions'[t].user = sessions[t].user
    BY <2>1
  <2>3. request'[r].pc = "idle" /\ \A q \in Requests \ {r} : request'[q] = request[q]
    BY <1>2, Closed, IdleIsNone
  <2>4. \A d \in Emails : /\ account[d].status = "active" => account'[d].status = "active"
                          /\ account'[d].status = "active" => account'[d].verified
    BY <1>2 DEF SessionsInv
  <2> QED
    BY <2>2, <2>3, <2>4, SignedInStep
<1>3. ASSUME NEW s \in 1..Len(sessions), RevokeOther(r, s) PROVE SessionsInv'
  BY <1>2, <1>3 DEF RevokeOther
<1>4. CASE Logout(r)
  <2>1. request[r].code \in 1..Len(sessions)
    BY <1>4 DEF Logout, Serving, AccountTypeOK
  <2> QED
    BY <1>2, <1>4, <2>1 DEF Logout
<1>5. CASE BeginSettings(r)
  <2>1. PICK p \in {"updating", "creating"} : request' = [request EXCEPT ![r].pc = p]
    BY <1>5 DEF BeginSettings
  <2>2. request[r] \in Calls /\ p \in Stages
    <3>1. request[r].pc # "idle"
      BY <1>5 DEF BeginSettings, Serving
    <3> QED
      BY <3>1, ServedCall DEF Stages
  <2>3. request'[r].pc = p /\ \A q \in Requests \ {r} : request'[q] = request[q]
    BY <2>1, <2>2, GoesOn
  <2>4. UNCHANGED <<account, sessions>>
    BY <1>5 DEF BeginSettings
  <2> QED
    BY <2>3, <2>4, SignedInStays
<1>6. CASE Leave(r) \/ \E fs \in (SUBSET Fields) \ {{}} : \E new \in [fs -> Values] : CommitSettings(r, fs, new)
  BY <1>6, SignedInCloses DEF Leave, CommitSettings
<1> QED
  BY <1>1, <1>3, <1>4, <1>5, <1>6

\* A session belongs to an active account whose address somebody proved to own, however
\* the account began and whatever was requested at once.
THEOREM SessionsBelongToOwners == AccountSpec => []SessionsAreVerified
<1>1. AccountInit => SessionsInv
  <2> SUFFICES ASSUME AccountInit PROVE SessionsInv
    OBVIOUS
  <2>1. \A e \in Emails : account[e].status = "none"
    BY NoAccountIs DEF AccountInit
  <2>2. \A r \in Requests : request[r].pc = "idle"
    BY IdleIsNone DEF AccountInit
  <2>3. Len(sessions) = 0
    BY DEF AccountInit
  <2> QED
    BY <2>1, <2>2, <2>3 DEF SessionsInv
<1>2. AccountTypeOK /\ SessionsInv /\ [AccountNext]_accountVars => SessionsInv'
  <2> SUFFICES ASSUME AccountTypeOK, SessionsInv, [AccountNext]_accountVars PROVE SessionsInv'
    OBVIOUS
  <2>1. ASSUME NEW r \in Requests, NEW e \in Emails,
               \/ BeginSignup(r, e) \/ BeginGoogle(r, e)
               \/ \E provider \in {"password", "google"} : Enter(r, e, provider)
               \/ \E purpose \in {Signup, Login} :
                    \/ BeginCode(r, e, purpose)
                    \/ \E typed \in {0} \cup Unused(e, purpose) : BeginVerify(r, e, purpose, typed)
        PROVE  SessionsInv'
    BY <2>1, BeginningKeepsSessions DEF Purposes
  <2>2. ASSUME NEW r \in Requests,
               \/ CommitSignup(r) \/ CommitGoogle(r) \/ CommitCode(r) \/ CommitVerify(r)
               \/ \E ok \in BOOLEAN : Deliver(r, ok) \/ Issue(r, ok)
        PROVE  SessionsInv'
    BY <2>2, CommitKeepsSessions
  <2>3. ASSUME NEW r \in Requests,
               \/ \E s \in 1..Len(sessions) : Access(r, s) \/ RevokeOther(r, s)
               \/ Logout(r) \/ BeginSettings(r) \/ Leave(r)
               \/ \E fs \in (SUBSET Fields) \ {{}} : \E new \in [fs -> Values] : CommitSettings(r, fs, new)
        PROVE  SessionsInv'
    BY <2>3, UseKeepsSessions
  <2>4. CASE Time
    <3>1. UNCHANGED <<account, sessions, request>>
      BY <2>4 DEF Time
    <3> QED
      BY <3>1 DEF SessionsInv
  <2>5. CASE UNCHANGED accountVars
    BY <2>5 DEF accountVars, SessionsInv
  <2> QED
    BY <2>1, <2>2, <2>3, <2>4, <2>5 DEF AccountNext
<1>3. AccountTypeOK /\ SessionsInv => SessionsAreVerified
  <2> SUFFICES ASSUME AccountTypeOK, SessionsInv, NEW s \in 1..Len(sessions)
               PROVE  account[sessions[s].user].status = "active" /\ account[sessions[s].user].verified
    BY DEF SessionsAreVerified
  <2>1. sessions[s].user \in Emails
    BY NumberOfRows
  <2> QED
    BY <2>1 DEF SessionsInv
<1> QED
  BY <1>1, <1>2, <1>3, AccountTypeCorrect, PTL DEF AccountSpec

\* A request that was not passed on a field still has the field's value: what makes the
\* ORM's omission of an unchanged column harmless.
RowIsFresh ==
    /\ loaded \in [Requests -> [Fields -> Values]]
    /\ passed \in [Requests -> SUBSET Fields]
    /\ \A r \in Requests : Editing(r) => \A f \in Fields \ passed[r] : loaded[r][f] = settings.value[f]
    /\ \A r \in Requests : Editing(r) \/ passed[r] = {}
    /\ settings.value \in [Fields -> Values]

LEMMA FreshRowStays ==
    ASSUME RowIsFresh, UNCHANGED settingsVars, \A r \in Requests : Editing(r)' <=> Editing(r)
    PROVE  RowIsFresh'
BY DEF RowIsFresh, settingsVars

\* A step that only one request takes, and that neither opens nor closes a form.
LEMMA OthersEdit ==
    ASSUME RowIsFresh, NEW r \in Requests, UNCHANGED settingsVars, ~Editing(r), request'[r].pc \notin {"updating", "creating"},
           \A q \in Requests \ {r} : request'[q] = request[q]
    PROVE  RowIsFresh'
<1>1. \A q \in Requests : Editing(q)' <=> Editing(q)
  BY DEF Editing, Serving
<1> QED
  BY <1>1, FreshRowStays

LEMMA BeginningKeepsTheRow ==
    ASSUME AccountTypeOK, RowIsFresh, NEW r \in Requests, NEW e \in Emails,
           \/ BeginSignup(r, e) \/ BeginGoogle(r, e)
           \/ \E provider \in {"password", "google"} : Enter(r, e, provider)
           \/ \E purpose \in Purposes : BeginCode(r, e, purpose)
           \/ \E purpose \in Purposes : \E typed \in {0} \cup Unused(e, purpose) : BeginVerify(r, e, purpose, typed)
    PROVE  RowIsFresh'
<1>0. Len(codes) \in Nat
  BY NumberOfRows
<1>1. ASSUME NEW work \in Calls, Open(r, e, work), UNCHANGED settingsVars, work.pc \notin {"updating", "creating"}
      PROVE  RowIsFresh'
  <2>1. request[r] = Idle /\ request'[r] = work /\ \A q \in Requests \ {r} : request'[q] = request[q]
    BY <1>1, Opened
  <2>2. ~Editing(r)
    BY <2>1, IdleIsNone DEF Editing, Serving
  <2> QED
    BY <1>1, <2>1, <2>2, OthersEdit
<1>2. ASSUME NEW p \in {"signing up", "joining", "issuing"},
             Open(r, e, [Idle EXCEPT !.pc = p, !.user = e]), UNCHANGED settingsVars
      PROVE  RowIsFresh'
  <2>0. p \in Stages /\ p \notin {"updating", "creating"}
    BY DEF Stages
  <2>1. Entering(p, e) \in Calls /\ Entering(p, e).pc = p
    BY <2>0, CallBegins
  <2>2. Open(r, e, Entering(p, e))
    BY <1>2 DEF Entering
  <2> QED
    BY <1>1, <1>2, <2>0, <2>1, <2>2
<1>3. ASSUME NEW purpose \in Purposes, BeginCode(r, e, purpose)
      PROVE  RowIsFresh'
  <2> PICK unused : unused = Unused(e, purpose)
    OBVIOUS
  <2>1. unused \in SUBSET Nat
    BY <1>0 DEF Unused
  <2>2. Asking(e, purpose, unused) \in Calls /\ Asking(e, purpose, unused).pc = "requesting"
    BY <2>1, CallRequests
  <2>3. Open(r, e, Asking(e, purpose, unused)) /\ UNCHANGED settingsVars
    BY <1>3 DEF BeginCode, Asking
  <2> QED
    BY <1>1, <2>2, <2>3
<1>4. ASSUME NEW purpose \in Purposes, NEW typed \in {0} \cup Unused(e, purpose), BeginVerify(r, e, purpose, typed)
      PROVE  RowIsFresh'
  <2>1. PICK work \in Calls :
           Open(r, e, work) /\ work.pc = "verifying" /\ work.user = e /\ work.purpose = purpose
    BY <1>4, VerifyOpens
  <2>2. UNCHANGED settingsVars
    BY <1>4 DEF BeginVerify
  <2> QED
    BY <1>1, <2>1, <2>2
<1> QED
  BY <1>2, <1>3, <1>4 DEF BeginSignup, BeginGoogle, Enter

LEMMA CommitKeepsTheRow ==
    ASSUME AccountTypeOK, RowIsFresh, NEW r \in Requests,
           \/ CommitSignup(r) \/ CommitGoogle(r) \/ CommitCode(r) \/ CommitVerify(r)
           \/ \E ok \in BOOLEAN : Deliver(r, ok) \/ Issue(r, ok)
    PROVE  RowIsFresh'
<1>1. request[r] \in Calls /\ ~Editing(r) /\ UNCHANGED settingsVars
  BY ServedCall DEF CommitSignup, CommitGoogle, CommitCode, CommitVerify, Deliver, Issue, Serving, Editing
<1>2. ASSUME Close(r) PROVE RowIsFresh'
  <2>1. request'[r].pc = "idle" /\ \A q \in Requests \ {r} : request'[q] = request[q]
    BY <1>2, Closed, IdleIsNone
  <2> QED
    BY <1>1, <2>1, OthersEdit
<1>3. ASSUME request' = [request EXCEPT ![r].pc = "issuing"] PROVE RowIsFresh'
  <2>1. request'[r].pc = "issuing" /\ \A q \in Requests \ {r} : request'[q] = request[q]
    BY <1>1, <1>3, GoesOn DEF Stages
  <2> QED
    BY <1>1, <2>1, OthersEdit
<1>4. ASSUME request' = [request EXCEPT ![r].pc = "mailing", ![r].code = Len(codes) + 1] PROVE RowIsFresh'
  <2> PICK n \in Nat : n = Len(codes) + 1
    BY NumberOfRows
  <2>1. request'[r].pc = "mailing" /\ \A q \in Requests \ {r} : request'[q] = request[q]
    BY <1>1, <1>4, MailsNext
  <2> QED
    BY <1>1, <2>1, OthersEdit
<1> QED
  BY <1>2, <1>3, <1>4 DEF CommitSignup, CommitGoogle, CommitCode, CommitVerify, Deliver, Issue

\* A form commits: the columns it did not change keep their value, and every other form
\* still open is passed on the columns it set.
LEMMA SavingKeepsTheRow ==
    ASSUME AccountTypeOK, RowIsFresh, SettingsKeepEveryWrite, NEW r \in Requests,
           NEW fs \in (SUBSET Fields) \ {{}}, NEW new \in [fs -> Values], CommitSettings(r, fs, new)
    PROVE  RowIsFresh' /\ SettingsKeepEveryWrite'
<1>1. /\ Editing(r) /\ Close(r)
      /\ settings'.value = [f \in Fields |-> IF f \in fs /\ new[f] # loaded[r][f] THEN new[f] ELSE settings.value[f]]
      /\ asked' = [f \in Fields |-> IF f \in fs THEN new[f] ELSE asked[f]]
      /\ passed' = [q \in Requests |-> IF q # r /\ Editing(q) THEN passed[q] \cup fs ELSE {}]
      /\ contested' = (contested \ fs) \cup (fs \cap passed[r])
      /\ loaded' = [loaded EXCEPT ![r] = NoSettings.value]
  BY DEF CommitSettings, Editing
<1>2. request'[r].pc = "idle" /\ \A q \in Requests \ {r} : request'[q] = request[q]
  BY <1>1, Closed, IdleIsNone
<1>3. ~Editing(r)' /\ \A q \in Requests \ {r} : Editing(q)' <=> Editing(q)
  BY <1>2 DEF Editing, Serving
<1>4. \A f \in fs : new[f] \in Values
  OBVIOUS
<1>5. loaded' \in [Requests -> [Fields -> Values]] /\ \A q \in Requests \ {r} : loaded'[q] = loaded[q]
  <2>1. NoSettings.value \in [Fields -> Values]
    BY AccountAssumption DEF NoSettings
  <2> QED
    BY <1>1, <2>1 DEF RowIsFresh
<1>6. passed' \in [Requests -> SUBSET Fields]
  BY <1>1 DEF RowIsFresh
<1>7. settings'.value \in [Fields -> Values]
  BY <1>1, <1>4 DEF RowIsFresh
<1>8. ASSUME NEW q \in Requests, Editing(q)', NEW f \in Fields \ passed'[q]
      PROVE  loaded'[q][f] = settings'.value[f]
  <2>1. q # r /\ Editing(q) /\ f \notin passed[q] /\ f \notin fs
    BY <1>1, <1>3, <1>8
  <2> QED
    BY <1>1, <1>5, <2>1 DEF RowIsFresh
<1>9. \A q \in Requests : Editing(q)' \/ passed'[q] = {}
  BY <1>1, <1>3
<1>10. ASSUME NEW f \in Fields \ contested' PROVE settings'.value[f] = asked'[f]
  <2>1. CASE f \in fs
    <3>1. loaded[r][f] = settings.value[f]
      BY <1>1, <2>1 DEF RowIsFresh
    <3> QED
      BY <1>1, <2>1, <3>1
  <2>2. CASE f \notin fs
    BY <1>1, <2>2 DEF SettingsKeepEveryWrite
  <2> QED
    BY <2>1, <2>2
<1> QED
  BY <1>5, <1>6, <1>7, <1>8, <1>9, <1>10 DEF RowIsFresh, SettingsKeepEveryWrite

LEMMA UseKeepsTheRow ==
    ASSUME AccountTypeOK, RowIsFresh, NEW r \in Requests,
           \/ \E s \in 1..Len(sessions) : Access(r, s) \/ RevokeOther(r, s)
           \/ Logout(r) \/ BeginSettings(r) \/ Leave(r)
    PROVE  RowIsFresh'
<1>0. \A s \in 1..Len(sessions) : sessions[s] \in [user : Emails, revoked : BOOLEAN]
  BY NumberOfRows
<1>1. ASSUME NEW s \in 1..Len(sessions), Access(r, s) PROVE RowIsFresh'
  <2> PICK e \in Emails : e = sessions[s].user
    BY <1>0
  <2>1. Using(e, s) \in Calls /\ Using(e, s).pc = "using"
    BY NumberOfRows, CallNames
  <2>2. Open(r, e, Using(e, s)) /\ UNCHANGED settingsVars
    BY <1>1 DEF Access, Using
  <2>3. request[r] = Idle /\ request'[r].pc = "using" /\ \A q \in Requests \ {r} : request'[q] = request[q]
    BY <2>1, <2>2, Opened
  <2> QED
    BY <2>2, <2>3, IdleIsNone, OthersEdit DEF Editing, Serving
<1>2. ASSUME Logout(r) \/ \E s \in 1..Len(sessions) : RevokeOther(r, s) PROVE RowIsFresh'
  <2>1. Close(r) /\ ~Editing(r) /\ UNCHANGED settingsVars
    BY <1>2 DEF Logout, RevokeOther, Editing, Serving
  <2>2. request'[r].pc = "idle" /\ \A q \in Requests \ {r} : request'[q] = request[q]
    BY <2>1, Closed, IdleIsNone
  <2> QED
    BY <2>1, <2>2, OthersEdit
<1>3. CASE BeginSettings(r)
  <2>1. PICK p \in {"updating", "creating"} : request' = [request EXCEPT ![r].pc = p]
    BY <1>3 DEF BeginSettings
  <2>2. request[r] \in Calls /\ p \in Stages /\ ~Editing(r)
    BY <1>3, ServedCall DEF BeginSettings, Serving, Stages, Editing
  <2>3. request'[r].pc = p /\ \A q \in Requests \ {r} : request'[q] = request[q]
    BY <2>1, <2>2, GoesOn
  <2>4. Editing(r)' /\ \A q \in Requests \ {r} : Editing(q)' <=> Editing(q)
    BY <2>3 DEF Editing, Serving
  <2>5. loaded' = [loaded EXCEPT ![r] = settings.value] /\ UNCHANGED <<settings, passed>>
    BY <1>3 DEF BeginSettings
  <2> QED
    BY <2>2, <2>4, <2>5 DEF RowIsFresh
<1>4. CASE Leave(r)
  <2>1. Close(r)
    BY <1>4 DEF Leave
  <2>2. request'[r].pc = "idle" /\ \A q \in Requests \ {r} : request'[q] = request[q]
    BY <2>1, Closed, IdleIsNone
  <2>3. ~Editing(r)' /\ \A q \in Requests \ {r} : Editing(q)' <=> Editing(q)
    BY <2>2 DEF Editing, Serving
  <2>4. /\ loaded' = [loaded EXCEPT ![r] = NoSettings.value]
        /\ passed' = [passed EXCEPT ![r] = {}]
        /\ UNCHANGED settings
    BY <1>4 DEF Leave
  <2>5. NoSettings.value \in [Fields -> Values]
    BY AccountAssumption DEF NoSettings
  <2> QED
    BY <2>3, <2>4, <2>5 DEF RowIsFresh
<1> QED
  BY <1>1, <1>2, <1>3, <1>4

\* The two records of a revocation go on agreeing, whatever the step.
LEMMA RevocationsStay ==
    ASSUME AccountTypeOK, RevocationsAgree, [AccountNext]_accountVars
    PROVE  RevocationsAgree'
<1>0. Len(sessions) \in Nat
  BY NumberOfRows
<1>1. ASSUME UNCHANGED <<sessions, revokedTokens>> PROVE RevocationsAgree'
  BY <1>1 DEF RevocationsAgree
<1>2. ASSUME NEW s \in 1..Len(sessions), Revoke(s) PROVE RevocationsAgree'
  <2>1. /\ Len(sessions') = Len(sessions)
        /\ \A t \in 1..Len(sessions) : sessions'[t].revoked <=> t \in revokedTokens'
    BY <1>2, SessionsAfter
  <2> QED
    BY <2>1 DEF RevocationsAgree
<1>3. ASSUME NEW r \in Requests, NEW e \in Emails,
             \/ BeginSignup(r, e) \/ BeginGoogle(r, e)
             \/ \E provider \in {"password", "google"} : Enter(r, e, provider)
             \/ \E purpose \in {Signup, Login} :
                  \/ BeginCode(r, e, purpose)
                  \/ \E typed \in {0} \cup Unused(e, purpose) : BeginVerify(r, e, purpose, typed)
      PROVE  RevocationsAgree'
  BY <1>1, <1>3 DEF BeginSignup, BeginGoogle, Enter, BeginCode, BeginVerify
<1>4. ASSUME NEW r \in Requests,
             \/ CommitSignup(r) \/ CommitGoogle(r) \/ CommitCode(r) \/ CommitVerify(r)
             \/ \E ok \in BOOLEAN : Deliver(r, ok)
             \/ \E s \in 1..Len(sessions) : Access(r, s)
             \/ BeginSettings(r) \/ Leave(r)
             \/ \E fs \in (SUBSET Fields) \ {{}} : \E new \in [fs -> Values] : CommitSettings(r, fs, new)
      PROVE  RevocationsAgree'
  BY <1>1, <1>4 DEF CommitSignup, CommitGoogle, CommitCode, CommitVerify, Deliver, Access, BeginSettings, Leave, CommitSettings
<1>5. ASSUME NEW r \in Requests, NEW stored \in BOOLEAN, Issue(r, stored) PROVE RevocationsAgree'
  <2>1. UNCHANGED revokedTokens /\ request[r].pc # "idle"
    BY <1>5 DEF Issue, Serving
  <2>2. PICK e \in Emails : e = request[r].user
    BY <2>1, ServedCall DEF Calls
  <2>3. CASE sessions' = sessions
    BY <1>1, <2>1, <2>3
  <2>4. CASE sessions' = Append(sessions, [user |-> e, revoked |-> FALSE])
    <3>1. /\ Len(sessions') = Len(sessions) + 1
          /\ sessions'[Len(sessions) + 1] = [user |-> e, revoked |-> FALSE]
          /\ \A t \in 1..Len(sessions) : sessions'[t] = sessions[t]
      BY <2>4, SessionsAfter
    <3>2. Len(sessions) + 1 \notin revokedTokens
      BY <1>0 DEF AccountTypeOK
    <3>3. ASSUME NEW s \in 1..Len(sessions') PROVE sessions'[s].revoked <=> s \in revokedTokens'
      <4>1. s \in 1..Len(sessions) \/ s = Len(sessions) + 1
        BY <1>0, <3>1
      <4> QED
        BY <1>0, <2>1, <3>1, <3>2, <4>1 DEF RevocationsAgree
    <3> QED
      BY <3>3 DEF RevocationsAgree
  <2> QED
    BY <1>5, <2>2, <2>3, <2>4 DEF Issue
<1>6. ASSUME NEW r \in Requests, Logout(r) \/ \E s \in 1..Len(sessions) : RevokeOther(r, s)
      PROVE  RevocationsAgree'
  <2>1. CASE Logout(r)
    <3>1. request[r].code \in 1..Len(sessions)
      BY <2>1 DEF Logout, Serving, AccountTypeOK
    <3> QED
      BY <1>2, <2>1, <3>1 DEF Logout
  <2>2. CASE \E s \in 1..Len(sessions) : RevokeOther(r, s)
    BY <1>2, <2>2 DEF RevokeOther
  <2> QED
    BY <1>6, <2>1, <2>2
<1>7. CASE Time \/ UNCHANGED accountVars
  BY <1>1, <1>7 DEF Time, accountVars
<1> QED
  BY <1>3, <1>4, <1>5, <1>6, <1>7 DEF AccountNext

\* Only a form that commits touches the settings or what was asked for them.
LEMMA SettingsStay ==
    ASSUME AccountTypeOK, RowIsFresh, SettingsKeepEveryWrite, [AccountNext]_accountVars
    PROVE  RowIsFresh' /\ SettingsKeepEveryWrite'
<1>0. ASSUME UNCHANGED <<settings, asked, contested>> PROVE SettingsKeepEveryWrite'
  BY <1>0 DEF SettingsKeepEveryWrite
<1>1. ASSUME NEW r \in Requests, NEW e \in Emails,
             \/ BeginSignup(r, e) \/ BeginGoogle(r, e)
             \/ \E provider \in {"password", "google"} : Enter(r, e, provider)
             \/ \E purpose \in {Signup, Login} :
                  \/ BeginCode(r, e, purpose)
                  \/ \E typed \in {0} \cup Unused(e, purpose) : BeginVerify(r, e, purpose, typed)
      PROVE  RowIsFresh' /\ SettingsKeepEveryWrite'
  <2>1. UNCHANGED <<settings, asked, contested>>
    BY <1>1 DEF BeginSignup, BeginGoogle, Enter, BeginCode, BeginVerify, settingsVars
  <2> QED
    BY <1>0, <1>1, <2>1, BeginningKeepsTheRow DEF Purposes
<1>2. ASSUME NEW r \in Requests,
             \/ CommitSignup(r) \/ CommitGoogle(r) \/ CommitCode(r) \/ CommitVerify(r)
             \/ \E ok \in BOOLEAN : Deliver(r, ok) \/ Issue(r, ok)
      PROVE  RowIsFresh' /\ SettingsKeepEveryWrite'
  <2>1. UNCHANGED <<settings, asked, contested>>
    BY <1>2 DEF CommitSignup, CommitGoogle, CommitCode, CommitVerify, Deliver, Issue, settingsVars
  <2> QED
    BY <1>0, <1>2, <2>1, CommitKeepsTheRow
<1>3. ASSUME NEW r \in Requests,
             \/ \E s \in 1..Len(sessions) : Access(r, s) \/ RevokeOther(r, s)
             \/ Logout(r) \/ BeginSettings(r) \/ Leave(r)
      PROVE  RowIsFresh' /\ SettingsKeepEveryWrite'
  <2>1. UNCHANGED <<settings, asked, contested>>
    BY <1>3 DEF Access, RevokeOther, Logout, BeginSettings, Leave, settingsVars
  <2> QED
    BY <1>0, <1>3, <2>1, UseKeepsTheRow
<1>4. ASSUME NEW r \in Requests, NEW fs \in (SUBSET Fields) \ {{}}, NEW new \in [fs -> Values], CommitSettings(r, fs, new)
      PROVE  RowIsFresh' /\ SettingsKeepEveryWrite'
  BY <1>4, SavingKeepsTheRow
<1>5. CASE Time \/ UNCHANGED accountVars
  <2>1. UNCHANGED <<settingsVars, request>>
    BY <1>5 DEF Time, accountVars, settingsVars
  <2>2. \A r \in Requests : Editing(r)' <=> Editing(r)
    BY <2>1 DEF Editing, Serving
  <2> QED
    BY <1>0, <2>1, <2>2, FreshRowStays DEF settingsVars
<1> QED
  BY <1>1, <1>2, <1>3, <1>4, <1>5 DEF AccountNext

\* The account page tells the truth: a session it lists as revoked is one whose token is
\* refused, and every setting has the value last asked for it unless who asked had been
\* passed on it, however the requests that read and wrote the row interleaved.
THEOREM AccountPageHolds == AccountSpec => []AccountPageIsTrue
<1>1. AccountInit => RowIsFresh /\ AccountPageIsTrue
  <2> SUFFICES ASSUME AccountInit PROVE RowIsFresh /\ AccountPageIsTrue
    OBVIOUS
  <2>1. NoSettings.value \in [Fields -> Values] /\ settings.value = NoSettings.value
    BY AccountAssumption DEF NoSettings, AccountInit
  <2>2. RowIsFresh
    <3>1. \A r \in Requests : ~Editing(r)
      BY IdleIsNone DEF AccountInit, Editing, Serving
    <3> QED
      BY <2>1, <3>1 DEF AccountInit, RowIsFresh
  <2>3. AccountPageIsTrue
    BY <2>1 DEF AccountInit, AccountPageIsTrue, RevocationsAgree, SettingsKeepEveryWrite
  <2> QED
    BY <2>2, <2>3
<1>2. AccountTypeOK /\ RowIsFresh /\ AccountPageIsTrue /\ [AccountNext]_accountVars => RowIsFresh' /\ AccountPageIsTrue'
  BY RevocationsStay, SettingsStay DEF AccountPageIsTrue
<1> QED
  BY <1>1, <1>2, AccountTypeCorrect, PTL DEF AccountSpec

\* The codes of an account, one request at a time: an unused one was never spent, a wrong
\* guess was counted, and at most one for each purpose is unused.
CodesOf(e) ==
    /\ \A k \in 1..Len(codes) : codes[k].user = e =>
        /\ codes[k].spent <= 1
        /\ ~codes[k].consumed => codes[k].spent = 0
        /\ codes[k].guessed <= codes[k].attempts /\ codes[k].attempts <= MaxAttempts
    /\ \A purpose \in Purposes : \A j, k \in Unused(e, purpose) : j = k

\* The one request about an account goes by what is still so: the code it verifies is the
\* unused one and has a guess left, the codes it replaces are the unused ones.
SoleCall(e) == \A q, r \in Requests : request[q].user = e /\ request[r].user = e => q = r
CallIsCurrent(e, r) ==
    /\ request[r].pc = "verifying" =>
         /\ request[r].code \in Unused(e, request[r].purpose)
         /\ request[r].attempts = codes[request[r].code].attempts + 1
         /\ request[r].attempts <= MaxAttempts
    /\ request[r].pc = "requesting" => request[r].seen = Unused(e, request[r].purpose)
GuardOf(e) ==
    /\ CodesOf(e)
    /\ SoleCall(e)
    /\ \A r \in Requests : request[r].user = e => CallIsCurrent(e, r)

\* Nobody is sent a code before there is an account.
KnownAccounts ==
    /\ \A k \in 1..Len(codes) : account[codes[k].user].status # "none"
    /\ \A r \in Requests : request[r].pc = "requesting" => account[request[r].user].status # "none"
GuardInv == KnownAccounts /\ (~overlapped => \A e \in Emails : GuardOf(e))

\* The codes of an account no step of which is taken.
LEMMA CodesUntouched ==
    ASSUME AccountTypeOK, AccountTypeOK', NEW d \in Emails, Len(codes) <= Len(codes'),
           \A k \in 1..Len(codes) : /\ codes'[k].user = codes[k].user /\ codes'[k].purpose = codes[k].purpose
                                    /\ codes[k].user = d => Trials(codes'[k]) = Trials(codes[k]),
           \A k \in 1..Len(codes') : codes'[k].user = d => k <= Len(codes)
    PROVE  /\ \A purpose : Unused(d, purpose)' = Unused(d, purpose)
           /\ CodesOf(d) => CodesOf(d)'
           /\ \A purpose : \A k \in Unused(d, purpose) : codes'[k].attempts = codes[k].attempts
<1>0. Len(codes) \in Nat /\ Len(codes') \in Nat
  BY LenProperties DEF AccountTypeOK
<1>1. ASSUME NEW k \in 1..Len(codes), codes[k].user = d
      PROVE  /\ codes'[k].consumed = codes[k].consumed /\ codes'[k].attempts = codes[k].attempts
             /\ codes'[k].guessed = codes[k].guessed /\ codes'[k].spent = codes[k].spent
  BY <1>1 DEF Trials
<1>2. ASSUME NEW k \in 1..Len(codes'), codes'[k].user = d PROVE k \in 1..Len(codes) /\ codes[k].user = d
  BY <1>0, <1>2
<1>3. ASSUME NEW purpose PROVE Unused(d, purpose)' = Unused(d, purpose)
  <2>1. ASSUME NEW k \in Unused(d, purpose) PROVE k \in Unused(d, purpose)'
    <3>1. k \in 1..Len(codes) /\ k \in 1..Len(codes')
      BY <1>0 DEF Unused
    <3> QED
      BY <1>1, <3>1 DEF Unused
  <2>2. ASSUME NEW k \in Unused(d, purpose)' PROVE k \in Unused(d, purpose)
    <3>1. k \in 1..Len(codes) /\ codes[k].user = d
      BY <1>2 DEF Unused
    <3> QED
      BY <1>1, <3>1 DEF Unused
  <2> QED
    BY <2>1, <2>2
<1>4. ASSUME CodesOf(d) PROVE CodesOf(d)'
  <2>1. ASSUME NEW k \in 1..Len(codes'), codes'[k].user = d
        PROVE  /\ codes'[k].spent <= 1
               /\ ~codes'[k].consumed => codes'[k].spent = 0
               /\ codes'[k].guessed <= codes'[k].attempts /\ codes'[k].attempts <= MaxAttempts
    <3>1. k \in 1..Len(codes) /\ codes[k].user = d
      BY <1>2, <2>1
    <3> QED
      BY <1>1, <1>4, <3>1 DEF CodesOf
  <2> QED
    BY <1>3, <1>4, <2>1 DEF CodesOf
<1>5. ASSUME NEW purpose, NEW k \in Unused(d, purpose) PROVE codes'[k].attempts = codes[k].attempts
  BY <1>1 DEF Unused
<1> QED
  BY <1>3, <1>4, <1>5

LEMMA CallUntouched ==
    ASSUME NEW d \in Emails, NEW q \in Requests, CallIsCurrent(d, q), request'[q] = request[q],
           \A purpose : Unused(d, purpose)' = Unused(d, purpose),
           \A purpose : \A k \in Unused(d, purpose) : codes'[k].attempts = codes[k].attempts
    PROVE  CallIsCurrent(d, q)'
<1> PICK purpose : purpose = request[q].purpose
  OBVIOUS
<1>1. Unused(d, purpose)' = Unused(d, purpose)
  OBVIOUS
<1>2. \A k \in Unused(d, purpose) : codes'[k].attempts = codes[k].attempts
  OBVIOUS
<1> QED
  BY <1>1, <1>2 DEF CallIsCurrent

\* A step of the request r for the account e disturbs no other account, and of e itself
\* what the step says.
LEMMA GuardStep ==
    ASSUME AccountTypeOK, AccountTypeOK', GuardInv, ~overlapped, NEW r \in Requests, NEW e \in Emails,
           Len(codes) <= Len(codes'),
           \A k \in 1..Len(codes) : /\ codes'[k].user = codes[k].user /\ codes'[k].purpose = codes[k].purpose
                                    /\ codes[k].user # e => Trials(codes'[k]) = Trials(codes[k]),
           \A k \in 1..Len(codes') : k > Len(codes) => codes'[k].user = e,
           \A q \in Requests \ {r} : request'[q] = request[q] /\ request[q].user # e,
           request'[r].user \in {e, "nobody"},
           CodesOf(e)',
           request'[r].user = e => CallIsCurrent(e, r)'
    PROVE  \A d \in Emails : GuardOf(d)'
<1>0. Len(codes) \in Nat /\ Len(codes') \in Nat /\ "nobody" \notin Emails
  BY LenProperties, AccountAssumption DEF AccountTypeOK
<1>1. GuardOf(e)'
  <2>1. SoleCall(e)'
    BY DEF SoleCall
  <2>2. \A q \in Requests : request'[q].user = e => CallIsCurrent(e, q)'
    OBVIOUS
  <2> QED
    BY <2>1, <2>2 DEF GuardOf
<1>2. ASSUME NEW d \in Emails \ {e} PROVE GuardOf(d)'
  <2>1. GuardOf(d)
    BY DEF GuardInv
  <2>2. \A k \in 1..Len(codes) : /\ codes'[k].user = codes[k].user /\ codes'[k].purpose = codes[k].purpose
                                 /\ codes[k].user = d => Trials(codes'[k]) = Trials(codes[k])
    OBVIOUS
  <2>3. \A k \in 1..Len(codes') : codes'[k].user = d => k <= Len(codes)
    BY <1>0
  <2>4. /\ \A purpose : Unused(d, purpose)' = Unused(d, purpose)
        /\ CodesOf(d)'
        /\ \A purpose : \A k \in Unused(d, purpose) : codes'[k].attempts = codes[k].attempts
    BY <2>1, <2>2, <2>3, CodesUntouched DEF GuardOf
  <2>5. ASSUME NEW q \in Requests, request'[q].user = d PROVE q # r /\ request'[q] = request[q] /\ request[q].user = d
    BY <1>0, <2>5
  <2>6. SoleCall(d)'
    BY <2>1, <2>5 DEF GuardOf, SoleCall
  <2>7. ASSUME NEW q \in Requests, request'[q].user = d PROVE CallIsCurrent(d, q)'
    <3>1. CallIsCurrent(d, q) /\ request'[q] = request[q]
      BY <2>1, <2>5, <2>7 DEF GuardOf
    <3> QED
      BY <2>4, <3>1, CallUntouched
  <2> QED
    BY <2>4, <2>6, <2>7 DEF GuardOf
<1> QED
  BY <1>1, <1>2

LEMMA KnownStep ==
    ASSUME AccountTypeOK, AccountTypeOK', KnownAccounts, NEW r \in Requests,
           \A d \in Emails : account[d].status # "none" => account'[d].status # "none",
           \A k \in 1..Len(codes') : \/ k \in 1..Len(codes) /\ codes'[k].user = codes[k].user
                                     \/ account'[codes'[k].user].status # "none",
           \A q \in Requests \ {r} : request'[q] = request[q],
           request'[r].pc = "requesting" => account'[request'[r].user].status # "none"
    PROVE  KnownAccounts'
<1>1. ASSUME NEW k \in 1..Len(codes') PROVE account'[codes'[k].user].status # "none"
  <2>1. CASE k \in 1..Len(codes) /\ codes'[k].user = codes[k].user
    <3>1. codes[k].user \in Emails
      BY <2>1, NumberOfRows DEF Codes
    <3> QED
      BY <2>1, <3>1 DEF KnownAccounts
  <2> QED
    BY <2>1
<1>2. ASSUME NEW q \in Requests, request'[q].pc = "requesting" PROVE account'[request'[q].user].status # "none"
  <2>1. CASE q = r
    BY <1>2, <2>1
  <2>2. CASE q # r
    <3>1. request'[q] = request[q]
      BY <2>2
    <3>2. request[q].user \in Emails
      BY <1>2, <3>1, ServedCall DEF Calls
    <3> QED
      BY <1>2, <3>1, <3>2 DEF KnownAccounts
  <2> QED
    BY <2>1, <2>2
<1> QED
  BY <1>1, <1>2 DEF KnownAccounts

LEMMA SoleActor ==
    ASSUME GuardInv, ~overlapped, NEW r \in Requests, NEW e \in Emails, request[r].user = e
    PROVE  \A q \in Requests \ {r} : request[q].user # e
  BY DEF GuardInv, GuardOf, SoleCall

\* A step that decides nothing about a code: the request r begins or ends.
LEMMA QuietStep ==
    ASSUME AccountTypeOK, AccountTypeOK', GuardInv, NEW r \in Requests, NEW e \in Emails,
           Len(codes') = Len(codes),
           \A k \in 1..Len(codes) : /\ codes'[k].user = codes[k].user /\ codes'[k].purpose = codes[k].purpose
                                    /\ Trials(codes'[k]) = Trials(codes[k]),
           \A d \in Emails : account[d].status # "none" => account'[d].status # "none",
           \A q \in Requests \ {r} : request'[q] = request[q],
           request'[r].user \in {e, "nobody"},
           ~overlapped' => ~overlapped /\ \A q \in Requests \ {r} : request[q].user # e,
           request'[r].pc = "verifying" =>
             /\ request'[r].code \in Unused(e, request'[r].purpose)
             /\ request'[r].attempts = codes[request'[r].code].attempts + 1
             /\ request'[r].attempts <= MaxAttempts,
           request'[r].pc = "requesting" =>
             /\ request'[r].seen = Unused(e, request'[r].purpose)
             /\ account[e].status # "none" /\ request'[r].user = e
    PROVE  GuardInv'
<1>0. Len(codes) \in Nat
  BY NumberOfRows
<1>1. KnownAccounts'
  <2>1. KnownAccounts
    BY DEF GuardInv
  <2>2. \A k \in 1..Len(codes') : k \in 1..Len(codes) /\ codes'[k].user = codes[k].user
    OBVIOUS
  <2>3. request'[r].pc = "requesting" => account'[request'[r].user].status # "none"
    OBVIOUS
  <2> QED
    BY <2>1, <2>2, <2>3, KnownStep
<1>2. ASSUME ~overlapped' PROVE \A d \in Emails : GuardOf(d)'
  <2>1. ~overlapped /\ \A q \in Requests \ {r} : request[q].user # e
    BY <1>2
  <2>2. CodesOf(e)
    BY <2>1 DEF GuardInv, GuardOf
  <2>3. Len(codes) <= Len(codes') /\ \A k \in 1..Len(codes') : k <= Len(codes)
    BY <1>0
  <2>4. /\ \A purpose : Unused(e, purpose)' = Unused(e, purpose)
        /\ CodesOf(e)'
        /\ \A purpose : \A k \in Unused(e, purpose) : codes'[k].attempts = codes[k].attempts
    <3>1. \A k \in 1..Len(codes) : /\ codes'[k].user = codes[k].user /\ codes'[k].purpose = codes[k].purpose
                                   /\ codes[k].user = e => Trials(codes'[k]) = Trials(codes[k])
      OBVIOUS
    <3>2. \A k \in 1..Len(codes') : codes'[k].user = e => k <= Len(codes)
      BY <2>3
    <3> QED
      BY <2>2, <2>3, <3>1, <3>2, CodesUntouched
  <2>5. CallIsCurrent(e, r)'
    <3> PICK purpose : purpose = request'[r].purpose
      OBVIOUS
    <3>1. Unused(e, purpose)' = Unused(e, purpose)
      BY <2>4
    <3>2. \A k \in Unused(e, purpose) : codes'[k].attempts = codes[k].attempts
      BY <2>4
    <3> QED
      BY <3>1, <3>2 DEF CallIsCurrent
  <2>6. \A k \in 1..Len(codes') : k > Len(codes) => codes'[k].user = e
    BY <1>0, <2>3
  <2>7. \A q \in Requests \ {r} : request'[q] = request[q] /\ request[q].user # e
    BY <2>1
  <2>8. \A k \in 1..Len(codes) : /\ codes'[k].user = codes[k].user /\ codes'[k].purpose = codes[k].purpose
                                 /\ codes[k].user # e => Trials(codes'[k]) = Trials(codes[k])
    OBVIOUS
  <2> QED
    BY <2>1, <2>3, <2>4, <2>5, <2>6, <2>7, <2>8, GuardStep
<1> QED
  BY <1>1, <1>2 DEF GuardInv

\* The step of a request that is about one account changes codes of that account only.
LEMMA GuardCloses ==
    ASSUME AccountTypeOK, AccountTypeOK', GuardInv, NEW r \in Requests, request[r].pc # "idle",
           UNCHANGED <<account, overlapped>>,
           request'[r].pc \notin {"verifying", "requesting"},
           request'[r].user \in {request[r].user, "nobody"},
           \A q \in Requests \ {r} : request'[q] = request[q],
           Len(codes') = Len(codes),
           \A k \in 1..Len(codes) : /\ codes'[k].user = codes[k].user /\ codes'[k].purpose = codes[k].purpose
                                    /\ Trials(codes'[k]) = Trials(codes[k])
    PROVE  GuardInv'
<1>1. PICK e \in Emails : e = request[r].user
  BY ServedCall DEF Calls
<1>2. ~overlapped' => ~overlapped /\ \A q \in Requests \ {r} : request[q].user # e
  BY <1>1, SoleActor
<1> QED
  BY <1>1, <1>2, QuietStep

LEMMA OpenKeepsGuard ==
    ASSUME AccountTypeOK, AccountTypeOK', GuardInv, NEW r \in Requests, NEW e \in Emails, NEW work \in Calls,
           Open(r, e, work), UNCHANGED <<account, codes>>, work.user = e,
           work.pc = "verifying" =>
             /\ work.code \in Unused(e, work.purpose)
             /\ work.attempts = codes[work.code].attempts + 1
             /\ work.attempts <= MaxAttempts,
           work.pc = "requesting" => work.seen = Unused(e, work.purpose) /\ account[e].status # "none"
    PROVE  GuardInv'
<1>1. /\ request'[r] = work
      /\ \A q \in Requests \ {r} : request'[q] = request[q]
      /\ ~overlapped' => ~overlapped /\ \A q \in Requests : request[q].user # e
  BY Opened
<1>2. /\ Len(codes') = Len(codes)
      /\ \A k \in 1..Len(codes) : /\ codes'[k].user = codes[k].user /\ codes'[k].purpose = codes[k].purpose
                                  /\ Trials(codes'[k]) = Trials(codes[k])
      /\ \A d \in Emails : account[d].status # "none" => account'[d].status # "none"
  OBVIOUS
<1> QED
  BY <1>1, <1>2, QuietStep

LEMMA VerifyKeepsGuard ==
    ASSUME AccountTypeOK, AccountTypeOK', GuardInv, NEW r \in Requests, NEW e \in Emails, NEW purpose \in Purposes,
           NEW typed \in {0} \cup Unused(e, purpose), BeginVerify(r, e, purpose, typed)
    PROVE  GuardInv'
<1>1. PICK code \in Unused(e, purpose), work \in Calls :
         /\ code \in 1..Len(codes) /\ Usable(code)
         /\ Open(r, e, work)
         /\ work.pc = "verifying" /\ work.user = e /\ work.purpose = purpose /\ work.code = code
         /\ work.attempts = codes[code].attempts + 1
  BY VerifyBegun
<1>2. UNCHANGED <<account, codes>>
  BY DEF BeginVerify
<1>3. codes[code].attempts < MaxAttempts /\ codes[code].attempts \in Nat
  <2>1. codes[code] \in Codes
    BY <1>1, NumberOfRows
  <2> QED
    BY <1>1, <2>1 DEF Usable, Codes
<1>4. work.attempts <= MaxAttempts
  BY <1>1, <1>3, AccountAssumption
<1> QED
  BY <1>1, <1>2, <1>4, OpenKeepsGuard

LEMMA BeginningKeepsGuard ==
    ASSUME AccountTypeOK, AccountTypeOK', GuardInv, NEW r \in Requests, NEW e \in Emails,
           \/ BeginSignup(r, e) \/ BeginGoogle(r, e)
           \/ \E provider \in {"password", "google"} : Enter(r, e, provider)
           \/ \E purpose \in Purposes : BeginCode(r, e, purpose)
           \/ \E purpose \in Purposes : \E typed \in {0} \cup Unused(e, purpose) : BeginVerify(r, e, purpose, typed)
    PROVE  GuardInv'
<1>0. Len(codes) \in Nat
  BY NumberOfRows
<1>2. ASSUME NEW p \in {"signing up", "joining", "issuing"},
             Open(r, e, [Idle EXCEPT !.pc = p, !.user = e]), UNCHANGED <<account, codes>>
      PROVE  GuardInv'
  <2>1. p \in Stages
    BY DEF Stages
  <2>2. Entering(p, e) \in Calls /\ Entering(p, e).pc = p /\ Entering(p, e).user = e
    BY <2>1, CallBegins
  <2>3. Open(r, e, Entering(p, e))
    BY <1>2 DEF Entering
  <2> QED
    BY <1>2, <2>2, <2>3, OpenKeepsGuard
<1>3. CASE BeginSignup(r, e)
  BY <1>2, <1>3 DEF BeginSignup
<1>4. CASE BeginGoogle(r, e)
  BY <1>2, <1>4 DEF BeginGoogle
<1>5. ASSUME NEW provider \in {"password", "google"}, Enter(r, e, provider)
      PROVE  GuardInv'
  BY <1>2, <1>5 DEF Enter
<1>6. ASSUME NEW purpose \in Purposes, BeginCode(r, e, purpose)
      PROVE  GuardInv'
  <2> PICK unused : unused = Unused(e, purpose)
    OBVIOUS
  <2>1. unused \in SUBSET Nat
    BY <1>0 DEF Unused
  <2> PICK work : work = Asking(e, purpose, unused)
    OBVIOUS
  <2>2. work \in Calls /\ work.pc = "requesting" /\ work.user = e /\ work.purpose = purpose /\ work.seen = unused
    BY <2>1, CallRequests
  <2>3. Open(r, e, work) /\ UNCHANGED <<account, codes>>
    BY <1>6 DEF BeginCode, Asking
  <2>4. account[e].status # "none"
    BY <1>6 DEF BeginCode, Eligible
  <2> QED
    BY <2>2, <2>3, <2>4, OpenKeepsGuard
<1>7. ASSUME NEW purpose \in Purposes, NEW typed \in {0} \cup Unused(e, purpose), BeginVerify(r, e, purpose, typed)
      PROVE  GuardInv'
  BY <1>7, VerifyKeepsGuard
<1> QED
  BY <1>3, <1>4, <1>5, <1>6, <1>7

\* A signup finds no account, so no code either, and stores the first.
LEMMA SignupKeepsGuard ==
    ASSUME AccountTypeOK, AccountTypeOK', GuardInv, NEW r \in Requests, NEW e \in Emails, request[r].user = e,
           CommitSignup(r), account[e] = NoAccount
    PROVE  GuardInv'
<1>0. Len(codes) \in Nat /\ codes \in Seq(Codes) /\ request[r] \in Calls /\ account \in [Emails -> Accounts]
  <2>1. request[r].pc # "idle"
    BY DEF CommitSignup, Serving
  <2> QED
    BY <2>1, NumberOfRows, ServedCall DEF AccountTypeOK
<1>1. PICK row \in Accounts : row = [status |-> "pending", provider |-> "password", verified |-> FALSE]
  BY DEF Accounts
<1> PICK c : c = NewCode(e, Signup)
  OBVIOUS
<1>2. /\ account' = [account EXCEPT ![e] = row]
      /\ codes' = Append(codes, c)
      /\ request' = [request EXCEPT ![r].pc = "mailing", ![r].code = Len(codes) + 1]
      /\ UNCHANGED overlapped
  BY <1>1 DEF CommitSignup
<1>3. account'[e] = row /\ row.status = "pending" /\ \A d \in Emails \ {e} : account'[d] = account[d]
  BY <1>0, <1>1, <1>2, AccountRows
<1>4. /\ c \in Codes /\ c.user = e /\ c.purpose = Signup /\ c.attempts = 0 /\ c.guessed = 0 /\ c.spent = 0
  BY NewCodeIs DEF Purposes
<1>5. Len(codes') = Len(codes) + 1 /\ codes'[Len(codes) + 1] = c /\ \A k \in 1..Len(codes) : codes'[k] = codes[k]
  BY <1>0, <1>2, <1>4, CodeAppended
<1>6. /\ request'[r].pc = "mailing" /\ request'[r].user = e
      /\ \A q \in Requests \ {r} : request'[q] = request[q]
  <2> PICK n \in Nat : n = Len(codes) + 1
    BY <1>0
  <2>1. request' = [request EXCEPT ![r].pc = "mailing", ![r].code = n]
    BY <1>2
  <2> QED
    BY <1>0, <2>1, MailsNext
<1>7. ASSUME NEW k \in 1..Len(codes') PROVE k \in 1..Len(codes) \/ k = Len(codes) + 1
  BY <1>0, <1>5
<1>8. \A k \in 1..Len(codes) : codes[k].user # e
  BY NoAccountIs DEF GuardInv, KnownAccounts
<1>9. KnownAccounts'
  <2>1. \A d \in Emails : account[d].status # "none" => account'[d].status # "none"
    BY <1>3
  <2>2. \A k \in 1..Len(codes') : \/ k \in 1..Len(codes) /\ codes'[k].user = codes[k].user
                                  \/ account'[codes'[k].user].status # "none"
    BY <1>3, <1>4, <1>5, <1>7
  <2>3. request'[r].pc # "requesting" /\ KnownAccounts
    BY <1>6 DEF GuardInv
  <2> QED
    BY <1>6, <2>1, <2>2, <2>3, KnownStep
<1>10. ASSUME ~overlapped' PROVE \A d \in Emails : GuardOf(d)'
  <2>1. ~overlapped
    BY <1>2, <1>10
  <2>2. \A q \in Requests \ {r} : request'[q] = request[q] /\ request[q].user # e
    BY <1>6, <2>1, SoleActor
  <2>3. CodesOf(e)'
    <3>1. ASSUME NEW k \in 1..Len(codes'), codes'[k].user = e PROVE k = Len(codes) + 1
      BY <1>5, <1>7, <1>8, <3>1
    <3>2. MaxAttempts \in Nat
      BY AccountAssumption
    <3>3. ASSUME NEW purpose, NEW j \in Unused(e, purpose)' PROVE j = Len(codes) + 1
      BY <3>1 DEF Unused
    <3> QED
      BY <1>4, <1>5, <3>1, <3>2, <3>3 DEF CodesOf
  <2>4. CallIsCurrent(e, r)'
    BY <1>6 DEF CallIsCurrent
  <2>5. Len(codes) <= Len(codes')
    BY <1>0, <1>5
  <2>6. \A k \in 1..Len(codes) : /\ codes'[k].user = codes[k].user /\ codes'[k].purpose = codes[k].purpose
                                 /\ codes[k].user # e => Trials(codes'[k]) = Trials(codes[k])
    BY <1>5
  <2>7. \A k \in 1..Len(codes') : k > Len(codes) => codes'[k].user = e
    BY <1>0, <1>4, <1>5, <1>7
  <2>8. request'[r].user \in {e, "nobody"}
    BY <1>6
  <2> QED
    BY <2>1, <2>2, <2>3, <2>4, <2>5, <2>6, <2>7, <2>8, GuardStep
<1> QED
  BY <1>9, <1>10 DEF GuardInv

\* The codes that were read are consumed, and they are all that was unused.
LEMMA CodeKeepsGuard ==
    ASSUME AccountTypeOK, AccountTypeOK', GuardInv, NEW r \in Requests, NEW e \in Emails, request[r].user = e,
           CommitCode(r)
    PROVE  GuardInv'
<1>0. Len(codes) \in Nat /\ codes \in Seq(Codes) /\ request[r] \in Calls /\ request[r].pc = "requesting"
  <2>1. request[r].pc = "requesting"
    BY DEF CommitCode, Serving
  <2> QED
    BY <2>1, NumberOfRows, ServedCall
<1> PICK purpose \in Purposes : purpose = request[r].purpose
  BY <1>0 DEF Calls
<1> PICK ks : ks = request[r].seen
  OBVIOUS
<1> PICK c : c = NewCode(e, purpose)
  OBVIOUS
<1>1. /\ request' = [request EXCEPT ![r].pc = "mailing", ![r].code = Len(codes) + 1]
      /\ UNCHANGED <<account, overlapped>>
  BY DEF CommitCode
<1>2. /\ Len(codes') = Len(codes) + 1 /\ codes'[Len(codes) + 1] = c
      /\ \A k \in 1..Len(codes) :
           /\ codes'[k].user = codes[k].user /\ codes'[k].purpose = codes[k].purpose
           /\ codes'[k].attempts = codes[k].attempts /\ codes'[k].guessed = codes[k].guessed
           /\ codes'[k].spent = codes[k].spent
           /\ codes'[k].consumed <=> codes[k].consumed \/ k \in ks
  BY CodeAdded
<1>3. c \in Codes /\ c.user = e /\ c.purpose = purpose /\ c.attempts = 0 /\ c.guessed = 0 /\ c.spent = 0
  BY NewCodeIs
<1>4. /\ request'[r].pc = "mailing" /\ request'[r].user = e
      /\ \A q \in Requests \ {r} : request'[q] = request[q]
  <2> PICK n \in Nat : n = Len(codes) + 1
    BY <1>0
  <2>1. request' = [request EXCEPT ![r].pc = "mailing", ![r].code = n]
    BY <1>1
  <2> QED
    BY <1>0, <2>1, MailsNext
<1>5. UNCHANGED <<account, overlapped>>
  BY <1>1
<1>6. ASSUME NEW k \in 1..Len(codes') PROVE k \in 1..Len(codes) \/ k = Len(codes) + 1
  BY <1>0, <1>2
<1>7. KnownAccounts'
  <2>1. \A d \in Emails : account[d].status # "none" => account'[d].status # "none"
    BY <1>5
  <2>2. account'[e].status # "none" /\ KnownAccounts
    BY <1>0, <1>5 DEF GuardInv, KnownAccounts
  <2>3. \A k \in 1..Len(codes') : \/ k \in 1..Len(codes) /\ codes'[k].user = codes[k].user
                                  \/ account'[codes'[k].user].status # "none"
    BY <1>2, <1>3, <1>6, <2>2
  <2>4. request'[r].pc # "requesting"
    BY <1>4
  <2> QED
    BY <1>4, <2>1, <2>2, <2>3, <2>4, KnownStep
<1>8. ASSUME ~overlapped' PROVE \A d \in Emails : GuardOf(d)'
  <2>1. ~overlapped
    BY <1>5, <1>8
  <2>2. \A q \in Requests \ {r} : request'[q] = request[q] /\ request[q].user # e
    BY <1>4, <2>1, SoleActor
  <2>3. CodesOf(e) /\ ks = Unused(e, purpose)
    BY <1>0, <2>1 DEF GuardInv, GuardOf, CallIsCurrent
  <2>4. CodesOf(e)'
    <3>1. ASSUME NEW k \in 1..Len(codes'), codes'[k].user = e
          PROVE  /\ codes'[k].spent <= 1
                 /\ ~codes'[k].consumed => codes'[k].spent = 0
                 /\ codes'[k].guessed <= codes'[k].attempts /\ codes'[k].attempts <= MaxAttempts
      <4>1. CASE k \in 1..Len(codes)
        BY <1>2, <2>3, <3>1, <4>1 DEF CodesOf
      <4>2. CASE k = Len(codes) + 1
        BY <1>2, <1>3, <4>2, AccountAssumption
      <4> QED
        BY <1>6, <4>1, <4>2
    <3>2. ASSUME NEW p \in Purposes, NEW j \in Unused(e, p)', NEW k \in Unused(e, p)' PROVE j = k
      <4>1. CASE p = purpose
        <5>1. ASSUME NEW i \in Unused(e, p)' PROVE i = Len(codes) + 1
          <6>1. i \in 1..Len(codes') /\ codes'[i].user = e /\ codes'[i].purpose = purpose /\ ~codes'[i].consumed
            BY <4>1 DEF Unused
          <6>2. i \notin 1..Len(codes)
            BY <1>2, <2>3, <6>1 DEF Unused
          <6> QED
            BY <1>6, <6>1, <6>2
        <5> QED
          BY <5>1
      <4>2. CASE p # purpose
        <5>1. ASSUME NEW i \in Unused(e, p)' PROVE i \in Unused(e, p)
          <6>1. i \in 1..Len(codes') /\ codes'[i].user = e /\ codes'[i].purpose = p /\ ~codes'[i].consumed
            BY DEF Unused
          <6>2. i \in 1..Len(codes)
            BY <1>2, <1>3, <1>6, <4>2, <6>1
          <6> QED
            BY <1>2, <6>1, <6>2 DEF Unused
        <5> QED
          BY <2>3, <5>1 DEF CodesOf
      <4> QED
        BY <4>1, <4>2
    <3> QED
      BY <3>1, <3>2 DEF CodesOf
  <2>5. CallIsCurrent(e, r)'
    BY <1>4 DEF CallIsCurrent
  <2>6. Len(codes) <= Len(codes')
    BY <1>0, <1>2
  <2>7. ASSUME NEW k \in 1..Len(codes)
        PROVE  /\ codes'[k].user = codes[k].user /\ codes'[k].purpose = codes[k].purpose
               /\ codes[k].user # e => Trials(codes'[k]) = Trials(codes[k])
    <3>1. k \in 1..Len(codes')
      BY <1>0, <1>2
    <3>2. codes[k].consumed \in BOOLEAN /\ codes'[k].consumed \in BOOLEAN
      <4>1. codes[k] \in Codes /\ codes'[k] \in Codes
        BY <3>1, ElementOfSeq DEF AccountTypeOK
      <4> QED
        BY <4>1 DEF Codes
    <3>3. codes[k].user # e => codes'[k].consumed = codes[k].consumed
      BY <1>2, <2>3, <3>2 DEF Unused
    <3> QED
      BY <1>2, <3>3 DEF Trials
  <2>8. \A k \in 1..Len(codes') : k > Len(codes) => codes'[k].user = e
    BY <1>0, <1>2, <1>3, <1>6
  <2>9. request'[r].user \in {e, "nobody"}
    BY <1>4
  <2> QED
    BY <2>1, <2>2, <2>4, <2>5, <2>6, <2>7, <2>8, <2>9, GuardStep
<1> QED
  BY <1>7, <1>8 DEF GuardInv

\* A guess counts against the code it was made of; the right one consumes it.
LEMMA VerifiedKeepsGuard ==
    ASSUME AccountTypeOK, AccountTypeOK', GuardInv, NEW r \in Requests, NEW e \in Emails, request[r].user = e,
           CommitVerify(r)
    PROVE  GuardInv'
<1>0. /\ Len(codes) \in Nat /\ codes \in Seq(Codes) /\ request[r] \in Calls /\ request[r].pc = "verifying"
      /\ account \in [Emails -> Accounts] /\ overlapped' = overlapped
  <2>1. request[r].pc = "verifying" /\ overlapped' = overlapped
    BY DEF CommitVerify, Serving
  <2> QED
    BY <2>1, NumberOfRows, ServedCall DEF AccountTypeOK
<1> PICK k \in 1..Len(codes) : k = request[r].code
  BY <1>0 DEF AccountTypeOK
<1> PICK a \in Nat : a = request[r].attempts
  BY <1>0 DEF Calls
<1>1. /\ Len(codes') = Len(codes)
      /\ \A j \in 1..Len(codes) : /\ codes'[j].user = codes[j].user /\ codes'[j].purpose = codes[j].purpose
                                  /\ j # k => codes'[j] = codes[j]
      /\ codes'[k].attempts = a
      /\ \/ codes'[k].consumed = codes[k].consumed /\ codes'[k].guessed = codes[k].guessed + 1
            /\ codes'[k].spent = codes[k].spent
         \/ codes'[k].consumed /\ codes'[k].guessed = codes[k].guessed
            /\ codes'[k].spent = codes[k].spent + 1
  <2>1. CASE request[r].typed # k
    <3>1. codes' = [codes EXCEPT ![k].attempts = a, ![k].guessed = @ + 1]
      BY <2>1, SMTT(30) DEF CommitVerify
    <3> QED
      BY <1>0, <3>1, CodeMissed
  <2>2. CASE request[r].typed = k
    <3>1. codes' = [codes EXCEPT ![k].attempts = a, ![k].consumed = TRUE, ![k].spent = @ + 1]
      BY <2>2 DEF CommitVerify
    <3> QED
      BY <1>0, <3>1, CodeSpent
  <2> QED
    BY <2>1, <2>2, SMTT(30)
<1>2. /\ request'[r].pc \notin {"verifying", "requesting"} /\ request'[r].user \in {e, "nobody"}
      /\ \A q \in Requests \ {r} : request'[q] = request[q]
  <2>1. CASE Close(r)
    BY <2>1, Closed, IdleIsNone
  <2>2. CASE request' = [request EXCEPT ![r].pc = "issuing"]
    BY <1>0, <2>2, GoesOn DEF Stages
  <2> QED
    BY <2>1, <2>2 DEF CommitVerify
<1>3. \A d \in Emails : account[d].status # "none" => account'[d].status # "none"
  <2>1. account' = account \/ account' = [account EXCEPT ![e].status = "active", ![e].verified = TRUE]
    BY DEF CommitVerify
  <2> QED
    BY <1>0, <2>1, AccountRows
<1>4. KnownAccounts'
  <2>1. \A j \in 1..Len(codes') : j \in 1..Len(codes) /\ codes'[j].user = codes[j].user
    BY <1>1
  <2>2. KnownAccounts /\ request'[r].pc # "requesting"
    BY <1>2 DEF GuardInv
  <2> QED
    BY <1>2, <1>3, <2>1, <2>2, KnownStep
<1>5. ASSUME ~overlapped' PROVE \A d \in Emails : GuardOf(d)'
  <2>1. ~overlapped
    BY <1>0, <1>5
  <2>2. \A q \in Requests \ {r} : request'[q] = request[q] /\ request[q].user # e
    BY <1>2, <2>1, SoleActor
  <2>3. CodesOf(e) /\ CallIsCurrent(e, r)
    BY <2>1 DEF GuardInv, GuardOf
  <2>4. /\ codes[k].user = e /\ ~codes[k].consumed
        /\ a = codes[k].attempts + 1 /\ a <= MaxAttempts
    BY <1>0, <2>3 DEF CallIsCurrent, Unused
  <2>5. codes[k].attempts \in Nat /\ codes[k].guessed \in Nat /\ codes[k].spent \in Nat
    <3>1. codes[k] \in Codes
      BY <1>0, ElementOfSeq
    <3> QED
      BY <3>1 DEF Codes
  <2>6. CodesOf(e)'
    <3>1. ASSUME NEW j \in 1..Len(codes'), codes'[j].user = e
          PROVE  /\ codes'[j].spent <= 1
                 /\ ~codes'[j].consumed => codes'[j].spent = 0
                 /\ codes'[j].guessed <= codes'[j].attempts /\ codes'[j].attempts <= MaxAttempts
      <4>1. CASE j # k
        BY <1>1, <2>3, <3>1, <4>1 DEF CodesOf
      <4>2. CASE j = k
        <5>1. codes[k].spent = 0 /\ codes[k].guessed <= codes[k].attempts
          BY <2>3, <2>4 DEF CodesOf
        <5>2. codes'[k].attempts = codes[k].attempts + 1 /\ codes'[k].attempts <= MaxAttempts
          BY <1>1, <2>4
        <5>3. codes'[k].guessed <= codes[k].guessed + 1 /\ codes'[k].guessed \in Nat
          BY <1>1, <2>5
        <5>4. codes'[k].guessed <= codes'[k].attempts
          BY <2>5, <5>1, <5>2, <5>3, SMTT(30)
        <5>5. codes'[k].spent <= 1 /\ (~codes'[k].consumed => codes'[k].spent = 0)
          BY <1>1, <5>1
        <5> QED
          BY <4>2, <5>2, <5>4, <5>5
      <4> QED
        BY <4>1, <4>2
    <3>2. ASSUME NEW purpose \in Purposes, NEW i \in Unused(e, purpose)' PROVE i \in Unused(e, purpose)
      <4>1. /\ i \in 1..Len(codes) /\ codes'[i].user = e /\ codes'[i].purpose = purpose /\ ~codes'[i].consumed
        BY <1>1 DEF Unused
      <4>2. ~codes[i].consumed
        BY <1>1, <2>4, <4>1
      <4> QED
        BY <1>1, <4>1, <4>2 DEF Unused
    <3>3. \A purpose \in Purposes : \A i, j \in Unused(e, purpose)' : i = j
      BY <2>3, <3>2 DEF CodesOf
    <3> QED
      BY <3>1, <3>3 DEF CodesOf
  <2>7. CallIsCurrent(e, r)'
    BY <1>2 DEF CallIsCurrent
  <2>8. \A j \in 1..Len(codes) : /\ codes'[j].user = codes[j].user /\ codes'[j].purpose = codes[j].purpose
                                 /\ codes[j].user # e => Trials(codes'[j]) = Trials(codes[j])
    BY <1>1, <2>4
  <2>9. Len(codes) <= Len(codes') /\ \A j \in 1..Len(codes') : j > Len(codes) => codes'[j].user = e
    BY <1>0, <1>1
  <2> QED
    BY <1>2, <2>1, <2>2, <2>6, <2>7, <2>8, <2>9, GuardStep
<1> QED
  BY <1>4, <1>5 DEF GuardInv

LEMMA CommitKeepsGuard ==
    ASSUME AccountTypeOK, AccountTypeOK', GuardInv, NEW r \in Requests,
           \/ CommitSignup(r) \/ CommitGoogle(r) \/ CommitCode(r) \/ CommitVerify(r)
           \/ \E ok \in BOOLEAN : Deliver(r, ok) \/ Issue(r, ok)
    PROVE  GuardInv'
<1>0. Len(codes) \in Nat /\ codes \in Seq(Codes) /\ account \in [Emails -> Accounts]
  BY NumberOfRows DEF AccountTypeOK
<1>1. request[r] \in Calls /\ request[r].user \in Emails /\ request[r].pc # "idle"
  <2>1. request[r].pc # "idle"
    BY DEF CommitSignup, CommitGoogle, CommitCode, CommitVerify, Deliver, Issue, Serving
  <2>2. request[r] \in Calls
    BY <2>1, ServedCall
  <2> QED
    BY <2>1, <2>2, SMTT(30) DEF Calls
<1> PICK e \in Emails : e = request[r].user
  BY <1>1
<1>2. ASSUME Close(r), UNCHANGED <<account, codes, overlapped>> PROVE GuardInv'
  <2>1. /\ request'[r].pc = "idle" /\ request'[r].user = "nobody"
        /\ \A q \in Requests \ {r} : request'[q] = request[q]
    BY <1>2, Closed, IdleIsNone
  <2>2. /\ Len(codes') = Len(codes)
        /\ \A k \in 1..Len(codes) : /\ codes'[k].user = codes[k].user /\ codes'[k].purpose = codes[k].purpose
                                    /\ Trials(codes'[k]) = Trials(codes[k])
    BY <1>2
  <2> QED
    BY <1>1, <1>2, <2>1, <2>2, GuardCloses
<1>3. CASE CommitSignup(r)
  <2>1. CASE account[e] = NoAccount
    BY <1>3, <2>1, SignupKeepsGuard
  <2>2. CASE account[e] # NoAccount
    BY <1>2, <1>3, <2>2 DEF CommitSignup
  <2> QED
    BY <2>1, <2>2
<1>4. CASE CommitGoogle(r)
  <2>1. CASE account[e] = NoAccount
    <3>1. PICK row \in Accounts : row = [status |-> "active", provider |-> "google", verified |-> TRUE]
      BY DEF Accounts
    <3>2. /\ account' = [account EXCEPT ![e] = row] /\ UNCHANGED <<codes, overlapped>>
          /\ request' = [request EXCEPT ![r].pc = "issuing"]
      BY <1>4, <2>1, <3>1 DEF CommitGoogle
    <3>3. account'[e] = row /\ \A d \in Emails \ {e} : account'[d] = account[d]
      BY <1>0, <3>2, AccountRows
    <3>4. request'[r].pc = "issuing" /\ request'[r].user = e /\ \A q \in Requests \ {r} : request'[q] = request[q]
      BY <1>1, <3>2, GoesOn DEF Stages
    <3>5. \A d \in Emails : account[d].status # "none" => account'[d].status # "none"
      BY <3>1, <3>3
    <3>6. /\ Len(codes') = Len(codes)
          /\ \A k \in 1..Len(codes) : /\ codes'[k].user = codes[k].user /\ codes'[k].purpose = codes[k].purpose
                                      /\ Trials(codes'[k]) = Trials(codes[k])
      BY <3>2
    <3>7. ~overlapped' => ~overlapped /\ \A q \in Requests \ {r} : request[q].user # e
      BY <3>2, SoleActor
    <3> QED
      BY <3>4, <3>5, <3>6, <3>7, QuietStep
  <2>2. CASE account[e] # NoAccount
    BY <1>2, <1>4, <2>2 DEF CommitGoogle
  <2> QED
    BY <2>1, <2>2
<1>5. CASE CommitCode(r)
  BY <1>5, CodeKeepsGuard
<1>6. CASE CommitVerify(r)
  BY <1>6, VerifiedKeepsGuard
<1>7. ASSUME NEW sent \in BOOLEAN, Deliver(r, sent) PROVE GuardInv'
  <2>1. Serving(r, "mailing") /\ Close(r) /\ UNCHANGED <<account, overlapped>>
    BY <1>7 DEF Deliver
  <2>2. request[r].code \in 1..Len(codes)
    BY <2>1 DEF AccountTypeOK, Serving
  <2>3. /\ Len(codes') = Len(codes)
        /\ \A k \in 1..Len(codes) : /\ codes'[k].user = codes[k].user /\ codes'[k].purpose = codes[k].purpose
                                    /\ Trials(codes'[k]) = Trials(codes[k])
    <3>1. codes' = codes \/ codes' = [codes EXCEPT ![request[r].code].delivered = TRUE]
      BY <1>7 DEF Deliver
    <3> QED
      BY <1>0, <2>2, <3>1, CodeMarked
  <2>4. /\ request'[r].pc = "idle" /\ request'[r].user = "nobody"
        /\ \A q \in Requests \ {r} : request'[q] = request[q]
    BY <2>1, Closed, IdleIsNone
  <2> QED
    BY <1>1, <2>1, <2>3, <2>4, GuardCloses
<1>8. ASSUME NEW stored \in BOOLEAN, Issue(r, stored) PROVE GuardInv'
  BY <1>2, <1>8 DEF Issue
<1> QED
  BY <1>3, <1>4, <1>5, <1>6, <1>7, <1>8

LEMMA UseKeepsGuard ==
    ASSUME AccountTypeOK, AccountTypeOK', GuardInv, NEW r \in Requests,
           \/ \E s \in 1..Len(sessions) : Access(r, s) \/ RevokeOther(r, s)
           \/ Logout(r) \/ BeginSettings(r) \/ Leave(r)
           \/ \E fs \in (SUBSET Fields) \ {{}} : \E new \in [fs -> Values] : CommitSettings(r, fs, new)
    PROVE  GuardInv'
<1>0. Len(sessions) \in Nat /\ \A s \in 1..Len(sessions) : sessions[s] \in [user : Emails, revoked : BOOLEAN]
  BY NumberOfRows
<1>1. ASSUME NEW s \in 1..Len(sessions), Access(r, s) PROVE GuardInv'
  <2> PICK e \in Emails : e = sessions[s].user
    BY <1>0
  <2> PICK work : work = Using(e, s)
    OBVIOUS
  <2>1. work \in Calls /\ work.pc = "using" /\ work.user = e
    BY <1>0, CallNames
  <2>2. Open(r, e, work) /\ UNCHANGED <<account, codes>>
    BY <1>1 DEF Access, Using
  <2> QED
    BY <2>1, <2>2, OpenKeepsGuard
<1>2. ASSUME request[r].pc # "idle", UNCHANGED <<account, codes, overlapped>>,
             Close(r) \/ \E p \in {"updating", "creating"} : request' = [request EXCEPT ![r].pc = p]
      PROVE  GuardInv'
  <2>1. /\ request'[r].pc \notin {"verifying", "requesting"}
        /\ request'[r].user \in {request[r].user, "nobody"}
        /\ \A q \in Requests \ {r} : request'[q] = request[q]
    <3>1. CASE Close(r)
      BY <3>1, Closed, IdleIsNone
    <3>2. ASSUME NEW p \in {"updating", "creating"}, request' = [request EXCEPT ![r].pc = p]
          PROVE  /\ request'[r].pc = p /\ request'[r].user = request[r].user
                 /\ \A q \in Requests \ {r} : request'[q] = request[q]
      <4>1. request[r] \in Calls /\ p \in Stages
        BY <1>2, ServedCall DEF Stages
      <4> QED
        BY <3>2, <4>1, GoesOn
    <3> QED
      BY <1>2, <3>1, <3>2
  <2>2. /\ Len(codes') = Len(codes)
        /\ \A k \in 1..Len(codes) : /\ codes'[k].user = codes[k].user /\ codes'[k].purpose = codes[k].purpose
                                    /\ Trials(codes'[k]) = Trials(codes[k])
    BY <1>2
  <2> QED
    BY <1>2, <2>1, <2>2, GuardCloses
<1>3. CASE Logout(r) \/ \E s \in 1..Len(sessions) : RevokeOther(r, s)
  BY <1>2, <1>3 DEF Logout, RevokeOther, Serving
<1>4. CASE BeginSettings(r)
  BY <1>2, <1>4 DEF BeginSettings, Serving
<1>5. CASE Leave(r) \/ \E fs \in (SUBSET Fields) \ {{}} : \E new \in [fs -> Values] : CommitSettings(r, fs, new)
  BY <1>2, <1>5 DEF Leave, CommitSettings, Serving
<1> QED
  BY <1>1, <1>3, <1>4, <1>5

\* The codes of an account guard it as long as the requests about it come one at a time:
\* at most one is open for each purpose, none is spent twice, and none takes more wrong
\* guesses than allowed.
THEOREM CodesGuard == AccountSpec => []CodesGuardTheAccount
<1>1. AccountInit => GuardInv
  <2> SUFFICES ASSUME AccountInit PROVE GuardInv
    OBVIOUS
  <2>1. \A r \in Requests : request[r].pc = "idle" /\ request[r].user = "nobody"
    BY IdleIsNone DEF AccountInit
  <2>2. codes = <<>> /\ Len(codes) = 0 /\ \A e \in Emails : \A purpose : Unused(e, purpose) = {}
    BY DEF AccountInit, Unused
  <2>3. KnownAccounts
    BY <2>1, <2>2 DEF KnownAccounts
  <2>4. ASSUME NEW e \in Emails PROVE GuardOf(e)
    <3>1. e # "nobody"
      BY AccountAssumption
    <3>2. CodesOf(e)
      BY <2>2 DEF CodesOf
    <3> QED
      BY <2>1, <3>1, <3>2 DEF GuardOf, SoleCall
  <2> QED
    BY <2>3, <2>4 DEF GuardInv
<1>2. AccountTypeOK /\ AccountTypeOK' /\ GuardInv /\ [AccountNext]_accountVars => GuardInv'
  <2> SUFFICES ASSUME AccountTypeOK, AccountTypeOK', GuardInv, [AccountNext]_accountVars PROVE GuardInv'
    OBVIOUS
  <2>1. ASSUME NEW r \in Requests, NEW e \in Emails,
               \/ BeginSignup(r, e) \/ BeginGoogle(r, e)
               \/ \E provider \in {"password", "google"} : Enter(r, e, provider)
               \/ \E purpose \in {Signup, Login} :
                    \/ BeginCode(r, e, purpose)
                    \/ \E typed \in {0} \cup Unused(e, purpose) : BeginVerify(r, e, purpose, typed)
        PROVE  GuardInv'
    BY <2>1, BeginningKeepsGuard DEF Purposes
  <2>2. ASSUME NEW r \in Requests,
               \/ CommitSignup(r) \/ CommitGoogle(r) \/ CommitCode(r) \/ CommitVerify(r)
               \/ \E ok \in BOOLEAN : Deliver(r, ok) \/ Issue(r, ok)
        PROVE  GuardInv'
    BY <2>2, CommitKeepsGuard
  <2>3. ASSUME NEW r \in Requests,
               \/ \E s \in 1..Len(sessions) : Access(r, s) \/ RevokeOther(r, s)
               \/ Logout(r) \/ BeginSettings(r) \/ Leave(r)
               \/ \E fs \in (SUBSET Fields) \ {{}} : \E new \in [fs -> Values] : CommitSettings(r, fs, new)
        PROVE  GuardInv'
    BY <2>3, UseKeepsGuard
  <2>4. ASSUME Len(codes') = Len(codes), UNCHANGED <<account, request, overlapped>>,
               \A k \in 1..Len(codes) : /\ codes'[k].user = codes[k].user /\ codes'[k].purpose = codes[k].purpose
                                        /\ Trials(codes'[k]) = Trials(codes[k])
        PROVE  GuardInv'
    <3>0. Len(codes) \in Nat
      BY NumberOfRows
    <3>1. KnownAccounts'
      BY <2>4 DEF GuardInv, KnownAccounts
    <3>2. ASSUME ~overlapped', NEW e \in Emails PROVE GuardOf(e)'
      <4>1. GuardOf(e)
        BY <2>4, <3>2 DEF GuardInv
      <4>2. Len(codes) <= Len(codes')
            /\ \A k \in 1..Len(codes') : codes'[k].user = e => k <= Len(codes)
        BY <2>4, <3>0
      <4>3. \A k \in 1..Len(codes) : /\ codes'[k].user = codes[k].user /\ codes'[k].purpose = codes[k].purpose
                                     /\ codes[k].user = e => Trials(codes'[k]) = Trials(codes[k])
        BY <2>4
      <4>4. /\ \A purpose : Unused(e, purpose)' = Unused(e, purpose)
            /\ CodesOf(e)'
            /\ \A purpose : \A k \in Unused(e, purpose) : codes'[k].attempts = codes[k].attempts
        BY <4>1, <4>2, <4>3, CodesUntouched DEF GuardOf
      <4>5. SoleCall(e)'
        BY <2>4, <4>1 DEF GuardOf, SoleCall
      <4>6. ASSUME NEW q \in Requests, request'[q].user = e PROVE CallIsCurrent(e, q)'
        <5>1. request'[q] = request[q] /\ CallIsCurrent(e, q)
          BY <2>4, <4>1, <4>6 DEF GuardOf
        <5> QED
          BY <4>4, <5>1, CallUntouched
      <4> QED
        BY <4>4, <4>5, <4>6 DEF GuardOf
    <3> QED
      BY <3>1, <3>2 DEF GuardInv
  <2>5. CASE Time
    BY <2>4, <2>5, TimePasses
  <2>6. CASE UNCHANGED accountVars
    BY <2>4, <2>6 DEF accountVars
  <2> QED
    BY <2>1, <2>2, <2>3, <2>5, <2>6 DEF AccountNext
<1>3. AccountTypeOK /\ GuardInv => CodesGuardTheAccount
  <2> SUFFICES ASSUME AccountTypeOK, GuardInv, ~overlapped
               PROVE  /\ \A k \in 1..Len(codes) : codes[k].spent <= 1 /\ codes[k].guessed <= MaxAttempts
                      /\ \A e \in Emails, purpose \in Purposes : Cardinality(Unused(e, purpose)) <= 1
    BY DEF CodesGuardTheAccount, CodesAreSpentOnce, GuessesAreBounded, OneCodeOpen, Purposes
  <2>1. \A e \in Emails : CodesOf(e)
    BY DEF GuardInv, GuardOf
  <2>2. ASSUME NEW k \in 1..Len(codes) PROVE codes[k].spent <= 1 /\ codes[k].guessed <= MaxAttempts
    <3>1. codes[k] \in Codes
      BY NumberOfRows
    <3>2. codes[k].user \in Emails /\ codes[k].guessed \in Nat /\ codes[k].attempts \in Nat /\ codes[k].spent \in Nat
      BY <3>1 DEF Codes
    <3>3. codes[k].spent <= 1 /\ codes[k].guessed <= codes[k].attempts /\ codes[k].attempts <= MaxAttempts
      BY <2>1, <3>2 DEF CodesOf
    <3> QED
      BY <3>2, <3>3, AccountAssumption
  <2>3. ASSUME NEW e \in Emails, NEW purpose \in Purposes PROVE Cardinality(Unused(e, purpose)) <= 1
    <3>1. \A j, k \in Unused(e, purpose) : j = k
      BY <2>1 DEF CodesOf
    <3>2. CASE Unused(e, purpose) = {}
      BY <3>2, FS_EmptySet
    <3>3. ASSUME NEW k \in Unused(e, purpose) PROVE Cardinality(Unused(e, purpose)) <= 1
      <4>1. Unused(e, purpose) = {k}
        BY <3>1
      <4> QED
        BY <4>1, FS_Singleton
    <3> QED
      BY <3>2, <3>3
  <2> QED
    BY <2>2, <2>3
<1> QED
  BY <1>1, <1>2, <1>3, AccountTypeCorrect, PTL DEF AccountSpec

-------------------------------------------------------------------------------
\* The sending account

\* While callbacks take turns: the one at work writes the temporary file, a
\* file about to be renamed has its token, and so has the one in place.
MailInv ==
    /\ path = temp => path = None
    /\ ~together =>
        /\ \A c, d \in Callbacks : callback[c] # Waiting /\ callback[d] # Waiting => c = d
        /\ \A c \in Callbacks : callback[c] # Waiting => callback[c].file = temp
        /\ \A c \in Callbacks : callback[c].pc = "renaming" => content[temp] = "token"
        /\ path # None => content[path] = "token"
        /\ authorized => path # None

\* Files and callbacks stay what they are, whoever stops where.
THEOREM MailTypeCorrect == MailSpec => []MailTypeOK
<1> USE MailAssumption DEF None, Waiting
<1>1. MailInit => MailTypeOK
  BY DEF MailInit, MailTypeOK
<1>2. MailTypeOK /\ [MailNext]_mailVars => MailTypeOK'
  <2> SUFFICES ASSUME MailTypeOK, [MailNext]_mailVars PROVE MailTypeOK'
    OBVIOUS
  <2>1. ASSUME NEW c \in Callbacks, NEW i \in Inodes, Truncate(c, i) PROVE MailTypeOK'
    BY <2>1 DEF MailTypeOK, Truncate
  <2>2. ASSUME NEW c \in Callbacks, Write(c) PROVE MailTypeOK'
    <3>1. callback[c] = [pc |-> "writing", file |-> callback[c].file] /\ callback[c].file \in Inodes
      BY <2>2 DEF MailTypeOK, Write
    <3>2. callback'[c] = [pc |-> "renaming", file |-> callback[c].file]
      BY <2>2, <3>1 DEF MailTypeOK, Write
    <3>3. \A d \in Callbacks \ {c} : callback'[d] = callback[d]
      BY <2>2 DEF MailTypeOK, Write
    <3>4. callback' = [d \in Callbacks |-> callback'[d]]
      BY <2>2 DEF MailTypeOK, Write
    <3>5. \A d \in Callbacks : callback'[d] \in {Waiting} \cup [pc : {"writing", "renaming"}, file : Inodes]
      BY <3>1, <3>2, <3>3 DEF MailTypeOK
    <3>6. callback' \in [Callbacks -> {Waiting} \cup [pc : {"writing", "renaming"}, file : Inodes]]
      BY <3>4, <3>5
    <3> QED
      BY <2>2, <3>1, <3>6 DEF MailTypeOK, Write
  <2>3. ASSUME NEW c \in Callbacks, Rename(c) PROVE MailTypeOK'
    BY <2>3 DEF MailTypeOK, Rename
  <2>4. ASSUME NEW c \in Callbacks, Break(c) PROVE MailTypeOK'
    BY <2>4 DEF MailTypeOK, Break
  <2>5. CASE UNCHANGED mailVars
    BY <2>5 DEF MailTypeOK, mailVars
  <2> QED
    BY <2>1, <2>2, <2>3, <2>4, <2>5 DEF MailNext
<1> QED
  BY <1>1, <1>2, PTL DEF MailSpec

\* AuthorizationLasts: while callbacks of the consent page come one at a time,
\* an authorization once stored (_write_refresh_token) is there to send with,
\* whatever later one is broken off between the temporary file and its renaming.
THEOREM AuthorizationStays == MailSpec => []AuthorizationLasts
<1> USE MailAssumption DEF None, Waiting
<1>1. MailInit => MailInv
  BY DEF MailInit, MailInv
<1>2. MailTypeOK /\ MailInv /\ [MailNext]_mailVars => MailInv'
  <2> SUFFICES ASSUME MailTypeOK, MailInv, [MailNext]_mailVars PROVE MailInv'
    OBVIOUS
  <2>1. ASSUME NEW c \in Callbacks, NEW i \in Inodes, Truncate(c, i) PROVE MailInv'
    <3>1. /\ i # path /\ temp' = i /\ path' = path /\ authorized' = authorized
          /\ content'[i] = "empty" /\ \A j \in Inodes \ {i} : content'[j] = content[j]
          /\ callback'[c] = [pc |-> "writing", file |-> i]
          /\ \A d \in Callbacks \ {c} : callback'[d] = callback[d]
      BY <2>1 DEF Truncate, InUse, MailTypeOK, MailInv
    <3>2. ~together' => ~together /\ \A d \in Callbacks : callback[d] = Waiting
      BY <2>1 DEF Truncate
    <3> QED
      BY <3>1, <3>2 DEF MailInv, MailTypeOK
  <2>2. ASSUME NEW c \in Callbacks, Write(c) PROVE MailInv'
    <3>1. callback[c] # Waiting /\ callback[c].file \in Inodes
      BY <2>2 DEF Write, MailTypeOK
    <3>2. /\ callback'[c].file = callback[c].file /\ callback'[c].pc = "renaming"
          /\ \A d \in Callbacks \ {c} : callback'[d] = callback[d]
          /\ content'[callback[c].file] = "token"
          /\ \A j \in Inodes \ {callback[c].file} : content'[j] = content[j]
      BY <2>2, <3>1 DEF Write, MailTypeOK
    <3>3. UNCHANGED <<path, temp, authorized, together>>
      BY <2>2 DEF Write
    <3> QED
      BY <3>1, <3>2, <3>3 DEF MailInv, MailTypeOK
  <2>3. ASSUME NEW c \in Callbacks, Rename(c) PROVE MailInv'
    <3>1. /\ callback[c] # Waiting /\ callback'[c] = Waiting /\ UNCHANGED <<content, together>>
          /\ \A d \in Callbacks \ {c} : callback'[d] = callback[d]
      BY <2>3 DEF Rename, MailTypeOK
    <3>2. CASE temp = None
      BY <2>3, <3>1, <3>2 DEF MailInv, MailTypeOK, Rename
    <3>3. CASE temp # None
      BY <2>3, <3>1, <3>3 DEF MailInv, MailTypeOK, Rename
    <3> QED
      BY <3>2, <3>3
  <2>4. ASSUME NEW c \in Callbacks, Break(c) PROVE MailInv'
    BY <2>4 DEF MailInv, MailTypeOK, Break
  <2>5. CASE UNCHANGED mailVars
    BY <2>5 DEF MailInv, mailVars
  <2> QED
    BY <2>1, <2>2, <2>3, <2>4, <2>5 DEF MailNext
<1>3. MailInv => AuthorizationLasts
  BY DEF MailInv, AuthorizationLasts, CanSend
<1> QED
  BY <1>1, <1>2, <1>3, MailTypeCorrect, PTL DEF MailSpec

-------------------------------------------------------------------------------
\* Uploads

\* The point an upload has reached, what is stored of it by then, and that
\* from the last chunk to the response it has its process to itself.
UploadInv(u) ==
    /\ At(u, "receiving") => rows[u] = Nothing /\ objects[u] = Nothing
    /\ upload[u].pc \in {"stored", "new"} =>
          /\ upload[u].content \in Contents
          /\ rows[u] = Nothing /\ objects[u] = upload[u].content
    /\ At(u, "duplicate") => rows[u] = Nothing
    /\ At(u, "posting") => rows[u] # Nothing
    /\ upload[u].pc \in {"stored", "duplicate", "new", "posting"} => Holds(u)
    /\ At(u, "new") => \A v \in Duplicates(u) : ProcessOf[v] # ProcessOf[u]

IntakeInv == (\A u \in Uploads : UploadInv(u)) /\ IntakeKeepsEvidence

\* An upload that moves keeps its content.
LEMMA MovedUpload ==
    ASSUME NEW q \in [pc : Points, content : Contents \cup Refused], NEW at \in Points
    PROVE  /\ [q EXCEPT !.pc = at] = [pc |-> at, content |-> q.content]
           /\ [q EXCEPT !.pc = at] \in [pc : Points, content : Contents \cup Refused]
           /\ q.pc \in Points /\ q.content \in Contents \cup Refused
  OBVIOUS

LEMMA GoTo ==
    ASSUME IntakeTypeOK, NEW u \in Uploads, NEW at \in Points, Go(u, at)
    PROVE  /\ upload' \in [Uploads -> [pc : Points, content : Contents \cup Refused]]
           /\ upload'[u].pc = at /\ upload'[u].content = upload[u].content
           /\ \A v \in Uploads \ {u} : upload'[v] = upload[v]
<1>1. upload'[u] = [upload[u] EXCEPT !.pc = at] /\ \A v \in Uploads \ {u} : upload'[v] = upload[v]
  BY DEF Go, IntakeTypeOK
<1>2. upload[u] \in [pc : Points, content : Contents \cup Refused]
  BY DEF IntakeTypeOK
<1>3. upload'[u] = [pc |-> at, content |-> upload[u].content]
  BY <1>1, <1>2, MovedUpload
<1>4. upload'[u] \in [pc : Points, content : Contents \cup Refused]
  BY <1>1, <1>2, MovedUpload
<1>5. upload' = [v \in Uploads |-> upload'[v]]
  BY DEF Go, IntakeTypeOK
<1>6. \A v \in Uploads : upload'[v] \in [pc : Points, content : Contents \cup Refused]
  BY <1>1, <1>4 DEF IntakeTypeOK
<1> QED
  BY <1>1, <1>3, <1>5, <1>6

\* Uploads, objects and rows stay what they are.
THEOREM IntakeTypeCorrect == IntakeSpec => []IntakeTypeOK
<1> USE IntakeAssumption DEF Nothing, Nobody, Points
<1>1. IntakeInit => IntakeTypeOK
  BY DEF IntakeInit, IntakeTypeOK
<1>2. IntakeTypeOK /\ [IntakeNext]_intakeVars => IntakeTypeOK'
  <2> SUFFICES ASSUME IntakeTypeOK, [IntakeNext]_intakeVars PROVE IntakeTypeOK'
    OBVIOUS
  <2>a. \A u \in Uploads : ProcessOf[u] \in Processes /\ upload[u].content \in Contents \cup Refused
    <3>1. \A u \in Uploads : ProcessOf[u] \in Processes
      BY DEF Processes
    <3>2. ASSUME NEW u \in Uploads PROVE upload[u].content \in Contents \cup Refused
      BY DEF IntakeTypeOK
    <3> QED
      BY <3>1, <3>2
  <2>b. ASSUME NEW u \in Uploads, NEW at \in Points, Go(u, at), upload[u].content \in Contents \/ at = "done"
        PROVE  /\ upload' \in [Uploads -> [pc : Points, content : Contents \cup Refused]]
               /\ \A v \in Uploads : upload'[v].pc \notin {"receiving", "done"} => upload'[v].content \in Contents
    <3>1. /\ upload' \in [Uploads -> [pc : Points, content : Contents \cup Refused]]
          /\ upload'[u].pc = at /\ upload'[u].content = upload[u].content
          /\ \A v \in Uploads \ {u} : upload'[v] = upload[v]
      BY <2>b, GoTo
    <3> QED
      BY <2>b, <3>1 DEF IntakeTypeOK
  <2>1. ASSUME NEW u \in Uploads, Store(u) PROVE IntakeTypeOK'
    <3>1. CASE upload[u].content \in Refused
      BY <2>1, <2>b, <3>1 DEF Store, IntakeTypeOK
    <3>2. CASE upload[u].content \notin Refused
      <4>1. upload[u].content \in Contents
        BY <2>a, <3>2
      <4>2. Go(u, "stored")
        BY <2>1, <3>2 DEF Store
      <4>3. objects' \in [Uploads -> Contents \cup {Nothing}] /\ loop' \in [Processes -> Uploads \cup {Nobody}]
        BY <2>1, <2>a, <3>2, <4>1 DEF Store, IntakeTypeOK
      <4> QED
        BY <2>1, <2>b, <4>1, <4>2, <4>3 DEF Store, IntakeTypeOK
    <3> QED
      BY <3>1, <3>2
  <2>2. ASSUME NEW u \in Uploads, Check(u) PROVE IntakeTypeOK'
    <3>1. upload[u].content \in Contents
      BY <2>2 DEF Check, At, IntakeTypeOK
    <3> QED
      BY <2>2, <2>b, <3>1 DEF Check, IntakeTypeOK
  <2>3. ASSUME NEW u \in Uploads, NEW works \in BOOLEAN, Discard(u, works) PROVE IntakeTypeOK'
    BY <2>3, <2>a, <2>b DEF Discard, Release, IntakeTypeOK
  <2>4. ASSUME NEW u \in Uploads, NEW works \in BOOLEAN, Commit(u, works) PROVE IntakeTypeOK'
    <3>1. upload[u].content \in Contents
      BY <2>4 DEF Commit, At, IntakeTypeOK
    <3> QED
      BY <2>4, <2>a, <2>b, <3>1 DEF Commit, Release, IntakeTypeOK
  <2>5. ASSUME NEW u \in Uploads, NEW works \in BOOLEAN, Post(u, works) PROVE IntakeTypeOK'
    BY <2>5, <2>a, <2>b DEF Post, Release, IntakeTypeOK
  <2>6. ASSUME NEW u \in Uploads, NEW ok \in BOOLEAN, Requeue(u, ok) \/ Reanalyze(u, ok) PROVE IntakeTypeOK'
    BY <2>6 DEF Requeue, Reanalyze, IntakeTypeOK
  <2>7. ASSUME NEW p \in Processes, Crash(p) PROVE IntakeTypeOK'
    <3>1. /\ \A u \in Uploads : ProcessOf[u] = p => upload'[u] = [pc |-> "done", content |-> upload[u].content]
          /\ \A u \in Uploads : ProcessOf[u] # p => upload'[u] = upload[u]
      <4>1. \A u \in Uploads : [upload[u] EXCEPT !.pc = "done"] = [pc |-> "done", content |-> upload[u].content]
        <5> SUFFICES ASSUME NEW u \in Uploads
                     PROVE  [upload[u] EXCEPT !.pc = "done"] = [pc |-> "done", content |-> upload[u].content]
          OBVIOUS
        <5>1. upload[u] \in [pc : Points, content : Contents \cup Refused]
          BY DEF IntakeTypeOK
        <5> QED
          BY <5>1
      <4> QED
        BY <2>7, <4>1 DEF Crash
    <3>2. upload' = [u \in Uploads |-> upload'[u]]
      BY <2>7 DEF Crash
    <3>3. ASSUME NEW u \in Uploads PROVE upload'[u] \in [pc : Points, content : Contents \cup Refused]
      <4>1. upload[u] \in [pc : Points, content : Contents \cup Refused]
        BY DEF IntakeTypeOK
      <4>2. upload'[u] = [upload[u] EXCEPT !.pc = "done"] \/ upload'[u] = upload[u]
        BY <2>7 DEF Crash
      <4> QED
        <5>1. "done" \in Points
          OBVIOUS
        <5> HIDE DEF Points
        <5>2. [upload[u] EXCEPT !.pc = "done"] \in [pc : Points, content : Contents \cup Refused]
          BY <4>1, <5>1, MovedUpload
        <5> QED
          BY <4>1, <4>2, <5>2
    <3> QED
      BY <2>7, <3>1, <3>2, <3>3 DEF Crash, IntakeTypeOK
  <2>8. ASSUME NEW message \in tasks, Take(message) PROVE IntakeTypeOK'
    BY <2>8 DEF Take, IntakeTypeOK
  <2>9. ASSUME NEW u \in Uploads, NEW kept \in BOOLEAN, StoreFails(u, kept) PROVE IntakeTypeOK'
    <3>1. upload[u].content \in Contents
      BY <2>9, <2>a DEF StoreFails
    <3>2. objects' \in [Uploads -> Contents \cup {Nothing}]
      BY <2>9, <3>1 DEF StoreFails, IntakeTypeOK
    <3> QED
      BY <2>9, <2>b, <3>2 DEF StoreFails, IntakeTypeOK
  <2>10. CASE UNCHANGED intakeVars
    BY <2>10 DEF IntakeTypeOK, intakeVars
  <2> QED
    BY <2>1, <2>2, <2>3, <2>4, <2>5, <2>6, <2>7, <2>8, <2>9, <2>10 DEF IntakeNext, Upload
<1> QED
  BY <1>1, <1>2, PTL DEF IntakeSpec

\* One upload moves and the tables stay: the others are where they were.
LEMMA OthersStay ==
    ASSUME NEW u \in Uploads, NEW v \in Uploads, UploadInv(v),
           upload'[v] = upload[v], loop[ProcessOf[v]] = v => loop'[ProcessOf[v]] = v,
           rows'[v] = rows[v], objects'[v] = objects[v],
           \A w \in Uploads : rows'[w] = rows[w]
    PROVE  UploadInv(v)'
  BY DEF UploadInv, At, Holds, Duplicates

\* IntakeKeepsEvidence: every row has its object, a content is held once, and
\* what a refused upload leaves is what another process has stored, in whatever
\* order upload_evidence runs in how many processes, and whatever fails.
THEOREM EvidenceIsKept == IntakeSpec => []IntakeKeepsEvidence
<1> USE IntakeAssumption
<1>1. IntakeInit => IntakeInv
  BY DEF IntakeInit, IntakeInv, UploadInv, At, IntakeKeepsEvidence, RowsKeepTheirObjects,
         ContentIsHeldOnce, RefusedLeaveNothing
<1>2. IntakeTypeOK /\ IntakeInv /\ [IntakeNext]_intakeVars => IntakeInv'
  <2> SUFFICES ASSUME IntakeTypeOK, IntakeInv, [IntakeNext]_intakeVars PROVE IntakeInv'
    OBVIOUS
  <2>a. ASSUME NEW u \in Uploads, NEW v \in Uploads, u # v, Holds(u), ProcessOf[u] = ProcessOf[v]
        PROVE  upload[v].pc \notin {"stored", "duplicate", "new", "posting"}
    BY <2>a DEF IntakeInv, UploadInv, Holds
  <2>b. ASSUME NEW u \in Uploads, Release(u)
        PROVE  \A v \in Uploads : v # u /\ Holds(u) /\ loop[ProcessOf[v]] = v => loop'[ProcessOf[v]] = v
    BY <2>b DEF Release, Holds, IntakeTypeOK, Processes
  <2>1. ASSUME NEW u \in Uploads, Store(u) PROVE IntakeInv'
    <3>1. At(u, "receiving") /\ UNCHANGED <<rows, mishap>>
      BY <2>1 DEF Store
    <3>2. CASE upload[u].content \in Refused
      <4>1. upload'[u].pc = "done" /\ (\A v \in Uploads \ {u} : upload'[v] = upload[v]) /\ UNCHANGED <<objects, loop>>
        BY <2>1, <3>2, GoTo DEF Store, Points
      <4>2. \A v \in Uploads : UploadInv(v)'
        <5>1. UploadInv(u)'
          BY <4>1 DEF UploadInv, At
        <5>2. ASSUME NEW v \in Uploads \ {u} PROVE UploadInv(v)'
          BY <3>1, <4>1, OthersStay DEF IntakeInv
        <5> QED
          BY <5>1, <5>2
      <4>3. RefusedLeaveNothing'
        BY <3>1, <4>1 DEF RefusedLeaveNothing, At, IntakeInv, IntakeKeepsEvidence, UploadInv
      <4> QED
        BY <3>1, <4>1, <4>2, <4>3 DEF IntakeInv, IntakeKeepsEvidence, RowsKeepTheirObjects, ContentIsHeldOnce
    <3>3. CASE upload[u].content \notin Refused
      <4>1. /\ upload'[u].pc = "stored" /\ upload'[u].content = upload[u].content
            /\ \A v \in Uploads \ {u} : upload'[v] = upload[v]
        BY <2>1, <3>3, GoTo DEF Store, Points
      <4>2. /\ objects'[u] = upload[u].content /\ \A v \in Uploads \ {u} : objects'[v] = objects[v]
            /\ loop[ProcessOf[u]] = Nobody /\ loop'[ProcessOf[u]] = u
            /\ \A p \in Processes \ {ProcessOf[u]} : loop'[p] = loop[p]
            /\ upload[u].content \in Contents
        BY <2>1, <3>3 DEF Store, IntakeTypeOK, Processes
      <4>3. \A v \in Uploads : UploadInv(v)'
        <5>1. UploadInv(u)'
          BY <3>1, <4>1, <4>2 DEF UploadInv, At, Holds, IntakeInv
        <5>2. ASSUME NEW v \in Uploads \ {u} PROVE UploadInv(v)'
          <6>1. loop[ProcessOf[v]] = v => loop'[ProcessOf[v]] = v
            BY <4>2 DEF Nobody, Processes
          <6> QED
            BY <3>1, <4>1, <4>2, <6>1, OthersStay DEF IntakeInv
        <5> QED
          BY <5>1, <5>2
      <4>4. RefusedLeaveNothing'
        BY <3>1, <4>1, <4>2 DEF RefusedLeaveNothing, At, IntakeInv, IntakeKeepsEvidence
      <4>5. RowsKeepTheirObjects'
        BY <3>1, <4>2 DEF RowsKeepTheirObjects, IntakeInv, IntakeKeepsEvidence, UploadInv
      <4> QED
        BY <3>1, <4>3, <4>4, <4>5 DEF IntakeInv, IntakeKeepsEvidence, ContentIsHeldOnce
    <3> QED
      BY <3>2, <3>3
  <2>2. ASSUME NEW u \in Uploads, Check(u) PROVE IntakeInv'
    <3>1. /\ At(u, "stored") /\ UNCHANGED <<objects, rows, mishap, loop>>
          /\ upload'[u].pc \in {"new", "duplicate"} /\ upload'[u].content = upload[u].content
          /\ upload'[u].pc = "new" => Duplicates(u) = {}
          /\ \A v \in Uploads \ {u} : upload'[v] = upload[v]
      BY <2>2, GoTo DEF Check, Points
    <3>2. \A v \in Uploads : UploadInv(v)'
      <4>1. UploadInv(u)'
        BY <3>1 DEF UploadInv, At, Holds, IntakeInv, Duplicates
      <4>2. ASSUME NEW v \in Uploads \ {u} PROVE UploadInv(v)'
        BY <3>1, OthersStay DEF IntakeInv
      <4> QED
        BY <4>1, <4>2
    <3> QED
      BY <3>1, <3>2 DEF IntakeInv, IntakeKeepsEvidence, RowsKeepTheirObjects, ContentIsHeldOnce, RefusedLeaveNothing, At
  <2>3. ASSUME NEW u \in Uploads, NEW works \in BOOLEAN, Discard(u, works) PROVE IntakeInv'
    <3>1. /\ At(u, "duplicate") /\ Release(u) /\ UNCHANGED rows
          /\ upload'[u].pc = "done" /\ upload'[u].content = upload[u].content
          /\ \A v \in Uploads \ {u} : upload'[v] = upload[v] /\ objects'[v] = objects[v]
          /\ ~mishap' => ~mishap /\ objects'[u] = Nothing
      BY <2>3, GoTo DEF Discard, Points, IntakeTypeOK
    <3>2. rows[u] = Nothing /\ Holds(u)
      BY <3>1 DEF IntakeInv, UploadInv, At
    <3>3. \A v \in Uploads : UploadInv(v)'
      <4>1. UploadInv(u)'
        BY <3>1 DEF UploadInv, At
      <4>2. ASSUME NEW v \in Uploads \ {u} PROVE UploadInv(v)'
        BY <2>b, <3>1, <3>2, OthersStay DEF IntakeInv
      <4> QED
        BY <4>1, <4>2
    <3>4. RefusedLeaveNothing'
      BY <3>1, <3>2 DEF RefusedLeaveNothing, At, IntakeInv, IntakeKeepsEvidence
    <3> QED
      BY <3>1, <3>2, <3>3, <3>4 DEF IntakeInv, IntakeKeepsEvidence, RowsKeepTheirObjects, ContentIsHeldOnce
  <2>4. ASSUME NEW u \in Uploads, NEW works \in BOOLEAN, Commit(u, works) PROVE IntakeInv'
    <3>1. /\ At(u, "new") /\ UNCHANGED objects /\ (~mishap' => ~mishap /\ works)
          /\ \A v \in Uploads \ {u} : upload'[v] = upload[v]
          /\ upload'[u].content = upload[u].content
      BY <2>4, GoTo DEF Commit, Points
    <3>2. /\ rows[u] = Nothing /\ objects[u] = upload[u].content /\ upload[u].content \in Contents /\ Holds(u)
          /\ \A v \in Duplicates(u) : ProcessOf[v] # ProcessOf[u]
      BY <3>1 DEF IntakeInv, UploadInv, At
    <3>3. CASE works /\ Duplicates(u) = {}
      <4>1. /\ upload'[u].pc = "posting" /\ UNCHANGED loop
            /\ rows'[u] = upload[u].content /\ \A v \in Uploads \ {u} : rows'[v] = rows[v]
        BY <2>4, <3>3, GoTo DEF Commit, Points, IntakeTypeOK
      <4>2. ASSUME NEW v \in Uploads PROVE UploadInv(v)'
        <5>1. CASE v = u
          BY <3>1, <3>2, <4>1, <5>1 DEF UploadInv, At, Holds, Nothing
        <5>2. CASE v # u
          <6>1. At(v, "new") => ProcessOf[v] # ProcessOf[u]
            BY <2>a, <3>2, <5>2 DEF At
          <6>2. At(v, "new") => \A w \in Duplicates(v) : ProcessOf[w] # ProcessOf[v]
            BY DEF IntakeInv, UploadInv
          <6>3. At(v, "new")' => \A w \in Duplicates(v)' : ProcessOf[w] # ProcessOf[v]
            BY <3>1, <4>1, <5>2, <6>1, <6>2 DEF At, Duplicates
          <6> QED
            BY <3>1, <4>1, <5>2, <6>3 DEF IntakeInv, UploadInv, At, Holds
        <5> QED
          BY <5>1, <5>2
      <4>3. ContentIsHeldOnce'
        BY <3>3, <4>1 DEF ContentIsHeldOnce, IntakeInv, IntakeKeepsEvidence, Duplicates
      <4>4. RowsKeepTheirObjects'
        BY <3>1, <3>2, <4>1 DEF RowsKeepTheirObjects, IntakeInv, IntakeKeepsEvidence
      <4>5. RefusedLeaveNothing'
        <5> SUFFICES ASSUME ~mishap', NEW w \in Uploads, At(w, "done")', rows'[w] = Nothing, objects'[w] # Nothing
                     PROVE  \E v \in Uploads : ProcessOf[v] # ProcessOf[w] /\ rows'[v] = objects'[w]
          BY DEF RefusedLeaveNothing
        <5>1. w # u
          BY <4>1 DEF At
        <5>2. PICK v \in Uploads : ProcessOf[v] # ProcessOf[w] /\ rows[v] = objects[w]
          BY <3>1, <4>1, <5>1 DEF RefusedLeaveNothing, At, IntakeInv, IntakeKeepsEvidence
        <5>3. v # u
          BY <3>1, <3>2, <5>2
        <5> QED
          BY <3>1, <4>1, <5>2, <5>3
      <4> QED
        BY <4>2, <4>3, <4>4, <4>5 DEF IntakeInv, IntakeKeepsEvidence
    <3>4. CASE ~(works /\ Duplicates(u) = {})
      <4>1. upload'[u].pc = "done" /\ Release(u) /\ UNCHANGED rows
        BY <2>4, <3>4, GoTo DEF Commit, Points
      <4>2. \A v \in Uploads : UploadInv(v)'
        <5>1. UploadInv(u)'
          BY <4>1 DEF UploadInv, At
        <5>2. ASSUME NEW v \in Uploads \ {u} PROVE UploadInv(v)'
          BY <2>b, <3>1, <3>2, <4>1, OthersStay DEF IntakeInv
        <5> QED
          BY <5>1, <5>2
      <4>3. RefusedLeaveNothing'
        <5>1. ~mishap' => \E v \in Uploads : ProcessOf[v] # ProcessOf[u] /\ rows[v] = objects[u]
          BY <3>1, <3>2, <3>4 DEF Duplicates
        <5> QED
          BY <3>1, <4>1, <5>1 DEF RefusedLeaveNothing, At, IntakeInv, IntakeKeepsEvidence
      <4> QED
        BY <3>1, <4>1, <4>2, <4>3 DEF IntakeInv, IntakeKeepsEvidence, RowsKeepTheirObjects, ContentIsHeldOnce
    <3> QED
      BY <3>3, <3>4
  <2>5. ASSUME NEW u \in Uploads, NEW works \in BOOLEAN, Post(u, works) PROVE IntakeInv'
    <3>1. /\ At(u, "posting") /\ Release(u) /\ UNCHANGED <<objects, rows, mishap>>
          /\ upload'[u].pc = "done" /\ \A v \in Uploads \ {u} : upload'[v] = upload[v]
      BY <2>5, GoTo DEF Post, Points
    <3>2. rows[u] # Nothing /\ Holds(u)
      BY <3>1 DEF IntakeInv, UploadInv, At
    <3>3. \A v \in Uploads : UploadInv(v)'
      <4>1. UploadInv(u)'
        BY <3>1 DEF UploadInv, At
      <4>2. ASSUME NEW v \in Uploads \ {u} PROVE UploadInv(v)'
        BY <2>b, <3>1, <3>2, OthersStay DEF IntakeInv
      <4> QED
        BY <4>1, <4>2
    <3>4. RefusedLeaveNothing'
      BY <3>1, <3>2 DEF RefusedLeaveNothing, At, IntakeInv, IntakeKeepsEvidence
    <3> QED
      BY <3>1, <3>3, <3>4 DEF IntakeInv, IntakeKeepsEvidence, RowsKeepTheirObjects, ContentIsHeldOnce
  <2>6. ASSUME UNCHANGED <<upload, loop, objects, rows, mishap>> PROVE IntakeInv'
    BY <2>6 DEF IntakeInv, UploadInv, At, Holds, Duplicates, IntakeKeepsEvidence, RowsKeepTheirObjects,
                ContentIsHeldOnce, RefusedLeaveNothing
  <2>7. ASSUME NEW p \in Processes, Crash(p) PROVE IntakeInv'
    <3>1. /\ mishap' /\ UNCHANGED <<objects, rows>>
          /\ \A q \in Processes \ {p} : loop'[q] = loop[q]
          /\ \A u \in Uploads : ProcessOf[u] # p => upload'[u] = upload[u]
      BY <2>7 DEF Crash, IntakeTypeOK
    <3>2. ASSUME NEW u \in Uploads, ProcessOf[u] = p PROVE upload'[u].pc = "done"
      <4>1. upload[u] \in [pc : Points, content : Contents \cup Refused]
        BY DEF IntakeTypeOK
      <4>2. [upload[u] EXCEPT !.pc = "done"].pc = "done"
        BY <4>1
      <4> QED
        BY <2>7, <3>2, <4>2 DEF Crash
    <3>3. ASSUME NEW u \in Uploads PROVE UploadInv(u)'
      <4>1. CASE ProcessOf[u] = p
        BY <3>2, <4>1 DEF UploadInv, At
      <4>2. CASE ProcessOf[u] # p
        BY <3>1, <4>2, OthersStay DEF IntakeInv, Processes
      <4> QED
        BY <4>1, <4>2
    <3> QED
      BY <3>1, <3>3 DEF IntakeInv, IntakeKeepsEvidence, RowsKeepTheirObjects, ContentIsHeldOnce, RefusedLeaveNothing
  <2>8. ASSUME NEW u \in Uploads, NEW ok \in BOOLEAN, Requeue(u, ok) \/ Reanalyze(u, ok) PROVE IntakeInv'
    BY <2>6, <2>8 DEF Requeue, Reanalyze
  <2>9. ASSUME NEW message \in tasks, Take(message) PROVE IntakeInv'
    BY <2>6, <2>9 DEF Take
  <2>10. CASE UNCHANGED intakeVars
    BY <2>6, <2>10 DEF intakeVars
  <2>11. ASSUME NEW u \in Uploads, NEW kept \in BOOLEAN, StoreFails(u, kept) PROVE IntakeInv'
    <3>1. /\ At(u, "receiving") /\ mishap' /\ UNCHANGED <<loop, rows>>
          /\ upload'[u].pc = "done" /\ \A v \in Uploads \ {u} : upload'[v] = upload[v]
          /\ \A v \in Uploads \ {u} : objects'[v] = objects[v]
      BY <2>11, GoTo DEF StoreFails, Points, IntakeTypeOK
    <3>2. rows[u] = Nothing
      BY <3>1 DEF IntakeInv, UploadInv
    <3>3. \A v \in Uploads : UploadInv(v)'
      <4>1. UploadInv(u)'
        BY <3>1 DEF UploadInv, At
      <4>2. ASSUME NEW v \in Uploads \ {u} PROVE UploadInv(v)'
        BY <3>1, OthersStay DEF IntakeInv
      <4> QED
        BY <4>1, <4>2
    <3> QED
      BY <3>1, <3>2, <3>3 DEF IntakeInv, IntakeKeepsEvidence, RowsKeepTheirObjects, ContentIsHeldOnce, RefusedLeaveNothing
  <2> QED
    BY <2>1, <2>2, <2>3, <2>4, <2>5, <2>7, <2>8, <2>9, <2>10, <2>11 DEF IntakeNext, Upload
<1>3. IntakeInv => IntakeKeepsEvidence
  BY DEF IntakeInv
<1> QED
  BY <1>1, <1>2, <1>3, IntakeTypeCorrect, PTL DEF IntakeSpec

-------------------------------------------------------------------------------
\* The desk of a case

LEMMA SeqWider ==
    ASSUME NEW S, NEW T, S \subseteq T, NEW s \in Seq(S)
    PROVE  s \in Seq(T)
<1>1. s = [i \in 1..Len(s) |-> s[i]] /\ Len(s) \in Nat
  BY LenProperties
<1>2. \A i \in 1..Len(s) : s[i] \in T
  BY ElementOfSeq
<1> QED
  BY <1>1, <1>2

\* What was stamped stays stamped as the clock goes on.
LEMMA StampsStay ==
    ASSUME DeskTypeOK, clock' = clock + 1
    PROVE  /\ items \in Seq(Items') /\ visit \in [Users -> 0..clock']
           /\ Work \subseteq Work' /\ clock' \in Nat
<1>0. clock \in Nat /\ 1..clock \subseteq 1..clock' /\ 0..clock \subseteq 0..clock'
  BY DEF DeskTypeOK
<1>1. Items \subseteq Items'
  BY <1>0 DEF Items
<1>2. items \in Seq(Items')
  BY <1>1, SeqWider DEF DeskTypeOK
<1>3. visit \in [Users -> 0..clock']
  BY <1>0 DEF DeskTypeOK
<1>4. Work \subseteq Work'
  BY <1>0 DEF Work
<1> QED
  BY <1>0, <1>2, <1>3, <1>4

LEMMA FreeIs == Free.pc = "idle" /\ Free \notin Work
  BY DEF Free, Work

LEMMA WorkIs ==
    ASSUME DeskTypeOK, NEW r \in Handlers
    PROVE  /\ handler[r].pc # "idle" => handler[r] \in Work
           /\ handler[r].pc = "idle" => handler[r] = Free
           /\ handler[r].pc = "writing" => /\ handler[r].user \in Users \cup {Machine} /\ handler[r].at \in 1..clock
                                           /\ handler[r].what \in Kinds
           /\ handler[r].pc = "declaring" => /\ handler[r].user \in Users /\ handler[r].at \in 1..clock
                                             /\ handler[r].what \in Windows /\ handler[r].seen \in Windows
           /\ handler[r].pc = "seeing" => handler[r].user \in Users /\ handler[r].at \in 1..clock
<1>1. handler[r] \in {Free} \cup Work
  BY DEF DeskTypeOK
<1>2. CASE handler[r] = Free
  BY <1>2, FreeIs
<1>3. CASE handler[r] \in Work
  BY <1>3 DEF Work
<1> QED
  BY <1>1, <1>2, <1>3

LEMMA Started ==
    ASSUME DeskTypeOK, NEW r \in Handlers, NEW u, NEW pc, NEW what, NEW seen, Start(r, u, pc, what, seen),
           [pc |-> pc, user |-> u, at |-> clock + 1, what |-> what, seen |-> seen] \in Work'
    PROVE  /\ clock' = clock + 1
           /\ handler' \in [Handlers -> {Free} \cup Work'] /\ concurrent' \in BOOLEAN
           /\ handler'[r] = [pc |-> pc, user |-> u, at |-> clock + 1, what |-> what, seen |-> seen]
           /\ \A q \in Handlers \ {r} : handler'[q] = handler[q]
           /\ ~concurrent' => ~concurrent /\ \A q \in Handlers : handler[q] = Free
<1> PICK job : job = [pc |-> pc, user |-> u, at |-> clock + 1, what |-> what, seen |-> seen]
  OBVIOUS
<1>1. clock' = clock + 1 /\ handler' = [handler EXCEPT ![r] = job]
      /\ concurrent' = (concurrent \/ \E q \in Handlers : handler[q] # Free)
  BY DEF Start
<1>2. handler \in [Handlers -> {Free} \cup Work']
  <2>1. Work \subseteq Work'
    BY <1>1, StampsStay
  <2>2. handler \in [Handlers -> {Free} \cup Work]
    BY DEF DeskTypeOK
  <2> QED
    BY <2>1, <2>2
<1>3. job \in Work'
  OBVIOUS
<1>4. handler' \in [Handlers -> {Free} \cup Work'] /\ handler'[r] = job
      /\ \A q \in Handlers \ {r} : handler'[q] = handler[q]
  BY <1>1, <1>2, <1>3
<1> QED
  BY <1>1, <1>4

LEMMA Finished ==
    ASSUME DeskTypeOK, NEW r \in Handlers, Finish(r), clock' = clock
    PROVE  /\ handler' \in [Handlers -> {Free} \cup Work']
           /\ handler'[r] = Free /\ handler'[r].pc = "idle"
           /\ \A q \in Handlers \ {r} : handler'[q] = handler[q]
<1>1. Work' = Work
  BY DEF Work
<1>2. handler \in [Handlers -> {Free} \cup Work]
  BY DEF DeskTypeOK
<1> QED
  BY <1>1, <1>2, FreeIs DEF Finish

LEMMA ItemRows ==
    ASSUME DeskTypeOK
    PROVE  /\ items \in Seq(Items) /\ Len(items) \in Nat
           /\ \A i \in 1..Len(items) : items[i] \in Items
           /\ \A i \in 1..Len(items) : items[i].at \in 1..clock /\ items[i].kind \in Kinds /\ items[i].withdrawn \in BOOLEAN
<1>1. items \in Seq(Items)
  BY DEF DeskTypeOK
<1>2. Len(items) \in Nat /\ \A i \in 1..Len(items) : items[i] \in Items
  BY <1>1, LenProperties, ElementOfSeq
<1> QED
  BY <1>1, <1>2 DEF Items

LEMMA ItemReplaced ==
    ASSUME DeskTypeOK, NEW i \in 1..Len(items), NEW row \in Items, items' = [items EXCEPT ![i] = row]
    PROVE  /\ items' \in Seq(Items) /\ Len(items') = Len(items) /\ items'[i] = row
           /\ \A j \in 1..Len(items) : j # i => items'[j] = items[j]
<1> PICK old : old = items
  OBVIOUS
<1>1. old \in Seq(Items) /\ i \in 1..Len(old)
  BY ItemRows
<1> PICK new : new = [old EXCEPT ![i] = row]
  OBVIOUS
<1>2. /\ new \in Seq(Items) /\ Len(new) = Len(old) /\ new[i] = row
      /\ \A j \in 1..Len(old) : j # i => new[j] = old[j]
  BY <1>1, ExceptSeq
<1> QED
  BY <1>2

\* The row a note is withdrawn in.
LEMMA NoteWithdrawn ==
    ASSUME DeskTypeOK, NEW i \in 1..Len(items), items' = [items EXCEPT ![i].withdrawn = TRUE]
    PROVE  /\ items' \in Seq(Items) /\ Len(items') = Len(items)
           /\ \A j \in 1..Len(items) : /\ items'[j].at = items[j].at /\ items'[j].kind = items[j].kind
                                       /\ items[j].withdrawn => items'[j].withdrawn
<1> PICK row : row = [items[i] EXCEPT !.withdrawn = TRUE]
  OBVIOUS
<1>1. items \in Seq(Items) /\ items[i] \in Items
  BY ItemRows
<1>2. row \in Items /\ row.at = items[i].at /\ row.kind = items[i].kind /\ row.withdrawn
  BY <1>1 DEF Items
<1>3. items' = [items EXCEPT ![i] = row]
  OBVIOUS
<1>4. /\ items' \in Seq(Items) /\ Len(items') = Len(items) /\ items'[i] = row
      /\ \A j \in 1..Len(items) : j # i => items'[j] = items[j]
  BY <1>2, <1>3, ItemReplaced
<1> QED
  BY <1>2, <1>4

\* The row a write adds.
LEMMA RowAdded ==
    ASSUME DeskTypeOK, NEW r \in Handlers, CommitWrite(r)
    PROVE  /\ items' \in Seq(Items) /\ Len(items') = Len(items) + 1
           /\ \A j \in 1..Len(items) : items'[j] = items[j]
           /\ items'[Len(items) + 1].at = handler[r].at /\ items'[Len(items) + 1].kind = handler[r].what
           /\ ~items'[Len(items) + 1].withdrawn
<1> PICK row : row = [kind |-> handler[r].what, at |-> handler[r].at, by |-> handler[r].user, withdrawn |-> FALSE]
  OBVIOUS
<1>1. items \in Seq(Items)
  BY ItemRows
<1>2. /\ handler[r].user \in Users \cup {Machine} /\ handler[r].at \in 1..clock /\ handler[r].what \in Kinds
  BY WorkIs DEF CommitWrite, Doing
<1>3. row \in Items /\ row.at = handler[r].at /\ row.kind = handler[r].what /\ ~row.withdrawn
  BY <1>2 DEF Items
<1>4. items' = Append(items, row)
  BY DEF CommitWrite
<1>5. /\ items' \in Seq(Items) /\ Len(items') = Len(items) + 1 /\ items'[Len(items) + 1] = row
      /\ \A j \in 1..Len(items) : items'[j] = items[j]
  BY <1>1, <1>3, <1>4, AppendProperties
<1> QED
  BY <1>3, <1>5

LEMMA DeskStartsTyped == DeskInit => DeskTypeOK
<1> SUFFICES ASSUME DeskInit PROVE DeskTypeOK
  OBVIOUS
<1>1. clock \in Nat /\ members \subseteq Users /\ ruling = "open" /\ window \in Windows /\ concurrent \in BOOLEAN /\ hasty \subseteq Users
  BY DeskAssumption DEF DeskInit
<1>2. items = <<>> /\ windowLog = <<>>
  BY DEF DeskInit
<1>3. items \in Seq(Items) /\ windowLog \in Seq([previous : Windows, declared : Windows])
  BY <1>2
<1>4. visit \in [Users -> 0..clock] /\ handler \in [Handlers -> {Free} \cup Work]
  BY DEF DeskInit
<1>5. /\ shown \in [Users -> SUBSET (1..Len(items))] /\ late \in [Users -> SUBSET (1..Len(items))]
      /\ present \in [Users -> 0..Len(items)]
  BY <1>2 DEF DeskInit
<1> QED
  BY <1>1, <1>3, <1>4, <1>5 DEF DeskTypeOK

LEMMA SamePresent ==
    ASSUME DeskTypeOK, clock' = clock
    PROVE  Items' = Items /\ Work' = Work
BY DEF Items, Work

\* A request that was begun leaves what is stored as it was.
LEMMA BegunTyped ==
    ASSUME DeskTypeOK, NEW r \in Handlers, NEW u, NEW pc, NEW what, NEW seen, Start(r, u, pc, what, seen),
           [pc |-> pc, user |-> u, at |-> clock + 1, what |-> what, seen |-> seen] \in Work',
           UNCHANGED <<members, items, ruling, window, windowLog, visit, shown, present, late>>, hasty' \subseteq Users
    PROVE  DeskTypeOK'
<1>1. clock' = clock + 1 /\ handler' \in [Handlers -> {Free} \cup Work'] /\ concurrent' \in BOOLEAN
  BY Started
<1>2. items' \in Seq(Items') /\ visit' \in [Users -> 0..clock'] /\ clock' \in Nat
  BY <1>1, StampsStay
<1>3. /\ shown' \in [Users -> SUBSET (1..Len(items'))] /\ late' \in [Users -> SUBSET (1..Len(items'))]
      /\ present' \in [Users -> 0..Len(items')]
  BY DEF DeskTypeOK
<1>4. handler' \in [Handlers -> {Free'} \cup Work']
  BY <1>1 DEF Free
<1> QED
  BY <1>1, <1>2, <1>3, <1>4 DEF DeskTypeOK

\* A request that ends leaves the clock.
LEMMA EndedTyped ==
    ASSUME DeskTypeOK, NEW r \in Handlers, Finish(r), UNCHANGED <<clock, members, concurrent, hasty>>,
           items' \in Seq(Items), Len(items') >= Len(items), UNCHANGED <<shown, present>>,
           late' \in [Users -> SUBSET (1..Len(items'))],
           ruling' \in {"open", "dismissed", "reviewed"}, window' \in Windows,
           windowLog' \in Seq([previous : Windows, declared : Windows]), visit' \in [Users -> 0..clock]
    PROVE  DeskTypeOK'
<1>1. Items' = Items /\ Work' = Work
  BY SamePresent
<1>2. handler' \in [Handlers -> {Free'} \cup Work']
  BY Finished DEF Free
<1>3. Len(items) \in Nat /\ Len(items') \in Nat
  <2>1. items \in Seq(Items) /\ items' \in Seq(Items)
    BY DEF DeskTypeOK
  <2> QED
    BY <2>1, LenProperties
<1>4. 1..Len(items) \subseteq 1..Len(items') /\ 0..Len(items) \subseteq 0..Len(items')
  BY <1>3
<1>5. shown' \in [Users -> SUBSET (1..Len(items'))] /\ present' \in [Users -> 0..Len(items')]
  <2>1. shown \in [Users -> SUBSET (1..Len(items))] /\ present \in [Users -> 0..Len(items)]
    BY DEF DeskTypeOK
  <2> QED
    BY <1>4, <2>1
<1> QED
  BY <1>1, <1>2, <1>5 DEF DeskTypeOK

LEMMA WindowLogged ==
    ASSUME DeskTypeOK, NEW r \in Handlers, CommitWindow(r)
    PROVE  /\ windowLog \in Seq([previous : Windows, declared : Windows])
           /\ windowLog' \in Seq([previous : Windows, declared : Windows])
           /\ Len(windowLog') = Len(windowLog) + 1 /\ Len(windowLog) \in Nat
           /\ \A i \in 1..Len(windowLog) : windowLog'[i] = windowLog[i]
           /\ windowLog'[Len(windowLog) + 1].previous = handler[r].seen
           /\ windowLog'[Len(windowLog) + 1].declared = handler[r].what
           /\ handler[r].what \in Windows
<1> PICK row : row = [previous |-> handler[r].seen, declared |-> handler[r].what]
  OBVIOUS
<1> PICK old : old = windowLog
  OBVIOUS
<1> PICK new : new = Append(old, row)
  OBVIOUS
<1>1. old \in Seq([previous : Windows, declared : Windows])
  BY DEF DeskTypeOK
<1>2. handler[r].what \in Windows /\ handler[r].seen \in Windows
  BY WorkIs DEF CommitWindow, Doing
<1>3. row \in [previous : Windows, declared : Windows] /\ row.previous = handler[r].seen /\ row.declared = handler[r].what
  BY <1>2
<1>4. new \in Seq([previous : Windows, declared : Windows]) /\ Len(new) = Len(old) + 1 /\ new[Len(old) + 1] = row
      /\ \A i \in 1..Len(old) : new[i] = old[i]
  BY <1>1, <1>3, AppendProperties
<1>5. Len(old) \in Nat
  BY <1>1, LenProperties
<1>6. windowLog' = new
  BY DEF CommitWindow
<1> QED
  BY <1>1, <1>2, <1>3, <1>4, <1>5, <1>6

LEMMA VisitMarked ==
    ASSUME DeskTypeOK, NEW r \in Handlers, CommitSeen(r)
    PROVE  /\ visit' \in [Users -> 0..clock] /\ handler[r].user \in Users
           /\ \A u \in Users \ {handler[r].user} : visit'[u] = visit[u]
           /\ visit'[handler[r].user] \in {visit[handler[r].user], handler[r].at}
<1>1. handler[r].user \in Users /\ handler[r].at \in 1..clock
  BY WorkIs DEF CommitSeen, Doing
<1>2. visit \in [Users -> 0..clock] /\ clock \in Nat
  BY DEF DeskTypeOK
<1>5. visit[handler[r].user] \in 0..clock
  BY <1>1, <1>2
<1>6. handler[r].at \in 0..clock
  BY <1>1, <1>2
<1> PICK u : u = handler[r].user
  OBVIOUS
<1> PICK mark : mark = IF handler[r].seen = "no visit" /\ visit[u] # 0 THEN visit[u] ELSE handler[r].at
  OBVIOUS
<1>3. mark \in {visit[u], handler[r].at} /\ mark \in 0..clock
  <2>1. visit[u] \in 0..clock /\ handler[r].at \in 0..clock
    BY <1>5, <1>6
  <2>2. mark = visit[u] \/ mark = handler[r].at
    OBVIOUS
  <2> QED
    BY <2>1, <2>2
<1>4. visit' = [visit EXCEPT ![u] = mark]
  BY DEF CommitSeen
<1> QED
  BY <1>1, <1>2, <1>3, <1>4

LEMMA ClockGoesOn == clock \in Nat /\ clock' = clock + 1 => clock + 1 \in 1..clock'
OBVIOUS

LEMMA SeeingIsWork ==
    ASSUME NEW u \in Users, NEW seen \in {"no visit", "a visit"}, clock + 1 \in 1..clock'
    PROVE  [pc |-> "seeing", user |-> u, at |-> clock + 1, what |-> NoWindow, seen |-> seen] \in Work'
<1>1. [pc |-> "seeing", user |-> u, at |-> clock + 1, what |-> NoWindow, seen |-> seen]
         \in [pc : {"seeing"}, user : Users, at : 1..clock', what : {NoWindow}, seen : {"no visit", "a visit"}]
  OBVIOUS
<1> QED
  BY <1>1 DEF Work

LEMMA StepKeepsDeskTypes == DeskTypeOK /\ [DeskNext]_deskVars => DeskTypeOK'
<1> SUFFICES ASSUME DeskTypeOK, [DeskNext]_deskVars PROVE DeskTypeOK'
  OBVIOUS
<1>1. CASE UNCHANGED deskVars
  BY <1>1 DEF deskVars, DeskTypeOK, Items, Work, Free
<1>2. ASSUME NEW u \in Users, AddMember(u)
      PROVE  DeskTypeOK'
  <2>1. Items' = Items /\ Work' = Work
    BY <1>2, SamePresent DEF AddMember
  <2> QED
    BY <1>2, <2>1 DEF AddMember, DeskTypeOK, Free
<1>3. ASSUME NEW u \in Users, ReadDigest(u)
      PROVE  DeskTypeOK'
  <2>1. Items' = Items /\ Work' = Work
    BY <1>3, SamePresent DEF ReadDigest
  <2>2. New(u) \subseteq 1..Len(items)
    BY DEF New, Newer
  <2>3. shown' \in [Users -> SUBSET (1..Len(items'))]
    BY <1>3, <2>2 DEF ReadDigest, DeskTypeOK
  <2>4. present' \in [Users -> 0..Len(items')]
    <3>1. Len(items) \in 0..Len(items)
      BY ItemRows
    <3> QED
      BY <1>3, <3>1 DEF ReadDigest, DeskTypeOK
  <2> QED
    BY <1>3, <2>1, <2>3, <2>4 DEF ReadDigest, DeskTypeOK, Free
<1>4. ASSUME NEW u \in Users, NEW i \in 1..Len(items), WithdrawNote(u, i)
      PROVE  DeskTypeOK'
  <2>1. Items' = Items /\ Work' = Work
    BY <1>4, SamePresent DEF WithdrawNote
  <2>2. items' \in Seq(Items) /\ Len(items') = Len(items)
    BY <1>4, NoteWithdrawn DEF WithdrawNote
  <2> QED
    BY <1>4, <2>1, <2>2 DEF WithdrawNote, DeskTypeOK, Free
<1>5. ASSUME NEW r \in Handlers, NEW u \in Users \cup {Machine}, NEW kind \in Kinds, BeginWrite(r, u, kind)
      PROVE  DeskTypeOK'
  <2>1. Start(r, u, "writing", kind, NoWindow)
    BY <1>5 DEF BeginWrite
  <2>2. clock \in Nat /\ clock' = clock + 1
    BY <2>1 DEF Start, DeskTypeOK
  <2>3. [pc |-> "writing", user |-> u, at |-> clock + 1, what |-> kind, seen |-> NoWindow] \in Work'
    BY <2>2 DEF Work
  <2>4. UNCHANGED <<members, items, ruling, window, windowLog, visit, shown, present, late>> /\ hasty' \subseteq Users
    BY <1>5 DEF BeginWrite, DeskTypeOK
  <2> QED
    BY <2>1, <2>3, <2>4, BegunTyped
<1>6. ASSUME NEW r \in Handlers, NEW u \in Users \cup {Machine}, NEW w \in Windows, BeginWindow(r, u, w)
      PROVE  DeskTypeOK'
  <2>1. Start(r, u, "declaring", w, window)
    BY <1>6 DEF BeginWindow
  <2>2. clock \in Nat /\ clock' = clock + 1 /\ window \in Windows /\ u \in Users
    BY <1>6, <2>1 DEF Start, DeskTypeOK, BeginWindow
  <2>3. [pc |-> "declaring", user |-> u, at |-> clock + 1, what |-> w, seen |-> window] \in Work'
    BY <2>2 DEF Work
  <2>4. UNCHANGED <<members, items, ruling, window, windowLog, visit, shown, present, late>> /\ hasty' \subseteq Users
    BY <1>6 DEF BeginWindow, DeskTypeOK
  <2> QED
    BY <2>1, <2>3, <2>4, BegunTyped
<1>7. ASSUME NEW r \in Handlers, NEW u \in Users \cup {Machine}, BeginSeen(r, u)
      PROVE  DeskTypeOK'
  <2> PICK seen : seen = IF visit[u] = 0 THEN "no visit" ELSE "a visit"
    OBVIOUS
  <2>1. Start(r, u, "seeing", NoWindow, seen)
    BY <1>7 DEF BeginSeen
  <2>5. clock \in Nat /\ clock' = clock + 1
    BY <2>1 DEF Start, DeskTypeOK
  <2>6. clock + 1 \in 1..clock'
    BY <2>5, ClockGoesOn
  <2>7. u \in Users
    BY <1>7 DEF BeginSeen
  <2>8. seen \in {"no visit", "a visit"}
    OBVIOUS
  <2>3. [pc |-> "seeing", user |-> u, at |-> clock + 1, what |-> NoWindow, seen |-> seen] \in Work'
    BY <2>6, <2>7, <2>8, SeeingIsWork
  <2>4. UNCHANGED <<members, items, ruling, window, windowLog, visit, shown, present, late>> /\ hasty' \subseteq Users
    BY <1>7, <2>7 DEF BeginSeen, DeskTypeOK
  <2> QED
    BY <2>1, <2>3, <2>4, BegunTyped
<1>8. ASSUME NEW r \in Handlers, CommitWrite(r)
      PROVE  DeskTypeOK'
  <2>1. items' \in Seq(Items) /\ Len(items') >= Len(items)
    BY <1>8, RowAdded, ItemRows
  <2>2. ruling' \in {"open", "dismissed", "reviewed"}
    BY <1>8 DEF CommitWrite, StatusFor, DeskTypeOK
  <2>3. /\ Finish(r) /\ UNCHANGED <<clock, members, concurrent, hasty, shown, present>> /\ window' \in Windows
        /\ windowLog' \in Seq([previous : Windows, declared : Windows]) /\ visit' \in [Users -> 0..clock]
    BY <1>8 DEF CommitWrite, DeskTypeOK
  <2>4. late' \in [Users -> SUBSET (1..Len(items'))]
    <3> PICK new \in [Users -> BOOLEAN] : new = [u \in Users |-> Behind(u, handler[r].at)]
      BY DEF Behind
    <3>1. Len(items') = Len(items) + 1 /\ Len(items) \in Nat
      BY <1>8, RowAdded, ItemRows
    <3>2. Len(items) + 1 \in 1..Len(items') /\ 1..Len(items) \subseteq 1..Len(items')
      BY <3>1
    <3>3. late' = [u \in Users |-> IF new[u] THEN late[u] \cup {Len(items) + 1} ELSE late[u]]
      BY <1>8 DEF CommitWrite
    <3> QED
      BY <3>2, <3>3 DEF DeskTypeOK
  <2> QED
    BY <2>1, <2>2, <2>3, <2>4, EndedTyped
<1>9. ASSUME NEW r \in Handlers, CommitWindow(r)
      PROVE  DeskTypeOK'
  <2>1. windowLog' \in Seq([previous : Windows, declared : Windows]) /\ handler[r].what \in Windows
    BY <1>9, WindowLogged
  <2>2. items' = items /\ ruling' = ruling /\ visit' = visit /\ UNCHANGED <<shown, present, late>>
    BY <1>9 DEF CommitWindow
  <2>3. items' \in Seq(Items) /\ Len(items') >= Len(items)
    BY <2>2, ItemRows
  <2>4. /\ Finish(r) /\ UNCHANGED <<clock, members, concurrent, hasty>> /\ window' \in Windows
        /\ ruling' \in {"open", "dismissed", "reviewed"} /\ visit' \in [Users -> 0..clock]
        /\ late' \in [Users -> SUBSET (1..Len(items'))]
    BY <1>9, <2>1 DEF CommitWindow, DeskTypeOK
  <2> QED
    BY <2>1, <2>2, <2>3, <2>4, EndedTyped
<1>10. ASSUME NEW r \in Handlers, CommitSeen(r)
       PROVE  DeskTypeOK'
  <2>1. visit' \in [Users -> 0..clock]
    BY <1>10, VisitMarked
  <2>2. items' = items /\ ruling' = ruling /\ window' = window /\ windowLog' = windowLog
        /\ UNCHANGED <<shown, present, late>>
    BY <1>10 DEF CommitSeen
  <2>3. items' \in Seq(Items) /\ Len(items') >= Len(items)
    BY <2>2, ItemRows
  <2>4. /\ Finish(r) /\ UNCHANGED <<clock, members, concurrent, hasty>> /\ window' \in Windows
        /\ ruling' \in {"open", "dismissed", "reviewed"} /\ windowLog' \in Seq([previous : Windows, declared : Windows])
        /\ late' \in [Users -> SUBSET (1..Len(items'))]
    BY <1>10, <2>2 DEF CommitSeen, DeskTypeOK
  <2> QED
    BY <2>1, <2>2, <2>3, <2>4, EndedTyped
<1> QED
  BY <1>1, <1>2, <1>3, <1>4, <1>5, <1>6, <1>7, <1>8, <1>9, <1>10 DEF DeskNext

\* What is stored of a case, and what a request has in hand, was stamped no later than
\* now, for any number of users and requests (CaseDesk).
THEOREM DeskTypeCorrect == DeskSpec => []DeskTypeOK
<1> QED
  BY DeskStartsTyped, StepKeepsDeskTypes, PTL DEF DeskSpec

-------------------------------------------------------------------------------
\* One request at a time: it stamps its rows last of all, and the span it read is the
\* case's.
OneAtATime == \A q, r \in Handlers : handler[q].pc # "idle" /\ handler[r].pc # "idle" => q = r
StampsLast(r) ==
    handler[r].pc # "idle" =>
        /\ handler[r].at = clock
        /\ \A i \in 1..Len(items) : items[i].at < clock
ReadWhatIs(r) == handler[r].pc = "declaring" => handler[r].seen = window
InOrder == \A i, j \in 1..Len(items) : i < j => items[i].at < items[j].at
RulingIsNewest ==
    \/ ruling = "open" /\ \A i \in 1..Len(items) : items[i].kind \notin Decisions
    \/ \E n \in 1..Len(items) : /\ items[n].kind \in Decisions /\ ruling = StatusFor(items[n].kind)
                                /\ \A j \in 1..Len(items) : j > n => items[j].kind \notin Decisions
DeskInv ==
    ~concurrent =>
        /\ OneAtATime
        /\ \A r \in Handlers : StampsLast(r) /\ ReadWhatIs(r)
        /\ InOrder
        /\ RulingIsNewest
        /\ WindowHistoryIsWhole

LEMMA DeskStartsInOrder == DeskInit => DeskInv
<1> SUFFICES ASSUME DeskInit PROVE DeskInv
  OBVIOUS
<1>1. \A r \in Handlers : handler[r].pc = "idle"
  BY FreeIs DEF DeskInit
<1>2. items = <<>> /\ windowLog = <<>> /\ window = NoWindow /\ ruling = "open"
  BY DEF DeskInit
<1>3. OneAtATime /\ \A r \in Handlers : StampsLast(r) /\ ReadWhatIs(r)
  BY <1>1 DEF OneAtATime, StampsLast, ReadWhatIs
<1>4. Len(items) = 0 /\ Len(windowLog) = 0
  BY <1>2
<1>5. InOrder /\ RulingIsNewest
  BY <1>2, <1>4 DEF InOrder, RulingIsNewest
<1>6. WindowHistoryIsWhole
  BY <1>2, <1>4 DEF WindowHistoryIsWhole
<1> QED
  BY <1>3, <1>5, <1>6 DEF DeskInv

\* A request that is begun while no other is served stamps later than all there is.
LEMMA BegunLast ==
    ASSUME DeskTypeOK, NEW r \in Handlers, NEW u, NEW pc, NEW what, NEW seen, Start(r, u, pc, what, seen),
           [pc |-> pc, user |-> u, at |-> clock + 1, what |-> what, seen |-> seen] \in Work',
           UNCHANGED items, ~concurrent'
    PROVE  /\ ~concurrent /\ OneAtATime' /\ \A q \in Handlers : StampsLast(q)'
           /\ \A q \in Handlers \ {r} : ReadWhatIs(q)'
           /\ handler'[r].pc = pc /\ handler'[r].seen = seen /\ handler'[r].user = u
<1>1. /\ clock' = clock + 1 /\ ~concurrent /\ clock \in Nat
      /\ handler'[r].at = clock + 1 /\ handler'[r].pc = pc /\ handler'[r].seen = seen /\ handler'[r].user = u
      /\ \A q \in Handlers \ {r} : handler'[q] = Free
  BY Started DEF DeskTypeOK
<1>2. \A q \in Handlers \ {r} : handler'[q].pc = "idle"
  BY <1>1, FreeIs
<1>3. OneAtATime' /\ \A q \in Handlers \ {r} : StampsLast(q)' /\ ReadWhatIs(q)'
  BY <1>2 DEF OneAtATime, StampsLast, ReadWhatIs
<1>4. \A i \in 1..Len(items) : items[i].at < clock'
  BY <1>1, ItemRows
<1>6. StampsLast(r)'
  BY <1>1, <1>4 DEF StampsLast
<1> QED
  BY <1>1, <1>3, <1>6

\* When the only request there was ends, none is served.
LEMMA EndedAlone ==
    ASSUME DeskTypeOK, NEW r \in Handlers, handler[r].pc # "idle", OneAtATime, Finish(r), clock' = clock
    PROVE  OneAtATime' /\ \A q \in Handlers : StampsLast(q)' /\ ReadWhatIs(q)'
<1>1. \A q \in Handlers : handler'[q].pc = "idle"
  BY Finished DEF OneAtATime
<1> QED
  BY <1>1 DEF OneAtATime, StampsLast, ReadWhatIs

LEMMA WriteBegunKeeps ==
    ASSUME DeskTypeOK, DeskInv, NEW r \in Handlers, NEW u \in Users \cup {Machine}, NEW kind \in Kinds,
           BeginWrite(r, u, kind)
    PROVE  DeskInv'
<1>1. Start(r, u, "writing", kind, NoWindow)
  BY DEF BeginWrite
<1>2. clock \in Nat /\ clock' = clock + 1
  BY <1>1 DEF Start, DeskTypeOK
<1>3. [pc |-> "writing", user |-> u, at |-> clock + 1, what |-> kind, seen |-> NoWindow] \in Work'
  BY <1>2 DEF Work
<1>4. UNCHANGED <<members, items, ruling, window, windowLog, visit, shown, present, late, hasty>>
  BY DEF BeginWrite
<1> SUFFICES ASSUME ~concurrent' PROVE DeskInv'
  BY DEF DeskInv
<1>5. /\ ~concurrent /\ OneAtATime' /\ \A q \in Handlers : StampsLast(q)'
      /\ \A q \in Handlers \ {r} : ReadWhatIs(q)'
      /\ handler'[r].pc = "writing"
  BY <1>1, <1>3, <1>4, BegunLast
<1>6. ReadWhatIs(r)'
  BY <1>5 DEF ReadWhatIs
<1>7. InOrder' /\ RulingIsNewest' /\ WindowHistoryIsWhole'
  BY <1>4, <1>5 DEF DeskInv, InOrder, RulingIsNewest, WindowHistoryIsWhole
<1> QED
  BY <1>5, <1>6, <1>7 DEF DeskInv

LEMMA WindowBegunKeeps ==
    ASSUME DeskTypeOK, DeskInv, NEW r \in Handlers, NEW u \in Users \cup {Machine}, NEW w \in Windows,
           BeginWindow(r, u, w)
    PROVE  DeskInv'
<1>1. Start(r, u, "declaring", w, window)
  BY DEF BeginWindow
<1>2. clock \in Nat /\ clock' = clock + 1 /\ window \in Windows /\ u \in Users
  BY <1>1 DEF Start, DeskTypeOK, BeginWindow
<1>3. [pc |-> "declaring", user |-> u, at |-> clock + 1, what |-> w, seen |-> window] \in Work'
  BY <1>2 DEF Work
<1>4. UNCHANGED <<members, items, ruling, window, windowLog, visit, shown, present, late, hasty>>
  BY DEF BeginWindow
<1> SUFFICES ASSUME ~concurrent' PROVE DeskInv'
  BY DEF DeskInv
<1>5. /\ ~concurrent /\ OneAtATime' /\ \A q \in Handlers : StampsLast(q)'
      /\ \A q \in Handlers \ {r} : ReadWhatIs(q)'
      /\ handler'[r].pc = "declaring" /\ handler'[r].seen = window
  BY <1>1, <1>3, <1>4, BegunLast
<1>6. ReadWhatIs(r)'
  BY <1>4, <1>5 DEF ReadWhatIs
<1>7. InOrder' /\ RulingIsNewest' /\ WindowHistoryIsWhole'
  BY <1>4, <1>5 DEF DeskInv, InOrder, RulingIsNewest, WindowHistoryIsWhole
<1> QED
  BY <1>5, <1>6, <1>7 DEF DeskInv

LEMMA SeenBegunKeeps ==
    ASSUME DeskTypeOK, DeskInv, NEW r \in Handlers, NEW u \in Users \cup {Machine}, BeginSeen(r, u)
    PROVE  DeskInv'
<1> PICK seen : seen = IF visit[u] = 0 THEN "no visit" ELSE "a visit"
  OBVIOUS
<1>1. Start(r, u, "seeing", NoWindow, seen)
  BY DEF BeginSeen
<1>2. clock + 1 \in 1..clock'
  <2>1. clock \in Nat /\ clock' = clock + 1
    BY <1>1 DEF Start, DeskTypeOK
  <2> QED
    BY <2>1, ClockGoesOn
<1>3. u \in Users
  BY DEF BeginSeen
<1>4. [pc |-> "seeing", user |-> u, at |-> clock + 1, what |-> NoWindow, seen |-> seen] \in Work'
  <2>1. seen \in {"no visit", "a visit"}
    OBVIOUS
  <2> QED
    BY <1>2, <1>3, <2>1, SeeingIsWork
<1>5. UNCHANGED <<items, ruling, window, windowLog>>
  BY DEF BeginSeen
<1> SUFFICES ASSUME ~concurrent' PROVE DeskInv'
  BY DEF DeskInv
<1>6. /\ ~concurrent /\ OneAtATime' /\ \A q \in Handlers : StampsLast(q)'
      /\ \A q \in Handlers \ {r} : ReadWhatIs(q)'
      /\ handler'[r].pc = "seeing"
  BY <1>1, <1>4, <1>5, BegunLast
<1>7. ReadWhatIs(r)'
  BY <1>6 DEF ReadWhatIs
<1>8. InOrder' /\ RulingIsNewest' /\ WindowHistoryIsWhole'
  BY <1>5, <1>6 DEF DeskInv, InOrder, RulingIsNewest, WindowHistoryIsWhole
<1> QED
  BY <1>6, <1>7, <1>8 DEF DeskInv

LEMMA MemberAddedKeeps ==
    ASSUME DeskInv, NEW u \in Users, AddMember(u)
    PROVE  DeskInv'
<1>1. UNCHANGED <<clock, items, ruling, window, windowLog, visit, shown, present, late, handler, concurrent, hasty>>
  BY DEF AddMember
<1> QED
  BY <1>1 DEF DeskInv, OneAtATime, StampsLast, ReadWhatIs, InOrder, RulingIsNewest, WindowHistoryIsWhole

LEMMA DigestReadKeeps ==
    ASSUME DeskInv, NEW u \in Users, ReadDigest(u)
    PROVE  DeskInv'
<1>1. UNCHANGED <<clock, items, ruling, window, windowLog, handler, concurrent>>
  BY DEF ReadDigest
<1> QED
  BY <1>1 DEF DeskInv, OneAtATime, StampsLast, ReadWhatIs, InOrder, RulingIsNewest, WindowHistoryIsWhole

LEMMA NoteWithdrawnKeeps ==
    ASSUME DeskTypeOK, DeskInv, NEW u \in Users, NEW i \in 1..Len(items), WithdrawNote(u, i)
    PROVE  DeskInv'
<1>1. UNCHANGED <<clock, members, ruling, window, windowLog, visit, shown, present, late, handler, concurrent, hasty>>
  BY DEF WithdrawNote
<1>2. /\ Len(items') = Len(items)
      /\ \A j \in 1..Len(items) : /\ items'[j].at = items[j].at /\ items'[j].kind = items[j].kind
                                  /\ items[j].withdrawn => items'[j].withdrawn
  BY NoteWithdrawn DEF WithdrawNote
<1> SUFFICES ASSUME ~concurrent PROVE DeskInv'
  BY <1>1 DEF DeskInv
<1>3. OneAtATime' /\ \A r \in Handlers : StampsLast(r)'
  BY <1>1, <1>2 DEF DeskInv, OneAtATime, StampsLast
<1>4. \A r \in Handlers : ReadWhatIs(r)'
  BY <1>1, <1>2 DEF DeskInv, ReadWhatIs
<1>5. InOrder'
  BY <1>1, <1>2 DEF DeskInv, InOrder
<1>6. RulingIsNewest'
  BY <1>1, <1>2 DEF DeskInv, RulingIsNewest
<1>7. WindowHistoryIsWhole'
  BY <1>1 DEF DeskInv, WindowHistoryIsWhole
<1> QED
  BY <1>3, <1>4, <1>5, <1>6, <1>7 DEF DeskInv

\* The row a request commits is the newest of all.
LEMMA WriteCommittedKeeps ==
    ASSUME DeskTypeOK, DeskInv, NEW r \in Handlers, CommitWrite(r)
    PROVE  DeskInv'
<1>1. UNCHANGED <<clock, members, window, windowLog, visit, shown, present, concurrent, hasty>> /\ Finish(r)
  BY DEF CommitWrite
<1> SUFFICES ASSUME ~concurrent PROVE DeskInv'
  BY <1>1 DEF DeskInv
<1>2. /\ Len(items') = Len(items) + 1 /\ Len(items) \in Nat
      /\ \A j \in 1..Len(items) : items'[j] = items[j]
      /\ items'[Len(items) + 1].at = handler[r].at /\ items'[Len(items) + 1].kind = handler[r].what
      /\ ~items'[Len(items) + 1].withdrawn
  BY RowAdded, ItemRows
<1>3. handler[r].pc = "writing" /\ handler[r].pc # "idle"
  BY DEF CommitWrite, Doing
<1>4. OneAtATime' /\ \A q \in Handlers : StampsLast(q)' /\ ReadWhatIs(q)'
  BY <1>1, <1>3, EndedAlone DEF DeskInv
<1>5. /\ handler[r].at = clock
      /\ \A i \in 1..Len(items) : items[i].at < clock
  BY <1>3 DEF DeskInv, StampsLast
<1>6. \A i \in 1..Len(items') : i \in 1..Len(items) \/ i = Len(items) + 1
  BY <1>2
<1>7. InOrder'
  <2> SUFFICES ASSUME NEW i \in 1..Len(items'), NEW j \in 1..Len(items'), i < j
               PROVE  items'[i].at < items'[j].at
    BY DEF InOrder
  <2>1. i \in 1..Len(items)
    BY <1>2
  <2>2. CASE j \in 1..Len(items)
    BY <1>2, <2>1, <2>2 DEF DeskInv, InOrder
  <2>3. CASE j = Len(items) + 1
    BY <1>2, <1>5, <2>1, <2>3
  <2> QED
    BY <1>6, <2>2, <2>3
<1>8. RulingIsNewest'
  <2>1. CASE handler[r].what \in Decisions
    <3>1. ruling' = StatusFor(handler[r].what)
      BY <2>1 DEF CommitWrite
    <3>2. ruling' = StatusFor(items'[Len(items) + 1].kind) /\ items'[Len(items) + 1].kind \in Decisions
      BY <1>2, <2>1, <3>1
    <3>3. Len(items) + 1 \in 1..Len(items') /\ \A j \in 1..Len(items') : ~(j > Len(items) + 1)
      BY <1>2
    <3> QED
      BY <3>2, <3>3 DEF RulingIsNewest
  <2>2. CASE handler[r].what \notin Decisions
    <3>1. ruling' = ruling
      BY <2>2 DEF CommitWrite
    <3>2. items'[Len(items) + 1].kind \notin Decisions
      BY <1>2, <2>2
    <3>3. CASE ruling = "open" /\ \A i \in 1..Len(items) : items[i].kind \notin Decisions
      <4>1. \A i \in 1..Len(items') : items'[i].kind \notin Decisions
        BY <1>2, <1>6, <3>2, <3>3
      <4> QED
        BY <3>1, <3>3, <4>1 DEF RulingIsNewest
    <3>4. ASSUME NEW n \in 1..Len(items), items[n].kind \in Decisions, ruling = StatusFor(items[n].kind),
                 \A j \in 1..Len(items) : j > n => items[j].kind \notin Decisions
          PROVE  RulingIsNewest'
      <4>1. n \in 1..Len(items') /\ items'[n] = items[n]
        BY <1>2
      <4>2. \A j \in 1..Len(items') : j > n => items'[j].kind \notin Decisions
        BY <1>2, <1>6, <3>2, <3>4
      <4>3. items'[n].kind \in Decisions /\ ruling' = StatusFor(items'[n].kind)
        BY <3>1, <3>4, <4>1
      <4> QED
        BY <4>1, <4>2, <4>3 DEF RulingIsNewest
    <3> QED
      BY <3>3, <3>4 DEF DeskInv, RulingIsNewest
  <2> QED
    BY <2>1, <2>2
<1>9. WindowHistoryIsWhole'
  BY <1>1 DEF DeskInv, WindowHistoryIsWhole
<1> QED
  BY <1>4, <1>7, <1>8, <1>9 DEF DeskInv

\* A change of the incident window starts from the span the case has.
LEMMA WindowCommittedKeeps ==
    ASSUME DeskTypeOK, DeskInv, NEW r \in Handlers, CommitWindow(r)
    PROVE  DeskInv'
<1>1. UNCHANGED <<clock, members, items, ruling, visit, shown, present, late, concurrent, hasty>> /\ Finish(r)
  BY DEF CommitWindow
<1> SUFFICES ASSUME ~concurrent PROVE DeskInv'
  BY <1>1 DEF DeskInv
<1>2. handler[r].pc = "declaring" /\ handler[r].pc # "idle"
  BY DEF CommitWindow, Doing
<1>3. OneAtATime' /\ \A q \in Handlers : StampsLast(q)' /\ ReadWhatIs(q)'
  BY <1>1, <1>2, EndedAlone DEF DeskInv
<1>4. handler[r].seen = window
  BY <1>2 DEF DeskInv, ReadWhatIs
<1>5. InOrder' /\ RulingIsNewest'
  BY <1>1 DEF DeskInv, InOrder, RulingIsNewest
<1>6. window' = handler[r].what
  BY <1>4 DEF CommitWindow
<1>7. WindowHistoryIsWhole
  BY DEF DeskInv
<1> PICK n \in Nat : n = Len(windowLog)
  BY WindowLogged
<1> PICK old : old = windowLog
  OBVIOUS
<1> PICK new : new = windowLog'
  OBVIOUS
<1>8. /\ old \in Seq([previous : Windows, declared : Windows]) /\ new \in Seq([previous : Windows, declared : Windows])
      /\ Len(old) = n /\ Len(new) = n + 1 /\ \A i \in 1..n : new[i] = old[i]
      /\ new[n + 1].previous = window /\ new[n + 1].declared = window'
  BY <1>4, <1>6, WindowLogged
<1>9. old = <<>> <=> n = 0
  BY <1>8, EmptySeq
<1>10. new # <<>>
  BY <1>8, EmptySeq
<1>11. window = IF n = 0 THEN NoWindow ELSE old[n].declared
  BY <1>7, <1>8, <1>9 DEF WindowHistoryIsWhole, Last
<1>12. \A i \in 1..n : old[i].previous = IF i = 1 THEN NoWindow ELSE old[i - 1].declared
  BY <1>7, <1>8 DEF WindowHistoryIsWhole
<1>13. ASSUME NEW i \in 1..(n + 1)
       PROVE  new[i].previous = IF i = 1 THEN NoWindow ELSE new[i - 1].declared
  <2>1. CASE i \in 1..n /\ i = 1
    BY <1>8, <1>12, <2>1
  <2>2. CASE i \in 1..n /\ i # 1
    <3>1. i - 1 \in 1..n
      BY <2>2
    <3> QED
      BY <1>8, <1>12, <2>2, <3>1
  <2>3. CASE i = n + 1 /\ n = 0
    BY <1>8, <1>11, <2>3
  <2>4. CASE i = n + 1 /\ n # 0
    <3>1. n \in 1..n /\ i # 1 /\ i - 1 = n
      BY <2>4
    <3> QED
      BY <1>8, <1>11, <2>4, <3>1
  <2> QED
    BY <2>1, <2>2, <2>3, <2>4
<1>14. WindowHistoryIsWhole'
  BY <1>8, <1>10, <1>13 DEF WindowHistoryIsWhole, Last
<1> QED
  BY <1>3, <1>5, <1>14 DEF DeskInv

LEMMA SeenCommittedKeeps ==
    ASSUME DeskTypeOK, DeskInv, NEW r \in Handlers, CommitSeen(r)
    PROVE  DeskInv'
<1>1. UNCHANGED <<clock, members, items, ruling, window, windowLog, shown, present, late, concurrent, hasty>> /\ Finish(r)
  BY DEF CommitSeen
<1> SUFFICES ASSUME ~concurrent PROVE DeskInv'
  BY <1>1 DEF DeskInv
<1>2. handler[r].pc = "seeing" /\ handler[r].pc # "idle"
  BY DEF CommitSeen, Doing
<1>3. OneAtATime' /\ \A q \in Handlers : StampsLast(q)' /\ ReadWhatIs(q)'
  BY <1>1, <1>2, EndedAlone DEF DeskInv
<1>4. InOrder' /\ RulingIsNewest' /\ WindowHistoryIsWhole'
  BY <1>1 DEF DeskInv, InOrder, RulingIsNewest, WindowHistoryIsWhole
<1> QED
  BY <1>3, <1>4 DEF DeskInv

LEMMA StepKeepsDesk == DeskTypeOK /\ DeskInv /\ [DeskNext]_deskVars => DeskInv'
<1> SUFFICES ASSUME DeskTypeOK, DeskInv, [DeskNext]_deskVars PROVE DeskInv'
  OBVIOUS
<1>1. CASE UNCHANGED deskVars
  BY <1>1 DEF deskVars, DeskInv, OneAtATime, StampsLast, ReadWhatIs, InOrder, RulingIsNewest, WindowHistoryIsWhole
<1> QED
  BY <1>1, MemberAddedKeeps, DigestReadKeeps, NoteWithdrawnKeeps, WriteBegunKeeps, WindowBegunKeeps, SeenBegunKeeps,
     WriteCommittedKeeps, WindowCommittedKeeps, SeenCommittedKeeps DEF DeskNext

\* The ruling that counts is that of the newest decision.
LEMMA NewestDecides ==
    ASSUME DeskTypeOK, ~concurrent, InOrder, RulingIsNewest
    PROVE  StatusFollowsDecisions
<1> DEFINE decisions == {i \in 1..Len(items) : items[i].kind \in Decisions}
<1>1. CASE ruling = "open" /\ \A i \in 1..Len(items) : items[i].kind \notin Decisions
  <2>1. decisions = {}
    BY <1>1
  <2> QED
    BY <1>1, <2>1 DEF StatusFollowsDecisions
<1>2. ASSUME NEW n \in 1..Len(items), items[n].kind \in Decisions, ruling = StatusFor(items[n].kind),
             \A j \in 1..Len(items) : j > n => items[j].kind \notin Decisions
      PROVE  StatusFollowsDecisions
  <2>1. n \in decisions /\ decisions \subseteq 1..Len(items)
    BY <1>2
  <2>2. \A i \in 1..Len(items) : items[i].at \in Nat /\ i \in Nat
    BY ItemRows DEF DeskTypeOK
  <2>3. \A j \in decisions : j # n => items[j].at < items[n].at
    BY <1>2, <2>1, <2>2 DEF InOrder
  <2>4. \A j \in decisions : items[j].at <= items[n].at
    BY <2>1, <2>2, <2>3
  <2>5. \A i \in decisions : (\A j \in decisions : items[j].at <= items[i].at) => i = n
    BY <2>1, <2>2, <2>3
  <2>6. (CHOOSE i \in decisions : \A j \in decisions : items[j].at <= items[i].at) = n
    BY <2>1, <2>4, <2>5
  <2>7. decisions # {}
    BY <2>1
  <2>8. ruling = IF decisions = {} THEN "open"
                 ELSE StatusFor(items[CHOOSE i \in decisions : \A j \in decisions : items[j].at <= items[i].at].kind)
    <3>1. ruling = StatusFor(items[n].kind)
      BY <1>2
    <3> HIDE DEF decisions
    <3>2. ruling = StatusFor(items[CHOOSE i \in decisions : \A j \in decisions : items[j].at <= items[i].at].kind)
      BY <3>1, <2>6, Zenon
    <3> QED
      BY <3>2, <2>7
  <2> QED
    BY <2>8, Zenon DEF StatusFollowsDecisions
<1> QED
  BY <1>1, <1>2 DEF RulingIsNewest

LEMMA DeskStaysInOrder == DeskSpec => [](DeskTypeOK /\ DeskInv)
<1> QED
  BY DeskStartsTyped, DeskStartsInOrder, StepKeepsDeskTypes, StepKeepsDesk, PTL DEF DeskSpec

\* What u was told of, or is the exception; a row that is neither lies after u's mark and
\* after every mark u is setting.
Told(u, i) == items[i].withdrawn \/ i <= present[u] \/ i \in shown[u] \/ i \in late[u]
HidesNothing(u, mark) == \A i \in 1..Len(items) : Told(u, i) \/ items[i].at > mark
MarksHideNothing ==
    /\ \A u \in Users \ hasty : HidesNothing(u, visit[u])
    /\ \A r \in Handlers : handler[r].pc = "seeing" /\ handler[r].user \notin hasty =>
                              HidesNothing(handler[r].user, handler[r].at)

\* A step that tells more, adds no row and sets no mark.
LEMMA MoreIsTold ==
    ASSUME DeskTypeOK, MarksHideNothing, UNCHANGED <<visit, hasty>>, Len(items') = Len(items),
           \A q \in Handlers : handler'[q].pc = "seeing" => handler'[q] = handler[q],
           \A i \in 1..Len(items) : items'[i].at = items[i].at,
           \A u \in Users, i \in 1..Len(items) : Told(u, i) => Told(u, i)'
    PROVE  MarksHideNothing'
<1>1. ASSUME NEW u \in Users, NEW mark, HidesNothing(u, mark)
      PROVE  \A i \in 1..Len(items') : Told(u, i)' \/ items'[i].at > mark
  BY <1>1 DEF HidesNothing
<1>2. \A u \in Users \ hasty' : HidesNothing(u, visit[u])'
  BY <1>1 DEF MarksHideNothing, HidesNothing
<1>3. ASSUME NEW q \in Handlers, handler'[q].pc = "seeing", handler'[q].user \notin hasty'
      PROVE  HidesNothing(handler[q].user, handler[q].at)'
  <2>1. handler'[q] = handler[q] /\ handler[q].user \in Users
    BY <1>3, WorkIs
  <2>2. HidesNothing(handler[q].user, handler[q].at)
    BY <1>3, <2>1 DEF MarksHideNothing
  <2> QED
    BY <1>1, <2>1, <2>2 DEF HidesNothing
<1> QED
  BY <1>2, <1>3 DEF MarksHideNothing

\* What a request that begins leaves of the marks: its own is its concern.
LEMMA OthersMark ==
    ASSUME DeskTypeOK, MarksHideNothing, NEW r \in Handlers, NEW u, NEW pc, NEW what, NEW seen,
           Start(r, u, pc, what, seen),
           [pc |-> pc, user |-> u, at |-> clock + 1, what |-> what, seen |-> seen] \in Work',
           UNCHANGED <<items, visit, shown, present, late>>, hasty \subseteq hasty',
           pc = "seeing" /\ u \notin hasty' => \A i \in 1..Len(items) : Told(u, i)
    PROVE  MarksHideNothing'
<1>1. /\ handler'[r].pc = pc /\ handler'[r].user = u
      /\ \A q \in Handlers \ {r} : handler'[q] = handler[q]
  BY Started
<1>2. \A v, i : Told(v, i)' <=> Told(v, i)
  BY DEF Told
<1>3. \A v \in Users \ hasty' : HidesNothing(v, visit[v])'
  BY <1>2 DEF MarksHideNothing, HidesNothing
<1>4. ASSUME NEW q \in Handlers, handler'[q].pc = "seeing", handler'[q].user \notin hasty'
      PROVE  HidesNothing(handler[q].user, handler[q].at)'
  <2>1. CASE q = r
    BY <1>1, <1>2, <1>4, <2>1 DEF HidesNothing
  <2>2. CASE q # r
    BY <1>1, <1>2, <1>4, <2>2 DEF MarksHideNothing, HidesNothing
  <2> QED
    BY <2>1, <2>2
<1> QED
  BY <1>3, <1>4 DEF MarksHideNothing

\* A row that is committed lies after every mark of a reader, or is late for that reader.
LEMMA WriteHidesNothing ==
    ASSUME DeskTypeOK, MarksHideNothing, NEW r \in Handlers, CommitWrite(r)
    PROVE  MarksHideNothing'
<1>1. UNCHANGED <<clock, visit, shown, present, hasty>> /\ Finish(r)
  BY DEF CommitWrite
<1>2. /\ Len(items') = Len(items) + 1 /\ Len(items) \in Nat
      /\ \A j \in 1..Len(items) : items'[j] = items[j]
      /\ items'[Len(items) + 1].at = handler[r].at
  BY RowAdded, ItemRows
<1>3. \A q \in Handlers : handler'[q].pc = "seeing" => handler'[q] = handler[q] /\ handler[q].pc = "seeing"
  BY <1>1, Finished
<1>4. \A i \in 1..Len(items') : i \in 1..Len(items) \/ i = Len(items) + 1
  BY <1>2
<1>5. \A u \in Users : /\ late[u] \subseteq late'[u]
                       /\ Behind(u, handler[r].at) => Len(items) + 1 \in late'[u]
  <2> PICK at : at = handler[r].at
    OBVIOUS
  <2>1. late' = [u \in Users |-> IF Behind(u, at) THEN late[u] \cup {Len(items) + 1} ELSE late[u]]
    BY DEF CommitWrite
  <2> QED
    BY <2>1
<1>6. \A u \in Users, i \in 1..Len(items) : Told(u, i) => Told(u, i)'
  BY <1>1, <1>2, <1>5 DEF Told
<1>7. ASSUME NEW u \in Users, NEW mark \in Nat, HidesNothing(u, mark),
             Behind(u, handler[r].at) \/ handler[r].at > mark
      PROVE  \A i \in 1..Len(items') : Told(u, i)' \/ items'[i].at > mark
  <2> PICK n \in Nat : n = Len(items) + 1
    BY <1>2
  <2>1. \A i \in 1..Len(items) : Told(u, i)' \/ items'[i].at > mark
    BY <1>2, <1>6, <1>7 DEF HidesNothing
  <2>2. Told(u, n)' \/ items'[n].at > mark
    BY <1>2, <1>5, <1>7 DEF Told
  <2> QED
    BY <1>4, <2>1, <2>2
<1>8. clock \in Nat /\ handler[r].at \in Nat
  BY WorkIs DEF CommitWrite, Doing, DeskTypeOK
<1>9. ASSUME NEW u \in Users \ hasty'
      PROVE  HidesNothing(u, visit[u])'
  <2>1. visit[u] \in Nat
    BY <1>8 DEF DeskTypeOK
  <2>2. Behind(u, handler[r].at) \/ handler[r].at > visit[u]
    BY <1>8, <2>1 DEF Behind
  <2> QED
    BY <1>1, <1>7, <2>1, <2>2 DEF MarksHideNothing, HidesNothing
<1>10. ASSUME NEW q \in Handlers, handler'[q].pc = "seeing", handler'[q].user \notin hasty'
       PROVE  HidesNothing(handler[q].user, handler[q].at)'
  <2>1. handler'[q] = handler[q] /\ handler[q].pc = "seeing"
    BY <1>3, <1>10
  <2>2. handler[q].user \in Users /\ handler[q].at \in Nat
    BY <1>8, <2>1, WorkIs
  <2>3. Behind(handler[q].user, handler[r].at) \/ handler[r].at > handler[q].at
    BY <1>8, <2>1, <2>2 DEF Behind, Doing
  <2>4. HidesNothing(handler[q].user, handler[q].at)
    BY <1>1, <1>10, <2>1 DEF MarksHideNothing
  <2> QED
    BY <1>7, <2>1, <2>2, <2>3, <2>4 DEF HidesNothing
<1> QED
  BY <1>9, <1>10 DEF MarksHideNothing

\* A mark that is stored is the one its request set, or the one there was.
LEMMA SeenHidesNothing ==
    ASSUME DeskTypeOK, MarksHideNothing, NEW r \in Handlers, CommitSeen(r)
    PROVE  MarksHideNothing'
<1>1. UNCHANGED <<clock, items, shown, present, late, hasty>> /\ Finish(r) /\ handler[r].pc = "seeing"
  BY DEF CommitSeen, Doing
<1>2. \A q \in Handlers : handler'[q].pc = "seeing" => handler'[q] = handler[q] /\ handler[q].pc = "seeing"
  BY <1>1, Finished
<1>3. \A u, i : Told(u, i)' <=> Told(u, i)
  BY <1>1 DEF Told
<1>4. ASSUME NEW u \in Users \ hasty'
      PROVE  HidesNothing(u, visit[u])'
  <2>1. visit'[u] = visit[u] \/ (u = handler[r].user /\ visit'[u] = handler[r].at)
    BY VisitMarked
  <2> QED
    BY <1>1, <1>3, <2>1 DEF MarksHideNothing, HidesNothing
<1>5. ASSUME NEW q \in Handlers, handler'[q].pc = "seeing", handler'[q].user \notin hasty'
      PROVE  HidesNothing(handler[q].user, handler[q].at)'
  BY <1>1, <1>2, <1>3, <1>5 DEF MarksHideNothing, HidesNothing
<1> QED
  BY <1>4, <1>5 DEF MarksHideNothing

\* Who marks the case seen was told of all there is, or is hasty from then on.
LEMMA MarkHidesNothing ==
    ASSUME DeskTypeOK, MarksHideNothing, NEW r \in Handlers, NEW u \in Users \cup {Machine}, BeginSeen(r, u)
    PROVE  MarksHideNothing'
<1> PICK seen : seen = IF visit[u] = 0 THEN "no visit" ELSE "a visit"
  OBVIOUS
<1>1. Start(r, u, "seeing", NoWindow, seen) /\ u \in Users
  BY DEF BeginSeen
<1>2. clock + 1 \in 1..clock'
  <2>1. clock \in Nat /\ clock' = clock + 1
    BY <1>1 DEF Start, DeskTypeOK
  <2> QED
    BY <2>1, ClockGoesOn
<1>3. [pc |-> "seeing", user |-> u, at |-> clock + 1, what |-> NoWindow, seen |-> seen] \in Work'
  <2>1. seen \in {"no visit", "a visit"}
    OBVIOUS
  <2> QED
    BY <1>1, <1>2, <2>1, SeeingIsWork
<1>4. UNCHANGED <<items, visit, shown, present, late>> /\ hasty \subseteq hasty'
  BY DEF BeginSeen
<1>5. ASSUME u \notin hasty', NEW i \in 1..Len(items) PROVE Told(u, i)
  <2>1. u \notin hasty /\ \A j \in Newer(u) \ late[u] : j \in shown[u] \/ j <= present[u]
    BY <1>5 DEF BeginSeen
  <2>2. Told(u, i) \/ items[i].at > visit[u]
    BY <1>1, <2>1 DEF MarksHideNothing, HidesNothing
  <2> QED
    BY <2>1, <2>2 DEF Newer, Told
<1> QED
  BY <1>1, <1>3, <1>4, <1>5, OthersMark

LEMMA StepHidesNothing == DeskTypeOK /\ MarksHideNothing /\ [DeskNext]_deskVars => MarksHideNothing'
<1> SUFFICES ASSUME DeskTypeOK, MarksHideNothing, [DeskNext]_deskVars PROVE MarksHideNothing'
  OBVIOUS
<1>1. ASSUME NEW u \in Users, AddMember(u) PROVE MarksHideNothing'
  BY <1>1, MoreIsTold DEF AddMember, Told
<1>2. ASSUME NEW u \in Users, ReadDigest(u) PROVE MarksHideNothing'
  <2>1. UNCHANGED <<items, visit, late, handler, hasty>>
    BY <1>2 DEF ReadDigest
  <2>2. \A v \in Users : shown[v] \subseteq shown'[v] /\ \A i \in 1..Len(items) : i <= present[v] => i <= present'[v]
    BY <1>2 DEF ReadDigest, DeskTypeOK
  <2> QED
    BY <2>1, <2>2, MoreIsTold DEF Told
<1>3. ASSUME NEW u \in Users, NEW i \in 1..Len(items), WithdrawNote(u, i) PROVE MarksHideNothing'
  <2>1. UNCHANGED <<visit, shown, present, late, handler, hasty>>
    BY <1>3 DEF WithdrawNote
  <2>2. /\ Len(items') = Len(items)
        /\ \A j \in 1..Len(items) : items'[j].at = items[j].at /\ (items[j].withdrawn => items'[j].withdrawn)
    BY <1>3, NoteWithdrawn DEF WithdrawNote
  <2> QED
    BY <2>1, <2>2, MoreIsTold DEF Told
<1>4. ASSUME NEW r \in Handlers, NEW u \in Users \cup {Machine}, NEW kind \in Kinds, BeginWrite(r, u, kind)
      PROVE  MarksHideNothing'
  <2>1. Start(r, u, "writing", kind, NoWindow) /\ UNCHANGED <<items, visit, shown, present, late, hasty>>
    BY <1>4 DEF BeginWrite
  <2>2. clock \in Nat /\ clock' = clock + 1
    BY <2>1 DEF Start, DeskTypeOK
  <2>3. [pc |-> "writing", user |-> u, at |-> clock + 1, what |-> kind, seen |-> NoWindow] \in Work'
    BY <2>2 DEF Work
  <2> QED
    BY <2>1, <2>3, OthersMark
<1>5. ASSUME NEW r \in Handlers, NEW u \in Users \cup {Machine}, NEW w \in Windows, BeginWindow(r, u, w)
      PROVE  MarksHideNothing'
  <2>1. Start(r, u, "declaring", w, window) /\ UNCHANGED <<items, visit, shown, present, late, hasty>>
    BY <1>5 DEF BeginWindow
  <2>2. clock \in Nat /\ clock' = clock + 1 /\ window \in Windows /\ u \in Users
    BY <1>5, <2>1 DEF Start, DeskTypeOK, BeginWindow
  <2>3. [pc |-> "declaring", user |-> u, at |-> clock + 1, what |-> w, seen |-> window] \in Work'
    BY <2>2 DEF Work
  <2> QED
    BY <2>1, <2>3, OthersMark
<1>6. ASSUME NEW r \in Handlers, CommitWindow(r) PROVE MarksHideNothing'
  <2>1. UNCHANGED <<clock, items, visit, shown, present, late, hasty>> /\ Finish(r)
    BY <1>6 DEF CommitWindow
  <2>2. \A q \in Handlers : handler'[q].pc = "seeing" => handler'[q] = handler[q]
    BY <2>1, Finished
  <2> QED
    BY <2>1, <2>2, MoreIsTold DEF Told
<1>7. CASE UNCHANGED deskVars
  BY <1>7, MoreIsTold DEF deskVars, Told
<1> QED
  BY <1>1, <1>2, <1>3, <1>4, <1>5, <1>6, <1>7, WriteHidesNothing, SeenHidesNothing, MarkHidesNothing DEF DeskNext

\* A reader who reads the digest before marking the case seen misses nothing but a row
\* stamped before the mark and committed after it, whatever is written, read and marked at
\* once, for any number of users, rows and requests (whats_new.build, mark_seen).
THEOREM ReadersMissNothing == DeskSpec => []NothingGoesUnseen
<1>1. DeskInit => MarksHideNothing
  <2> SUFFICES ASSUME DeskInit PROVE MarksHideNothing
    OBVIOUS
  <2>1. Len(items) = 0 /\ \A r \in Handlers : handler[r].pc = "idle"
    BY FreeIs DEF DeskInit
  <2> QED
    BY <2>1 DEF MarksHideNothing, HidesNothing
<1>2. MarksHideNothing => NothingGoesUnseen
  BY DEF MarksHideNothing, HidesNothing, Told, NothingGoesUnseen, New, Newer
<1> QED
  BY <1>1, <1>2, StepHidesNothing, DeskTypeCorrect, PTL DEF DeskSpec

\* Where requests take turns, the record of the incident window leads from each change to
\* the next and an alert has the status of the newest ruling on it (set_incident_window,
\* apply_review).
THEOREM DeskRecordsHold == DeskSpec => []DeskRecordsAgree
<1>1. DeskTypeOK /\ DeskInv => DeskRecordsAgree
  <2>1. CASE concurrent
    BY <2>1 DEF DeskRecordsAgree, WindowHistoryIsWhole, StatusFollowsDecisions
  <2>2. ASSUME ~concurrent, DeskTypeOK, DeskInv
        PROVE  DeskRecordsAgree
    BY <2>2, NewestDecides DEF DeskInv, DeskRecordsAgree
  <2> QED
    BY <2>1, <2>2
<1> QED
  BY <1>1, DeskStaysInOrder, PTL

================================================================================
