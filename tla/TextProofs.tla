-------------------------------- MODULE TextProofs --------------------------------
(***************************************************************************)
(* Proofs about lists and about what is read out of a text (TextReading).  *)
(***************************************************************************)
EXTENDS CaseReadings, FiniteSetTheorems, WellFoundedInduction, TLAPS
-------------------------------------------------------------------------------
\* Lists

\* A set of numbers that is not empty has a least one.
LEMMA LeastNumber ==
    ASSUME NEW T, T \subseteq Nat, T # {}
    PROVE  \E x \in T : \A y \in T : x <= y
<1> DEFINE Less == OpToRel(<, Nat)
<1>1. PICK x \in T : \A y \in T : <<y, x>> \notin Less
  <2>1. IsWellFoundedOn(Less, Nat)
    BY NatLessThanWellFounded
  <2> HIDE DEF Less
  <2> QED
    BY <2>1, WFMin
<1>2. \A y \in T : ~(y < x)
  BY <1>1 DEF OpToRel
<1> QED
  BY <1>2

\* The lists of a list up to a place, one after the other.
Joined(ss, f) == f = [i \in 1..Len(ss) |-> IF i = 1 THEN ss[i] ELSE f[i - 1] \o ss[i]]
Flattened(ss) == IF Len(ss) = 0 THEN ss ELSE (CHOOSE f : Joined(ss, f))[Len(ss)]

\* FlattenSeq, as each module of rules has it.
LEMMA SameFlat ==
    /\ \A ss : Rules!FlattenSeq(ss) = Flattened(ss)
    /\ \A ss : Alerts!FlattenSeq(ss) = Flattened(ss)
    /\ \A ss : Texts!FlattenSeq(ss) = Flattened(ss)
<1>1. \A ss : Rules!FlattenSeq(ss) = Flattened(ss)
  BY Zenon DEF Rules!FlattenSeq, Flattened, Joined
<1>2. \A ss : Alerts!FlattenSeq(ss) = Flattened(ss)
  BY Zenon DEF Alerts!FlattenSeq, Flattened, Joined
<1>3. \A ss : Texts!FlattenSeq(ss) = Flattened(ss)
  BY Zenon DEF Texts!FlattenSeq, Flattened, Joined
<1> QED
  BY <1>1, <1>2, <1>3

\* Such joins exist.
LEMMA JoiningsExist ==
    ASSUME NEW S, NEW ss \in Seq(Seq(S)), NEW k \in 1..Len(ss)
    PROVE  \E f \in [1..k -> Seq(S)] : f[1] = ss[1] /\ \A i \in 2..k : f[i] = f[i - 1] \o ss[i]
<1> DEFINE Joins(n) == {f \in [1..n -> Seq(S)] : f[1] = ss[1] /\ \A i \in 2..n : f[i] = f[i - 1] \o ss[i]}
           Bad == {n \in 1..Len(ss) : Joins(n) = {}}
<1>1. Len(ss) \in Nat /\ \A i \in 1..Len(ss) : ss[i] \in Seq(S)
  OBVIOUS
<1>2. Bad = {}
  <2> SUFFICES ASSUME Bad # {} PROVE FALSE
    OBVIOUS
  <2>1. Bad \subseteq 1..Len(ss) /\ Bad \subseteq Nat
    <3> HIDE DEF Joins
    <3> QED
      BY <1>1
  <2>2. PICK x \in Bad : \A y \in Bad : x <= y
    <3> HIDE DEF Bad
    <3> QED
      BY <2>1, LeastNumber
  <2>3. x \in 1..Len(ss) /\ Joins(x) = {}
    OBVIOUS
  <2>4. CASE x = 1
    <3>1. [i \in 1..1 |-> ss[1]] \in Joins(1)
      BY <1>1, <2>3, <2>4
    <3> QED
      BY <2>3, <2>4, <3>1
  <2>5. CASE x # 1
    <3>1. x - 1 \in 1..Len(ss) /\ x - 1 \notin Bad
      <4>1. x - 1 \in 1..Len(ss) /\ ~(x <= x - 1)
        BY <1>1, <2>3, <2>5
      <4> HIDE DEF Bad, Joins
      <4> QED
        BY <2>2, <4>1
    <3>2. PICK g : g \in Joins(x - 1)
      BY <3>1
    <3>3. /\ g \in [1..(x - 1) -> Seq(S)] /\ g[1] = ss[1]
          /\ \A i \in 2..(x - 1) : g[i] = g[i - 1] \o ss[i]
      BY <3>2
    <3> HIDE DEF Bad, Joins
    <3>4. PICK h : h = [i \in 1..x |-> IF i = x THEN g[x - 1] \o ss[x] ELSE g[i]]
      OBVIOUS
    <3>5. g[x - 1] \o ss[x] \in Seq(S)
      BY <1>1, <2>3, <3>1, <3>3
    <3>6. h \in [1..x -> Seq(S)]
      BY <1>1, <2>3, <3>1, <3>3, <3>4, <3>5
    <3>7. h[1] = ss[1] /\ \A i \in 2..x : h[i] = h[i - 1] \o ss[i]
      <4>1. h[1] = ss[1]
        BY <1>1, <2>3, <2>5, <3>3, <3>4
      <4>2. ASSUME NEW i \in 2..x PROVE h[i] = h[i - 1] \o ss[i]
        <5>1. i \in 1..x /\ i - 1 \in 1..x /\ i - 1 # x
          BY <1>1, <2>3
        <5>2. h[i - 1] = g[i - 1]
          BY <3>4, <5>1
        <5>3. CASE i = x
          BY <3>4, <5>1, <5>2, <5>3
        <5>4. CASE i # x
          <6>1. i \in 2..(x - 1)
            BY <1>1, <2>3, <5>4
          <6> QED
            BY <3>3, <3>4, <5>1, <5>2, <5>4, <6>1
        <5> QED
          BY <5>3, <5>4
      <4> QED
        BY <4>1, <4>2
    <3>8. h \in Joins(x)
      BY <3>6, <3>7 DEF Joins
    <3> QED
      BY <2>3, <3>8
  <2> QED
    BY <2>4, <2>5
<1>3. Joins(k) # {}
  BY <1>2
<1> QED
  BY <1>3

\* What a list of lists flattens to is built place by place.
Builds(ss, f) ==
    /\ f[1] = ss[1] /\ \A i \in 2..Len(ss) : f[i] = f[i - 1] \o ss[i]
    /\ Flattened(ss) = f[Len(ss)]
LEMMA FlatIsBuilt ==
    ASSUME NEW S, NEW ss \in Seq(Seq(S)), Len(ss) # 0
    PROVE  \E f \in [1..Len(ss) -> Seq(S)] : Builds(ss, f)
<1> DEFINE n == Len(ss)
<1>1. n \in Nat /\ n \in 1..n /\ DOMAIN ss = 1..n /\ \A i \in 1..n : ss[i] \in Seq(S)
  OBVIOUS
<1>2. PICK f \in [1..n -> Seq(S)] : f[1] = ss[1] /\ \A i \in 2..n : f[i] = f[i - 1] \o ss[i]
  BY <1>1, JoiningsExist
<1>3. Joined(ss, f)
  <2>1. \A i \in 1..n : f[i] = IF i = 1 THEN ss[i] ELSE f[i - 1] \o ss[i]
    <3>1. \A i \in 1..n : i = 1 \/ (i # 1 /\ i \in 2..n)
      BY <1>1
    <3> QED
      BY <1>2, <3>1, Zenon
  <2>2. f = [i \in 1..n |-> f[i]]
    OBVIOUS
  <2> QED
    BY <2>1, <2>2, Zenon DEF Joined
<1> DEFINE j == CHOOSE g : Joined(ss, g)
<1>4. Joined(ss, j) /\ Flattened(ss) = j[n]
  BY <1>3, <1>1 DEF Flattened
<1> HIDE DEF j
<1>5. \A i \in 1..n : j[i] = IF i = 1 THEN ss[i] ELSE j[i - 1] \o ss[i]
  <2>1. \A g, i : i \in 1..n => [x \in 1..n |-> IF x = 1 THEN ss[x] ELSE g[x - 1] \o ss[x]][i]
                                 = IF i = 1 THEN ss[i] ELSE g[i - 1] \o ss[i]
    OBVIOUS
  <2>2. j = [i \in 1..n |-> IF i = 1 THEN ss[i] ELSE j[i - 1] \o ss[i]]
    BY <1>4, Zenon DEF Joined
  <2> QED
    BY <2>1, <2>2, Zenon
<1> DEFINE Wrong == {i \in 1..n : j[i] # f[i]}
<1>6. Wrong = {}
  <2> SUFFICES ASSUME Wrong # {} PROVE FALSE
    OBVIOUS
  <2>1. Wrong \subseteq Nat
    BY <1>1
  <2>2. PICK x \in Wrong : \A y \in Wrong : x <= y
    <3> HIDE DEF Wrong
    <3> QED
      BY <2>1, LeastNumber
  <2>3. x \in 1..n /\ j[x] # f[x]
    OBVIOUS
  <2>4. x # 1
    BY <1>1, <1>2, <1>5, <2>3
  <2>5. x - 1 \in 1..n /\ ~(x <= x - 1) /\ x \in 2..n
    BY <1>1, <2>3, <2>4
  <2>6. j[x - 1] = f[x - 1]
    BY <2>2, <2>5
  <2> QED
    BY <1>2, <1>5, <2>3, <2>4, <2>5, <2>6
<1>7. j[n] = f[n]
  BY <1>1, <1>6
<1> QED
  BY <1>2, <1>4, <1>7 DEF Builds

\* Where each list begins in what a list of lists flattens to.
Parted(ss, flat, off) ==
    /\ off \in [0..Len(ss) -> Nat] /\ off[0] = 0 /\ off[Len(ss)] = Len(flat)
    /\ \A i \in 1..Len(ss) :
        /\ off[i] = off[i - 1] + Len(ss[i])
        /\ \A k \in 1..Len(ss[i]) : off[i - 1] + k \in 1..Len(flat) /\ flat[off[i - 1] + k] = ss[i][k]
    /\ \A i, k \in 0..Len(ss) : i <= k => off[i] <= off[k]
    /\ \A p \in 1..Len(flat) : \E i \in 1..Len(ss) : off[i - 1] < p /\ p <= off[i]

\* Lists flattened are a list of what they hold, in their order.
LEMMA FlatParts ==
    ASSUME NEW S, NEW ss \in Seq(Seq(S))
    PROVE  Flattened(ss) \in Seq(S) /\ \E off : Parted(ss, Flattened(ss), off)
<1> DEFINE n == Len(ss)
<1>1. n \in Nat /\ DOMAIN ss = 1..n /\ \A i \in 1..n : ss[i] \in Seq(S)
  OBVIOUS
<1>2. CASE n = 0
  <2>1. Flattened(ss) = <<>> /\ ss = <<>>
    BY <1>2 DEF Flattened
  <2>2. PICK off : off = [i \in 0..0 |-> 0]
    OBVIOUS
  <2>3. <<>> \in Seq(S) /\ Len(<<>>) = 0
    OBVIOUS
  <2>4. Parted(ss, Flattened(ss), off)
    BY <2>1, <2>2, <2>3 DEF Parted
  <2> QED
    BY <2>1, <2>3, <2>4
<1>3. CASE n # 0
  <2>1. PICK f \in [1..n -> Seq(S)] : Builds(ss, f)
    BY <1>3, FlatIsBuilt
  <2>2. \A i \in 1..n : f[i] \in Seq(S) /\ Len(f[i]) \in Nat /\ Len(ss[i]) \in Nat
    <3>1. \A x \in Seq(S) : Len(x) \in Nat
      OBVIOUS
    <3>2. \A i \in 1..n : f[i] \in Seq(S) /\ ss[i] \in Seq(S)
      BY <1>1
    <3> QED
      BY <3>1, <3>2
  <2>3. n \in 1..n /\ 1 \in 1..n
    BY <1>1, <1>3
  <2>4. PICK off : off = [i \in 0..n |-> IF i = 0 THEN 0 ELSE Len(f[i])]
    OBVIOUS
  <2>5. off[0] = 0 /\ \A i \in 1..n : off[i] = Len(f[i])
    BY <1>1, <2>4
  <2>6. off \in [0..n -> Nat]
    <3>1. \A i \in 0..n : i = 0 \/ i \in 1..n
      BY <1>1
    <3> QED
      BY <2>2, <2>4, <3>1
  <2>7. ASSUME NEW i \in 1..n
        PROVE  /\ off[i] = off[i - 1] + Len(ss[i])
               /\ \A k \in 1..Len(ss[i]) : f[i][off[i - 1] + k] = ss[i][k]
               /\ \A p \in 1..off[i - 1] : f[i][p] = f[i - 1][p]
    <3>1. CASE i = 1
      <4>1. f[i] = ss[i] /\ off[i - 1] = 0
        BY <2>1, <2>5, <3>1 DEF Builds
      <4> QED
        BY <2>2, <2>5, <4>1
    <3>2. CASE i # 1
      <4>1. i \in 2..n /\ i - 1 \in 1..n
        BY <1>1, <3>2
      <4>2. f[i] = f[i - 1] \o ss[i]
        BY <2>1, <4>1 DEF Builds
      <4>3. PICK a, b : a = f[i - 1] /\ b = ss[i]
        OBVIOUS
      <4>4. a \in Seq(S) /\ b \in Seq(S) /\ off[i - 1] = Len(a) /\ off[i] = Len(a \o b) /\ f[i] = a \o b
        BY <1>1, <2>2, <2>5, <4>1, <4>2, <4>3
      <4>5. /\ Len(a \o b) = Len(a) + Len(b)
            /\ \A k \in 1..Len(b) : (a \o b)[Len(a) + k] = b[k]
            /\ \A p \in 1..Len(a) : (a \o b)[p] = a[p]
        BY <4>4
      <4> QED
        BY <4>3, <4>4, <4>5
    <3> QED
      BY <3>1, <3>2
  <2>8. \A i \in 1..n : i - 1 \in 0..n /\ off[i - 1] \in Nat /\ off[i] \in Nat /\ off[i - 1] <= off[i]
    <3> SUFFICES ASSUME NEW i \in 1..n
                 PROVE  i - 1 \in 0..n /\ off[i - 1] \in Nat /\ off[i] \in Nat /\ off[i - 1] <= off[i]
      OBVIOUS
    <3>1. i - 1 \in 0..n /\ i \in 0..n
      BY <1>1
    <3>2. off[i - 1] \in Nat /\ off[i] \in Nat
      BY <2>6, <3>1
    <3>3. off[i] = off[i - 1] + Len(ss[i]) /\ Len(ss[i]) \in Nat
      BY <2>2, <2>7
    <3> HIDE DEF n
    <3> QED
      BY <3>1, <3>2, <3>3
  <2> HIDE DEF n
  <2>9. \A i, k \in 0..n : i <= k => off[i] <= off[k] /\ \A p \in 1..off[i] : i # 0 => f[k][p] = f[i][p]
    <3> SUFFICES ASSUME NEW i \in 0..n
                 PROVE  \A k \in 0..n : i <= k => off[i] <= off[k] /\ \A p \in 1..off[i] : i # 0 => f[k][p] = f[i][p]
      OBVIOUS
    <3> DEFINE Fine(k) == off[i] <= off[k] /\ \A p \in 1..off[i] : i # 0 => f[k][p] = f[i][p]
               Bad == {k \in 0..n : i <= k /\ ~Fine(k)}
    <3>1. Bad = {}
      <4> SUFFICES ASSUME Bad # {} PROVE FALSE
        OBVIOUS
      <4>1. Bad \subseteq Nat
        BY <1>1
      <4>2. PICK x \in Bad : \A y \in Bad : x <= y
        <5> HIDE DEF Bad
        <5> QED
          BY <4>1, LeastNumber
      <4>3. x \in 0..n /\ i <= x /\ ~Fine(x)
        OBVIOUS
      <4>4. Fine(i)
        <5>1. off[i] \in Nat
          BY <2>6
        <5> QED
          BY <5>1
      <4>5. x # i
        BY <4>3, <4>4
      <4>6. x \in 1..n /\ x - 1 \in 0..n /\ i <= x - 1 /\ ~(x <= x - 1)
        BY <1>1, <4>3, <4>5
      <4>7. Fine(x - 1)
        <5> HIDE DEF Fine
        <5> QED
          BY <4>2, <4>6
      <4>8. off[x - 1] <= off[x] /\ off[x] \in Nat /\ off[x - 1] \in Nat /\ off[i] \in Nat
        BY <2>6, <2>8, <4>6
      <4>9. \A p \in 1..off[i] : i # 0 => f[x][p] = f[i][p]
        <5> SUFFICES ASSUME NEW p \in 1..off[i], i # 0 PROVE f[x][p] = f[i][p]
          OBVIOUS
        <5>1. p \in 1..off[x - 1]
          BY <4>7, <4>8
        <5>2. f[x][p] = f[x - 1][p]
          BY <2>7, <4>6, <5>1
        <5> QED
          BY <4>7, <5>2
      <4> QED
        BY <4>3, <4>7, <4>8, <4>9
    <3> QED
      BY <3>1
  <2>10. Flattened(ss) = f[n] /\ off[n] = Len(f[n])
    BY <2>1, <2>3, <2>5 DEF Builds, n
  <2>11. ASSUME NEW i \in 1..n, NEW k \in 1..Len(ss[i])
         PROVE  off[i - 1] + k \in 1..Len(f[n]) /\ f[n][off[i - 1] + k] = ss[i][k]
    <3>1. off[i] = off[i - 1] + Len(ss[i]) /\ f[i][off[i - 1] + k] = ss[i][k]
      BY <2>7
    <3>2. i \in 0..n /\ n \in 0..n /\ i <= n /\ i # 0
      BY <1>1
    <3>3. off[i - 1] \in Nat /\ off[i] \in Nat /\ Len(ss[i]) \in Nat /\ off[n] \in Nat
      BY <2>2, <2>6, <2>8, <3>2
    <3>4. off[i] <= off[n] /\ \A p \in 1..off[i] : f[n][p] = f[i][p]
      BY <2>9, <3>2
    <3> HIDE DEF n
    <3>5. \A a, b, c, d \in Nat : b = a + c /\ b <= d => \A m \in 1..c : a + m \in 1..b /\ a + m \in 1..d
      OBVIOUS
    <3>6. off[i - 1] + k \in 1..off[i] /\ off[i - 1] + k \in 1..off[n]
      BY <3>1, <3>3, <3>4, <3>5, Zenon
    <3> QED
      BY <2>10, <3>1, <3>4, <3>6, Zenon
  <2>12. ASSUME NEW p \in 1..Len(f[n]) PROVE \E i \in 1..n : off[i - 1] < p /\ p <= off[i]
    <3> DEFINE Reach == {i \in 0..n : p <= off[i]}
    <3>1. n \in Reach /\ Reach \subseteq Nat
      BY <1>1, <2>3, <2>10
    <3>2. PICK x \in Reach : \A y \in Reach : x <= y
      <4> HIDE DEF Reach
      <4> QED
        BY <3>1, LeastNumber
    <3>3. x \in 0..n /\ p <= off[x] /\ p \in Nat /\ p >= 1
      BY <2>2, <2>3
    <3>4. x # 0
      BY <2>5, <3>3
    <3>5. x \in 1..n /\ x - 1 \in 0..n /\ ~(x <= x - 1)
      BY <1>1, <3>3, <3>4
    <3>6. x - 1 \notin Reach
      <4> HIDE DEF Reach
      <4> QED
        BY <3>2, <3>5
    <3>7. off[x - 1] \in Nat /\ ~(p <= off[x - 1])
      BY <2>6, <3>5, <3>6
    <3> QED
      BY <3>3, <3>5, <3>7
  <2>13. Parted(ss, f[n], off)
    BY <2>5, <2>6, <2>7, <2>9, <2>10, <2>11, <2>12 DEF Parted, n
  <2> QED
    BY <2>2, <2>3, <2>10, <2>13 DEF n
<1> QED
  BY <1>2, <1>3

-------------------------------------------------------------------------------
\* Places in a text, and the first of some

\* The texts' Min is the least member.
LEMMA MinIsLeast ==
    ASSUME NEW T, T \subseteq Nat, T # {}
    PROVE  Texts!Min(T) \in T /\ \A y \in T : Texts!Min(T) <= y
<1>1. PICK x \in T : \A y \in T : x <= y
  BY LeastNumber
<1> QED
  BY <1>1 DEF Texts!Min

\* The first of some places of a text comes before the others.
LEMMA FirstIsFirst ==
    ASSUME NEW A, A \subseteq Nat \X Nat, A # {}
    PROVE  Texts!First(A) \in A /\ \A q \in A : ~Texts!Before(q, Texts!First(A))
<1> DEFINE Ls == {p[1] : p \in A}
<1>1. Ls # {} /\ Ls \subseteq Nat
  OBVIOUS
<1>2. PICK l \in Ls : \A x \in Ls : l <= x
  <2> HIDE DEF Ls
  <2> QED
    BY <1>1, LeastNumber
<1> DEFINE Cs == {p[2] : p \in {q \in A : q[1] = l}}
<1>3. Cs # {} /\ Cs \subseteq Nat
  OBVIOUS
<1>4. PICK c \in Cs : \A x \in Cs : c <= x
  <2> HIDE DEF Cs
  <2> QED
    BY <1>3, LeastNumber
<1>5. PICK p \in A : p[1] = l /\ p[2] = c
  OBVIOUS
<1>6. ASSUME NEW q \in A PROVE ~Texts!Before(q, p)
  <2>1. l <= q[1] /\ (q[1] = l => c <= q[2])
    BY <1>2, <1>4
  <2>2. q[1] \in Nat /\ q[2] \in Nat /\ l \in Nat /\ c \in Nat
    BY <1>1, <1>3
  <2> HIDE DEF Ls, Cs
  <2> QED
    BY <1>5, <2>1, <2>2 DEF Texts!Before
<1> HIDE DEF Ls, Cs
<1>7. \E w \in A : \A q \in A : ~Texts!Before(q, w)
  BY <1>6
<1> QED
  BY <1>7, Zenon DEF Texts!First

\* It is the only one that does.
LEMMA FirstIsOne ==
    ASSUME NEW A, A \subseteq Nat \X Nat, NEW p \in A, \A q \in A : ~Texts!Before(q, p)
    PROVE  Texts!First(A) = p
<1>1. PICK f : f = Texts!First(A)
  OBVIOUS
<1>2. f \in A /\ ~Texts!Before(p, f) /\ ~Texts!Before(f, p)
  BY <1>1, FirstIsFirst
<1>3. f[1] \in Nat /\ f[2] \in Nat /\ p[1] \in Nat /\ p[2] \in Nat /\ f = <<f[1], f[2]>> /\ p = <<p[1], p[2]>>
  BY <1>2
<1>4. f[1] = p[1] /\ f[2] = p[2]
  BY <1>2, <1>3 DEF Texts!Before
<1> QED
  BY <1>1, <1>3, <1>4

\* The places of a text.
LEMMA PlacesAre ==
    ASSUME NEW text, IsText(text)
    PROVE  /\ Texts!Places(text) \subseteq Nat \X Nat
           /\ DOMAIN text = 1..Len(text) /\ Len(text) \in Nat
           /\ \A p : p \in Texts!Places(text) <=> \E i \in DOMAIN text : \E k \in DOMAIN text[i] : p = <<i, k>>
           /\ \A i \in DOMAIN text : DOMAIN text[i] = 1..Len(text[i]) /\ Len(text[i]) \in Nat
           /\ \A t : t \in Texts!Tokens(text) <=> \E i \in DOMAIN text : \E k \in DOMAIN text[i] : t = text[i][k]
<1>1. DOMAIN text = 1..Len(text) /\ Len(text) \in Nat
  BY DEF IsText, IsList
<1>2. \A i \in DOMAIN text : DOMAIN text[i] = 1..Len(text[i]) /\ Len(text[i]) \in Nat
  BY DEF IsText, IsList
<1>3. ASSUME NEW p PROVE p \in Texts!Places(text) <=> \E i \in DOMAIN text : \E k \in DOMAIN text[i] : p = <<i, k>>
  <2>1. p \in Texts!Places(text) <=> \E i \in DOMAIN text : p \in {i} \X DOMAIN text[i]
    BY DEF Texts!Places
  <2>2. \A i : p \in {i} \X DOMAIN text[i] <=> \E k \in DOMAIN text[i] : p = <<i, k>>
    OBVIOUS
  <2> QED
    BY <2>1, <2>2, Zenon
<1>4. Texts!Places(text) \subseteq Nat \X Nat
  BY <1>1, <1>2, <1>3
<1>5. ASSUME NEW t PROVE t \in Texts!Tokens(text) <=> \E i \in DOMAIN text : \E k \in DOMAIN text[i] : t = text[i][k]
  <2>1. t \in Texts!Tokens(text) <=> \E line \in Texts!ToSet(text) : t \in Texts!ToSet(line)
    BY DEF Texts!Tokens
  <2>2. \A line : line \in Texts!ToSet(text) <=> \E i \in DOMAIN text : line = text[i]
    BY DEF Texts!ToSet
  <2>3. \A i : t \in Texts!ToSet(text[i]) <=> \E k \in DOMAIN text[i] : t = text[i][k]
    BY DEF Texts!ToSet
  <2> QED
    BY <2>1, <2>2, <2>3, Zenon
<1> QED
  BY <1>1, <1>2, <1>3, <1>4, <1>5

\* A line is a text of one line.
LEMMA LineIsText ==
    ASSUME NEW line, IsList(line)
    PROVE  /\ IsText(<<line>>) /\ DOMAIN <<line>> = {1} /\ <<line>>[1] = line
           /\ \A p : p \in Texts!Places(<<line>>) <=> \E k \in DOMAIN line : p = <<1, k>>
           /\ \A k : Texts!At(<<line>>, <<1, k>>) = line[k]
           /\ \A t : t \in Texts!Tokens(<<line>>) <=> \E k \in DOMAIN line : t = line[k]
<1>1. PICK text : text = <<line>>
  OBVIOUS
<1>2. DOMAIN text = {1} /\ text[1] = line /\ text \in Seq({line})
  BY <1>1
<1>3. {text[i] : i \in DOMAIN text} = {line}
  BY <1>2
<1>4. IsText(text)
  BY <1>2, <1>3 DEF IsText, IsList
<1>5. \A p : p \in Texts!Places(text) <=> \E k \in DOMAIN line : p = <<1, k>>
  BY <1>2, <1>4, PlacesAre
<1>6. \A t : t \in Texts!Tokens(text) <=> \E k \in DOMAIN line : t = line[k]
  BY <1>2, <1>4, PlacesAre
<1>7. \A k : Texts!At(text, <<1, k>>) = line[k]
  BY <1>2 DEF Texts!At
<1> QED
  BY <1>1, <1>2, <1>4, <1>5, <1>6, <1>7

-------------------------------------------------------------------------------
\* Figures

\* A line speaks of a balance if one of its words does.
LEMMA BalanceIsSaid ==
    ASSUME NEW line
    PROVE  Texts!RoleOf(line) = "balance" <=> \E t \in Texts!ToSet(line) : t.kind = "word" /\ t.role = "balance"
<1> DEFINE order == <<"balance", "payment", "fee", "request">>
           Said(i) == \E t \in Texts!ToSet(line) : t.kind = "word" /\ t.role = order[i]
           said == {i \in DOMAIN order : Said(i)}
<1>1. Texts!RoleOf(line) = IF said = {} THEN "unknown" ELSE order[Texts!Min(said)]
  BY Zenon DEF Texts!RoleOf
<1>2. DOMAIN order = {1, 2, 3, 4} /\ order[1] = "balance" /\ \A i \in {2, 3, 4} : order[i] # "balance"
  <2>1. DOMAIN order = 1..4
    OBVIOUS
  <2>2. order[1] = "balance" /\ order[2] = "payment" /\ order[3] = "fee" /\ order[4] = "request"
    OBVIOUS
  <2>3. 1..4 = {1, 2, 3, 4}
    OBVIOUS
  <2> QED
    BY <2>1, <2>2, <2>3
<1>3. Said(1) <=> \E t \in Texts!ToSet(line) : t.kind = "word" /\ t.role = "balance"
  BY <1>2
<1> HIDE DEF Said, order
<1>4. said \subseteq {1, 2, 3, 4} /\ (1 \in said <=> Said(1))
  BY <1>2
<1>5. said # {} => /\ Texts!Min(said) \in said /\ \A y \in said : Texts!Min(said) <= y
  <2>1. said \subseteq Nat
    BY <1>4
  <2> HIDE DEF said
  <2> QED
    BY <2>1, MinIsLeast
<1> HIDE DEF said
<1>6. CASE 1 \in said
  <2>1. Texts!Min(said) = 1
    <3>1. PICK m : m = Texts!Min(said)
      OBVIOUS
    <3>2. m \in said /\ m <= 1 /\ m \in {1, 2, 3, 4}
      BY <1>4, <1>5, <1>6, <3>1
    <3> QED
      BY <3>1, <3>2
  <2> QED
    BY <1>1, <1>2, <1>3, <1>4, <1>6, <2>1
<1>7. CASE 1 \notin said
  <2>1. said # {} => Texts!Min(said) \in {2, 3, 4}
    BY <1>4, <1>5, <1>7
  <2> QED
    BY <1>1, <1>2, <1>3, <1>4, <1>7, <2>1
<1> QED
  BY <1>6, <1>7

\* The places of what counts as an amount.
AmountsIn(text, declared) == {p \in Texts!Places(text) : Texts!IsAmount(Texts!At(text, p), text[p[1]], declared)}
LEMMA AmountIs ==
    ASSUME NEW text, NEW declared
    PROVE  Texts!AmountIn(text, declared) =
             IF AmountsIn(text, declared) = {} THEN Texts!NoAmount
             ELSE [size |-> Texts!At(text, Texts!First(AmountsIn(text, declared))).size,
                   role |-> Texts!RoleOf(text[Texts!First(AmountsIn(text, declared))[1]])]
  BY Zenon DEF Texts!AmountIn, AmountsIn

\* What a line says it amounts to is a figure of it, and the words of the line say
\* what for.
LEMMA AmountOfLine ==
    ASSUME NEW line, IsList(line), NEW declared, Texts!AmountIn(<<line>>, declared) # Texts!NoAmount
    PROVE  \E k \in DOMAIN line : /\ line[k].kind = "figure"
                                  /\ Texts!AmountIn(<<line>>, declared) = [size |-> line[k].size, role |-> Texts!RoleOf(line)]
<1>1. PICK text, A : text = <<line>> /\ A = AmountsIn(text, declared)
  OBVIOUS
<1>2. /\ IsText(text) /\ text[1] = line
      /\ \A p : p \in Texts!Places(text) <=> \E k \in DOMAIN line : p = <<1, k>>
      /\ \A k : Texts!At(text, <<1, k>>) = line[k]
  BY <1>1, LineIsText
<1>3. /\ A # {}
      /\ Texts!AmountIn(text, declared) = [size |-> Texts!At(text, Texts!First(A)).size, role |-> Texts!RoleOf(text[Texts!First(A)[1]])]
  BY <1>1, AmountIs
<1>4. A \subseteq Texts!Places(text) /\ A \subseteq Nat \X Nat
  <2>1. A \subseteq Texts!Places(text)
    BY <1>1 DEF AmountsIn
  <2> QED
    BY <1>2, <2>1, PlacesAre
<1>5. Texts!First(A) \in A
  BY <1>3, <1>4, FirstIsFirst
<1>6. PICK k \in DOMAIN line : Texts!First(A) = <<1, k>>
  BY <1>2, <1>4, <1>5
<1>7. line[k].kind = "figure"
  <2>1. Texts!IsAmount(Texts!At(text, Texts!First(A)), text[Texts!First(A)[1]], declared)
    BY <1>1, <1>5 DEF AmountsIn
  <2>2. Texts!At(text, Texts!First(A)) = line[k]
    BY <1>2, <1>6, Zenon
  <2>3. \A t, l : Texts!IsAmount(t, l, declared) => t.kind = "figure"
    BY Zenon DEF Texts!IsAmount
  <2> QED
    BY <2>1, <2>2, <2>3, Zenon
<1>8. Texts!AmountIn(text, declared) = [size |-> line[k].size, role |-> Texts!RoleOf(line)]
  <2>1. Texts!First(A)[1] = 1
    BY <1>6
  <2> QED
    BY <1>2, <1>3, <1>6, <2>1
<1> QED
  BY <1>1, <1>7, <1>8

\* A field's column, if the header has one, is a column of that field.
LEMMA ColumnIsMapped ==
    ASSUME NEW header, IsList(header), \A i \in DOMAIN header : header[i].rank \in Nat, NEW field,
           Texts!Mapped(header, field) # 0
    PROVE  Texts!Mapped(header, field) \in DOMAIN header /\ header[Texts!Mapped(header, field)].field = field
<1> DEFINE columns == {i \in DOMAIN header : header[i].field = field}
           Wins(i) == IF columns = {} THEN i = 0 ELSE i \in columns /\
                        \A j \in columns : header[i].rank < header[j].rank \/ (header[i].rank = header[j].rank /\ i <= j)
<1>1. Texts!Mapped(header, field) = CHOOSE i \in columns \cup {0} : Wins(i)
  BY Zenon DEF Texts!Mapped
<1>2. columns \subseteq Nat /\ \A i \in columns : header[i].rank \in Nat
  BY DEF IsList
<1>3. \E i \in columns \cup {0} : Wins(i)
  <2>1. CASE columns = {}
    BY <2>1
  <2>2. CASE columns # {}
    <3> DEFINE Rs == {header[i].rank : i \in columns}
    <3>1. Rs # {} /\ Rs \subseteq Nat
      BY <1>2, <2>2
    <3>2. PICK r \in Rs : \A x \in Rs : r <= x
      <4> HIDE DEF Rs
      <4> QED
        BY <3>1, LeastNumber
    <3> DEFINE Is == {i \in columns : header[i].rank = r}
    <3>3. Is # {} /\ Is \subseteq Nat
      <4> HIDE DEF columns
      <4> QED
        BY <1>2
    <3>4. PICK c \in Is : \A x \in Is : c <= x
      <4> HIDE DEF Is
      <4> QED
        BY <3>3, LeastNumber
    <3>5. c \in columns /\ header[c].rank = r
      <4> HIDE DEF columns
      <4> QED
        OBVIOUS
    <3>6. ASSUME NEW j \in columns PROVE header[c].rank < header[j].rank \/ (header[c].rank = header[j].rank /\ c <= j)
      <4>1. r <= header[j].rank /\ (header[j].rank = r => c <= j)
        <5> HIDE DEF columns
        <5> QED
          BY <3>2, <3>4
      <4>2. r \in Nat /\ header[j].rank \in Nat
        BY <1>2, <3>5
      <4> HIDE DEF columns, Rs, Is
      <4> QED
        BY <3>5, <4>1, <4>2
    <3> HIDE DEF Is, Rs, columns
    <3> QED
      BY <2>2, <3>5, <3>6
  <2> QED
    BY <2>1, <2>2
<1> HIDE DEF Wins
<1>4. Wins(Texts!Mapped(header, field))
  <2> HIDE DEF columns
  <2> QED
    BY <1>1, <1>3
<1>5. Texts!Mapped(header, field) \in columns
  <2> HIDE DEF columns
  <2> QED
    BY <1>4 DEF Wins
<1> QED
  BY <1>5

\* The amount of a row is what its amount's cell says or, if that says nothing, what
\* the line of all its cells says.
LEMMA RowAmountIs ==
    ASSUME NEW header, NEW row
    PROVE  LET m == Texts!Mapped(header, "amount")
               declared == Texts!AmountIn(<<IF m = 0 THEN <<>> ELSE row[m]>>, TRUE)
           IN  Texts!RowFacts(header, row).facts.amount =
                 IF declared = Texts!NoAmount THEN Texts!AmountIn(<<Texts!RowLine(header, row)>>, FALSE) ELSE declared
<1> DEFINE cell(field) == IF Texts!Mapped(header, field) = 0 THEN <<>> ELSE row[Texts!Mapped(header, field)]
           or(declared, nothing, found) == IF declared = nothing THEN found ELSE declared
           swept == Texts!IdentifierFacts(<<Texts!RowLine(header, row)>>)
           facts == [swept EXCEPT !.amount = or(Texts!CellFact("amount", cell("amount")), Texts!NoAmount, swept.amount),
                                  !.ids["account"] = or(Texts!CellFact("account", cell("account")), {}, swept.ids["account"]),
                                  !.reference = or(Texts!CellFact("reference", cell("reference")), "none", swept.reference)]
<1>1. Texts!RowFacts(header, row).facts = facts
  BY DEF Texts!RowFacts
<1>2. Texts!CellFact("amount", cell("amount")) = Texts!AmountIn(<<cell("amount")>>, TRUE)
  BY DEF Texts!CellFact
<1>3. /\ swept.amount = Texts!AmountIn(<<Texts!RowLine(header, row)>>, FALSE)
      /\ DOMAIN swept = {"ids", "reference", "device", "roles", "amount"}
  BY DEF Texts!IdentifierFacts
<1> HIDE DEF swept, cell
<1>4. facts.amount = or(Texts!CellFact("amount", cell("amount")), Texts!NoAmount, swept.amount)
  BY <1>3
<1> HIDE DEF facts
<1>5. cell("amount") = IF Texts!Mapped(header, "amount") = 0 THEN <<>> ELSE row[Texts!Mapped(header, "amount")]
  BY DEF cell
<1> QED
  BY <1>1, <1>2, <1>3, <1>4, <1>5

\* What a row counts as money that moved is a figure of another column than its
\* balance's, whatever the order of the columns and whichever cells are empty.
THEOREM BalancesNeverMove ==
    ASSUME NEW header, NEW row, IsTable(header, row)
    PROVE  Texts!BalanceNeverMoves(header, row)
<1> DEFINE amount == Texts!RowFacts(header, row).facts.amount
           balances == {i \in DOMAIN row : Texts!RoleOf(header[i].words) = "balance"}
           Elsewhere == \E i \in DOMAIN row \ balances : \E t \in Texts!ToSet(row[i]) : t.kind = "figure" /\ t.size = amount.size
<1> SUFFICES ASSUME amount.role \notin {"balance", "none"} PROVE Elsewhere
  BY Zenon DEF Texts!BalanceNeverMoves
<1>1. /\ IsList(header) /\ IsText(row) /\ Len(header) = Len(row)
      /\ \A i \in DOMAIN header :
            /\ header[i].rank \in Nat /\ IsList(header[i].words)
            /\ \A j \in DOMAIN header[i].words : header[i].words[j].kind = "word"
            /\ header[i].field = "amount" => Texts!RoleOf(header[i].words) # "balance"
  BY DEF IsTable
<1>2. PICK n \in Nat : n = Len(row) /\ DOMAIN row = 1..n /\ DOMAIN header = 1..n
  BY <1>1 DEF IsText, IsList
<1>3. \A i \in 1..n : IsList(row[i])
  BY <1>1, <1>2 DEF IsText
<1>4. PICK m, cell, declared : /\ m = Texts!Mapped(header, "amount") /\ cell = (IF m = 0 THEN <<>> ELSE row[m])
                               /\ declared = Texts!AmountIn(<<cell>>, TRUE)
  OBVIOUS
<1>5. amount = IF declared = Texts!NoAmount THEN Texts!AmountIn(<<Texts!RowLine(header, row)>>, FALSE) ELSE declared
  BY <1>4, RowAmountIs
<1> HIDE DEF amount
<1>6. CASE declared # Texts!NoAmount
  <2>1. IsList(cell) /\ (m # 0 => m \in 1..n /\ header[m].field = "amount")
    <3>1. m # 0 => m \in 1..n /\ header[m].field = "amount"
      BY <1>1, <1>2, <1>4, ColumnIsMapped
    <3>2. IsList(<<>>)
      BY DEF IsList
    <3> QED
      BY <1>3, <1>4, <3>1, <3>2
  <2>2. PICK k \in DOMAIN cell : cell[k].kind = "figure" /\ declared = [size |-> cell[k].size, role |-> Texts!RoleOf(cell)]
    BY <1>4, <1>6, <2>1, AmountOfLine
  <2>3. m # 0 /\ cell = row[m]
    <3>1. DOMAIN <<>> = {}
      OBVIOUS
    <3> QED
      BY <1>4, <2>2, <3>1
  <2>4. m \in DOMAIN row \ balances
    BY <1>1, <1>2, <2>1, <2>3
  <2>5. row[m][k] \in Texts!ToSet(row[m])
    BY <2>2, <2>3 DEF Texts!ToSet
  <2>6. amount.size = row[m][k].size /\ row[m][k].kind = "figure"
    BY <1>5, <1>6, <2>2, <2>3
  <2> QED
    BY <2>4, <2>5, <2>6
<1>7. CASE declared = Texts!NoAmount
  <2> DEFINE pieces == [i \in DOMAIN row |-> IF row[i] = <<>> THEN <<>> ELSE header[i].words \o row[i]]
  <2>1. PICK line : line = Texts!RowLine(header, row) /\ line = Flattened(pieces)
    BY SameFlat DEF Texts!RowLine
  <2> DEFINE S == UNION {Texts!ToSet(row[i]) \cup Texts!ToSet(header[i].words) : i \in 1..n}
  <2>2. ASSUME NEW i \in 1..n
        PROVE  /\ row[i] \in Seq(S) /\ header[i].words \in Seq(S)
               /\ pieces[i] \in Seq(S) /\ pieces[i] = IF row[i] = <<>> THEN <<>> ELSE header[i].words \o row[i]
    <3>1. IsList(row[i]) /\ IsList(header[i].words)
      BY <1>1, <1>2, <1>3
    <3>2. {row[i][k] : k \in DOMAIN row[i]} \subseteq S /\ {header[i].words[k] : k \in DOMAIN header[i].words} \subseteq S
      <4>1. {row[i][k] : k \in DOMAIN row[i]} = Texts!ToSet(row[i]) /\ {header[i].words[k] : k \in DOMAIN header[i].words} = Texts!ToSet(header[i].words)
        BY Zenon DEF Texts!ToSet
      <4> QED
        BY <4>1
    <3>3. \A P, Q, s : P \subseteq Q /\ s \in Seq(P) => s \in Seq(Q)
      OBVIOUS
    <3>4. row[i] \in Seq(S) /\ header[i].words \in Seq(S)
      <4> HIDE DEF S
      <4> QED
        BY <3>1, <3>2, <3>3, Zenon DEF IsList
    <3>5. pieces[i] = IF row[i] = <<>> THEN <<>> ELSE header[i].words \o row[i]
      BY <1>2
    <3> HIDE DEF S, pieces
    <3> QED
      BY <3>4, <3>5
  <2>3. PICK ss \in Seq(Seq(S)) : ss = pieces /\ Len(ss) = n
    <3>1. pieces = [i \in 1..n |-> pieces[i]]
      BY <1>2
    <3> HIDE DEF S, pieces
    <3>2. PICK Q : Q = Seq(S)
      OBVIOUS
    <3>3. \A i \in 1..n : pieces[i] \in Q
      BY <2>2, <3>2, Zenon
    <3>4. pieces \in [1..n -> Q]
      BY <3>1, <3>3, Zenon
    <3>5. \A f \in [1..n -> Q] : f \in Seq(Q) /\ Len(f) = n
      OBVIOUS
    <3> QED
      BY <3>2, <3>4, <3>5, Zenon
  <2> HIDE DEF S, pieces
  <2>4. line \in Seq(S) /\ \E off : Parted(ss, line, off)
    BY <2>1, <2>3, FlatParts
  <2>5. PICK off : Parted(ss, line, off)
    BY <2>4
  <2>6. IsList(line) /\ DOMAIN line = 1..Len(line) /\ Len(line) \in Nat
    BY <2>4 DEF IsList
  <2>7. amount = Texts!AmountIn(<<line>>, FALSE) /\ amount # Texts!NoAmount
    <3>1. Texts!NoAmount.role = "none"
      BY DEF Texts!NoAmount
    <3>2. amount = Texts!AmountIn(<<line>>, FALSE)
      BY <1>5, <1>7, <2>1, Zenon
    <3>3. amount # Texts!NoAmount
      BY <3>1
    <3> QED
      BY <3>2, <3>3
  <2>8. PICK p \in DOMAIN line : line[p].kind = "figure" /\ amount = [size |-> line[p].size, role |-> Texts!RoleOf(line)]
    BY <2>6, <2>7, AmountOfLine
  <2>9. PICK i \in 1..n : off[i - 1] < p /\ p <= off[i]
    BY <2>3, <2>5, <2>6 DEF Parted
  <2>10. /\ off[i - 1] \in Nat /\ off[i] = off[i - 1] + Len(ss[i]) /\ Len(ss[i]) \in Nat
         /\ \A k \in 1..Len(ss[i]) : off[i - 1] + k \in 1..Len(line) /\ line[off[i - 1] + k] = ss[i][k]
    <3>1. i - 1 \in 0..n
      OBVIOUS
    <3>2. Len(ss[i]) \in Nat
      <4>1. \A x \in Seq(S) : Len(x) \in Nat
        OBVIOUS
      <4> QED
        BY <2>2, <2>3, <4>1
    <3> QED
      BY <2>3, <2>5, <3>1, <3>2 DEF Parted
  <2>11. PICK k \in 1..Len(ss[i]) : line[p] = ss[i][k]
    <3>1. PICK a \in Nat, b, c \in Nat : a = off[i - 1] /\ b = off[i] /\ c = Len(ss[i])
      BY <2>10
    <3>2. p \in Nat /\ a < p /\ p <= b /\ b = a + c /\ \A h \in 1..c : line[a + h] = ss[i][h]
      <4>1. p \in Nat
        BY <2>6
      <4>2. a < p /\ p <= b /\ b = a + c /\ \A h \in 1..c : line[a + h] = ss[i][h]
        BY <2>9, <2>10, <3>1, Zenon
      <4> QED
        BY <4>1, <4>2
    <3>3. p - a \in 1..c /\ a + (p - a) = p
      BY <3>2
    <3> QED
      BY <3>1, <3>2, <3>3
  <2>12. PICK words \in Seq(S), cells \in Seq(S) : words = header[i].words /\ cells = row[i]
    BY <2>2
  <2>13. cells # <<>> /\ ss[i] = words \o cells
    <3>1. ss[i] = IF cells = <<>> THEN <<>> ELSE words \o cells
      BY <2>2, <2>3, <2>12, Zenon
    <3>2. cells # <<>>
      <4> SUFFICES ASSUME cells = <<>> PROVE FALSE
        OBVIOUS
      <4>1. Len(ss[i]) = 0
        BY <3>1
      <4> QED
        BY <2>11, <4>1
    <3> QED
      BY <3>1, <3>2, Zenon
  <2>14. /\ Len(words) \in Nat /\ Len(cells) \in Nat /\ Len(ss[i]) = Len(words) + Len(cells)
         /\ DOMAIN words = 1..Len(words) /\ DOMAIN cells = 1..Len(cells)
         /\ (\A h \in 1..Len(words) : ss[i][h] = words[h]) /\ \A h \in 1..Len(cells) : ss[i][Len(words) + h] = cells[h]
    <3>1. /\ Len(words) \in Nat /\ Len(cells) \in Nat /\ Len(words \o cells) = Len(words) + Len(cells)
          /\ DOMAIN words = 1..Len(words) /\ DOMAIN cells = 1..Len(cells)
          /\ (\A h \in 1..Len(words) : (words \o cells)[h] = words[h]) /\ \A h \in 1..Len(cells) : (words \o cells)[Len(words) + h] = cells[h]
      OBVIOUS
    <3> QED
      BY <2>13, <3>1, Zenon
  <2>15. k \notin 1..Len(words)
    <3>1. \A h \in 1..Len(words) : words[h].kind = "word"
      BY <1>1, <1>2, <2>12, <2>14
    <3> QED
      BY <2>8, <2>11, <2>14, <3>1
  <2>16. PICK h \in 1..Len(cells) : line[p] = cells[h]
    <3>1. k - Len(words) \in 1..Len(cells) /\ Len(words) + (k - Len(words)) = k
      BY <2>14, <2>15
    <3> QED
      BY <2>11, <2>14, <3>1
  <2>17. line[p] \in Texts!ToSet(row[i])
    BY <2>12, <2>14, <2>16 DEF Texts!ToSet
  <2>18. Texts!RoleOf(words) # "balance"
    <3> SUFFICES ASSUME Texts!RoleOf(words) = "balance" PROVE FALSE
      OBVIOUS
    <3>1. PICK t \in Texts!ToSet(words) : t.kind = "word" /\ t.role = "balance"
      BY BalanceIsSaid
    <3>2. PICK j \in 1..Len(words) : t = words[j]
      BY <2>14 DEF Texts!ToSet
    <3>3. j \in 1..Len(ss[i])
      BY <2>14
    <3>4. off[i - 1] + j \in 1..Len(line) /\ line[off[i - 1] + j] = t
      BY <2>10, <2>14, <3>2, <3>3
    <3>5. t \in Texts!ToSet(line)
      BY <2>6, <3>4 DEF Texts!ToSet
    <3>6. Texts!RoleOf(line) = "balance"
      BY <3>1, <3>5, BalanceIsSaid
    <3> QED
      BY <2>8, <3>6
  <2>19. i \in DOMAIN row \ balances
    BY <1>2, <2>12, <2>18
  <2> QED
    BY <2>8, <2>17, <2>19
<1> QED
  BY <1>6, <1>7

-------------------------------------------------------------------------------
\* Pages

\* The first of some places of a page is the first of them in the first block that
\* has one.
LEMMA FirstInBlock ==
    ASSUME NEW P, P \subseteq Nat \X Nat, NEW i \in Nat, NEW Q, Q \subseteq Nat \X Nat, Q # {},
           \A q \in Q : q[1] = 1 /\ <<i, q[2]>> \in P,
           \A p \in P : i <= p[1] /\ (p[1] = i => <<1, p[2]>> \in Q)
    PROVE  \E k : Texts!First(Q) = <<1, k>> /\ Texts!First(P) = <<i, k>> /\ <<1, k>> \in Q /\ <<i, k>> \in P
<1>1. PICK q : q = Texts!First(Q) /\ q \in Q /\ \A x \in Q : ~Texts!Before(x, q)
  BY FirstIsFirst
<1>2. PICK k \in Nat : q = <<1, k>>
  <2>1. q \in Nat \X Nat /\ q[1] = 1
    BY <1>1
  <2>2. q = <<q[1], q[2]>> /\ q[2] \in Nat
    BY <2>1
  <2> QED
    BY <2>1, <2>2
<1>3. PICK f : f = <<i, k>> /\ f \in P /\ f[1] = i /\ f[2] = k
  <2>1. q[2] = k
    BY <1>2
  <2>2. <<i, k>> \in P
    BY <1>1, <2>1
  <2>3. <<i, k>>[1] = i /\ <<i, k>>[2] = k
    OBVIOUS
  <2> QED
    BY <2>2, <2>3
<1>4. ASSUME NEW p \in P PROVE ~Texts!Before(p, f)
  <2> SUFFICES ASSUME Texts!Before(p, f) PROVE FALSE
    OBVIOUS
  <2>1. p[1] \in Nat /\ p[2] \in Nat /\ i <= p[1]
    OBVIOUS
  <2>2. p[1] = i /\ p[2] < k
    BY <1>2, <1>3, <2>1 DEF Texts!Before
  <2>3. PICK x : x = <<1, p[2]>> /\ x \in Q /\ x[1] = 1 /\ x[2] = p[2]
    <3>1. <<1, p[2]>> \in Q
      BY <2>2
    <3>2. <<1, p[2]>>[1] = 1 /\ <<1, p[2]>>[2] = p[2]
      OBVIOUS
    <3> QED
      BY <3>1, <3>2
  <2>4. Texts!Before(x, q)
    BY <1>2, <2>2, <2>3 DEF Texts!Before
  <2> QED
    BY <1>1, <2>3, <2>4
<1>5. Texts!First(P) = f
  BY <1>3, <1>4, FirstIsOne
<1> QED
  BY <1>1, <1>2, <1>3, <1>5

\* Some places of a page, block by block, and the blocks that have one.
BlockByBlock(page, P, Q, found) ==
    /\ \A i \in DOMAIN page : \A x : x \in Q[i] <=> \E k \in DOMAIN page[i] : x = <<1, k>> /\ <<i, k>> \in P
    /\ found = {i \in DOMAIN page : Q[i] # {}}
FirstIsThere(page, P, Q, found) ==
    /\ found = {} <=> P = {}
    /\ found # {} => /\ Texts!Min(found) \in found
                     /\ \E k \in DOMAIN page[Texts!Min(found)] :
                           /\ Texts!First(Q[Texts!Min(found)]) = <<1, k>>
                           /\ Texts!First(P) = <<Texts!Min(found), k>> /\ <<Texts!Min(found), k>> \in P
LEMMA FirstOfBlocks ==
    ASSUME NEW page, IsText(page), NEW P, P \subseteq Texts!Places(page),
           NEW Q, NEW found, BlockByBlock(page, P, Q, found)
    PROVE  FirstIsThere(page, P, Q, found)
<1>0. /\ \A i \in DOMAIN page : \A x : x \in Q[i] <=> \E k \in DOMAIN page[i] : x = <<1, k>> /\ <<i, k>> \in P
      /\ found = {i \in DOMAIN page : Q[i] # {}}
  BY DEF BlockByBlock
<1>1. /\ Texts!Places(page) \subseteq Nat \X Nat /\ DOMAIN page \subseteq Nat
      /\ \A p : p \in Texts!Places(page) <=> \E i \in DOMAIN page : \E k \in DOMAIN page[i] : p = <<i, k>>
      /\ \A i \in DOMAIN page : DOMAIN page[i] \subseteq Nat
  BY PlacesAre
<1>2. ASSUME NEW p \in P PROVE p[1] \in found /\ <<1, p[2]>> \in Q[p[1]]
  <2>1. PICK i \in DOMAIN page : \E k \in DOMAIN page[i] : p = <<i, k>>
    BY <1>1
  <2> PICK k \in DOMAIN page[i] : p = <<i, k>>
    BY <2>1
  <2>2. p[1] = i /\ p[2] = k
    OBVIOUS
  <2>3. <<1, k>> \in Q[i]
    BY <1>0
  <2> QED
    BY <1>0, <2>2, <2>3
<1>3. ASSUME NEW i \in found PROVE i \in DOMAIN page /\ \E k : <<i, k>> \in P
  <2>1. i \in DOMAIN page /\ \E x : x \in Q[i]
    BY <1>0
  <2> QED
    BY <1>0, <2>1
<1>4. ASSUME found # {}
      PROVE  /\ Texts!Min(found) \in found
             /\ \E k \in DOMAIN page[Texts!Min(found)] :
                   /\ Texts!First(Q[Texts!Min(found)]) = <<1, k>>
                   /\ Texts!First(P) = <<Texts!Min(found), k>> /\ <<Texts!Min(found), k>> \in P
  <2>1. PICK i : i = Texts!Min(found) /\ i \in found /\ \A j \in found : i <= j
    <3>1. found \subseteq Nat
      BY <1>0, <1>1
    <3> QED
      BY <1>4, <3>1, MinIsLeast
  <2>2. i \in DOMAIN page /\ i \in Nat /\ Q[i] # {}
    BY <1>0, <1>1, <2>1
  <2>3. PICK R : R = Q[i]
    OBVIOUS
  <2>4. /\ R \subseteq Nat \X Nat /\ R # {} /\ P \subseteq Nat \X Nat
        /\ \A q \in R : q[1] = 1 /\ <<i, q[2]>> \in P
    <3>1. DOMAIN page[i] \subseteq Nat /\ P \subseteq Nat \X Nat /\ R # {}
      BY <1>0, <1>1, <2>2, <2>3
    <3>2. ASSUME NEW q \in R PROVE q \in Nat \X Nat /\ q[1] = 1 /\ <<i, q[2]>> \in P
      <4>1. PICK k \in DOMAIN page[i] : q = <<1, k>> /\ <<i, k>> \in P
        BY <1>0, <2>2, <2>3
      <4>2. q[1] = 1 /\ q[2] = k /\ k \in Nat
        BY <3>1, <4>1
      <4> QED
        BY <4>1, <4>2
    <3> QED
      BY <3>1, <3>2
  <2>5. \A p \in P : i <= p[1] /\ (p[1] = i => <<1, p[2]>> \in R)
    BY <1>2, <2>1, <2>3
  <2>6. PICK k : Texts!First(R) = <<1, k>> /\ Texts!First(P) = <<i, k>> /\ <<1, k>> \in R /\ <<i, k>> \in P
    BY <2>2, <2>4, <2>5, FirstInBlock
  <2>7. k \in DOMAIN page[i]
    <3>1. PICK h \in DOMAIN page[i] : <<1, k>> = <<1, h>>
      BY <1>0, <2>2, <2>3, <2>6
    <3> QED
      BY <3>1
  <2> QED
    BY <2>1, <2>3, <2>6, <2>7
<1>5. found = {} <=> P = {}
  BY <1>2, <1>3
<1> QED
  BY <1>4, <1>5 DEF FirstIsThere

\* The places of a block are those of the page in it.
LEMMA BlockIs ==
    ASSUME NEW page, IsText(page), NEW i \in DOMAIN page
    PROVE  /\ IsList(page[i]) /\ IsText(<<page[i]>>) /\ <<page[i]>>[1] = page[i]
           /\ \A p : p \in Texts!Places(<<page[i]>>) <=> \E k \in DOMAIN page[i] : p = <<1, k>>
           /\ \A k : Texts!At(<<page[i]>>, <<1, k>>) = page[i][k] /\ Texts!At(page, <<i, k>>) = page[i][k]
           /\ \A k \in DOMAIN page[i] : <<i, k>> \in Texts!Places(page) /\ page[i][k] \in Texts!Tokens(page)
<1>1. IsList(page[i])
  BY DEF IsText
<1>2. /\ IsText(<<page[i]>>) /\ <<page[i]>>[1] = page[i]
      /\ \A p : p \in Texts!Places(<<page[i]>>) <=> \E k \in DOMAIN page[i] : p = <<1, k>>
      /\ \A k : Texts!At(<<page[i]>>, <<1, k>>) = page[i][k]
  BY <1>1, LineIsText
<1>3. \A k : Texts!At(page, <<i, k>>) = page[i][k]
  BY DEF Texts!At
<1>4. \A k \in DOMAIN page[i] : <<i, k>> \in Texts!Places(page) /\ page[i][k] \in Texts!Tokens(page)
  BY PlacesAre
<1> QED
  BY <1>1, <1>2, <1>3, <1>4

LEMMA PlaceIs ==
    ASSUME NEW page, IsText(page), NEW i \in DOMAIN page, NEW k \in DOMAIN page[i]
    PROVE  <<i, k>> \in Texts!Places(page) /\ Texts!At(page, <<i, k>>) = page[i][k] /\ <<i, k>>[1] = i
<1>1. <<i, k>> \in Texts!Places(page)
  BY BlockIs
<1>2. Texts!At(page, <<i, k>>) = page[i][k] /\ <<i, k>>[1] = i
  BY DEF Texts!At
<1> QED
  BY <1>1, <1>2

\* The amount of the first block that has one is the page's.
LEMMA PageAmount ==
    ASSUME NEW page, IsText(page)
    PROVE  Texts!FirstBlock([i \in DOMAIN page |-> Texts!AmountIn(<<page[i]>>, FALSE)], Texts!NoAmount)
             = Texts!AmountIn(page, FALSE)
<1>1. PICK P, Q, readings, found :
        /\ P = AmountsIn(page, FALSE) /\ Q = [i \in DOMAIN page |-> AmountsIn(<<page[i]>>, FALSE)]
        /\ readings = [i \in DOMAIN page |-> Texts!AmountIn(<<page[i]>>, FALSE)]
        /\ found = {i \in DOMAIN page : Q[i] # {}}
  OBVIOUS
<1>2. /\ P \subseteq Texts!Places(page)
      /\ \A i \in DOMAIN page : \A k \in DOMAIN page[i] : <<i, k>> \in P <=> Texts!IsAmount(page[i][k], page[i], FALSE)
  <2>1. P \subseteq Texts!Places(page)
    BY <1>1 DEF AmountsIn
  <2>2. ASSUME NEW i \in DOMAIN page, NEW k \in DOMAIN page[i]
        PROVE  <<i, k>> \in P <=> Texts!IsAmount(page[i][k], page[i], FALSE)
    <3>1. PICK p : p = <<i, k>>
      OBVIOUS
    <3>2. p \in Texts!Places(page) /\ Texts!At(page, p) = page[i][k] /\ p[1] = i
      <4>1. <<i, k>> \in Texts!Places(page) /\ Texts!At(page, <<i, k>>) = page[i][k] /\ <<i, k>>[1] = i
        BY PlaceIs
      <4> QED
        BY <3>1, <4>1
    <3> QED
      BY <1>1, <3>1, <3>2 DEF AmountsIn
  <2> QED
    BY <2>1, <2>2
<1>3. ASSUME NEW i \in DOMAIN page, NEW x
      PROVE  x \in Q[i] <=> \E k \in DOMAIN page[i] : x = <<1, k>> /\ <<i, k>> \in P
  <2>1. PICK text : text = <<page[i]>>
    OBVIOUS
  <2>2. /\ text[1] = page[i] /\ \A k : Texts!At(text, <<1, k>>) = page[i][k]
        /\ \A p : p \in Texts!Places(text) <=> \E k \in DOMAIN page[i] : p = <<1, k>>
    BY <2>1, BlockIs
  <2>3. Q[i] = AmountsIn(text, FALSE)
    BY <1>1, <2>1
  <2>4. x \in Q[i] <=> x \in Texts!Places(text) /\ Texts!IsAmount(Texts!At(text, x), text[x[1]], FALSE)
    BY <2>3 DEF AmountsIn
  <2>5. ASSUME NEW k \in DOMAIN page[i], x = <<1, k>>
        PROVE  Texts!At(text, x) = page[i][k] /\ text[x[1]] = page[i] /\ (<<i, k>> \in P <=> Texts!IsAmount(page[i][k], page[i], FALSE))
    BY <1>2, <2>2, <2>5
  <2> QED
    BY <2>2, <2>4, <2>5
<1>4. /\ found = {} <=> P = {}
      /\ found # {} => /\ Texts!Min(found) \in found
                       /\ \E k \in DOMAIN page[Texts!Min(found)] :
                             /\ Texts!First(Q[Texts!Min(found)]) = <<1, k>>
                             /\ Texts!First(P) = <<Texts!Min(found), k>> /\ <<Texts!Min(found), k>> \in P
  <2>1. \A i \in DOMAIN page : \A x : x \in Q[i] <=> \E k \in DOMAIN page[i] : x = <<1, k>> /\ <<i, k>> \in P
    BY <1>3
  <2>2. P \subseteq Texts!Places(page) /\ found = {i \in DOMAIN page : Q[i] # {}}
    BY <1>1, <1>2
  <2>3. BlockByBlock(page, P, Q, found)
    BY <2>1, <2>2, Zenon DEF BlockByBlock
  <2>4. FirstIsThere(page, P, Q, found)
    BY <2>2, <2>3, FirstOfBlocks
  <2> QED
    BY <2>4, Zenon DEF FirstIsThere
<1>5. ASSUME NEW i \in DOMAIN page
      PROVE  readings[i] = IF Q[i] = {} THEN Texts!NoAmount
                           ELSE [size |-> Texts!At(<<page[i]>>, Texts!First(Q[i])).size,
                                 role |-> Texts!RoleOf(<<page[i]>>[Texts!First(Q[i])[1]])]
  <2>1. readings[i] = Texts!AmountIn(<<page[i]>>, FALSE) /\ Q[i] = AmountsIn(<<page[i]>>, FALSE)
    BY <1>1
  <2> QED
    BY <2>1, AmountIs, Zenon
<1>6. ASSUME NEW i \in DOMAIN page, NEW k \in DOMAIN page[i], Texts!First(Q[i]) = <<1, k>>, Q[i] # {}
      PROVE  readings[i] = [size |-> page[i][k].size, role |-> Texts!RoleOf(page[i])]
  <2>1. Texts!At(<<page[i]>>, Texts!First(Q[i])) = page[i][k] /\ <<page[i]>>[Texts!First(Q[i])[1]] = page[i]
    BY <1>6, BlockIs
  <2> QED
    BY <1>5, <1>6, <2>1, Zenon
<1>7. ASSUME NEW i \in found PROVE readings[i] # Texts!NoAmount
  <2>1. i \in DOMAIN page /\ Q[i] # {}
    BY <1>1
  <2>2. Q[i] \subseteq Nat \X Nat
    <3>1. DOMAIN page[i] \subseteq Nat
      BY <2>1, PlacesAre
    <3>2. ASSUME NEW q \in Q[i] PROVE q \in Nat \X Nat
      <4>1. PICK k \in DOMAIN page[i] : q = <<1, k>>
        BY <1>3, <2>1, ZenonT(40)
      <4> QED
        BY <3>1, <4>1
    <3> QED
      BY <3>2
  <2>3. Texts!First(Q[i]) \in Q[i]
    BY <2>1, <2>2, FirstIsFirst
  <2>4. PICK k \in DOMAIN page[i] : Texts!First(Q[i]) = <<1, k>> /\ <<i, k>> \in P
    BY <1>3, <2>1, <2>3
  <2>5. page[i][k].size >= 1
    <3>1. Texts!IsAmount(page[i][k], page[i], FALSE)
      BY <1>2, <2>1, <2>4
    <3> QED
      BY <3>1 DEF Texts!IsAmount
  <2>6. readings[i].size = page[i][k].size
    <3>1. readings[i] = [size |-> page[i][k].size, role |-> Texts!RoleOf(page[i])]
      BY <1>6, <2>1, <2>4
    <3> QED
      BY <3>1
  <2>7. Texts!NoAmount.size = 0
    BY DEF Texts!NoAmount
  <2> QED
    BY <2>5, <2>6, <2>7
<1>8. {i \in DOMAIN readings : readings[i] # Texts!NoAmount} = found
  <2>1. DOMAIN readings = DOMAIN page
    BY <1>1
  <2>2. \A i \in DOMAIN page : i \notin found => readings[i] = Texts!NoAmount
    BY <1>1, <1>5
  <2>3. found \subseteq DOMAIN page
    BY <1>1
  <2> QED
    BY <1>7, <2>1, <2>2, <2>3
<1>9. Texts!FirstBlock(readings, Texts!NoAmount) = IF found = {} THEN Texts!NoAmount ELSE readings[Texts!Min(found)]
  BY <1>8, Zenon DEF Texts!FirstBlock
<1>10. CASE found = {}
  <2>1. Texts!AmountIn(page, FALSE) = Texts!NoAmount
    BY <1>1, <1>4, <1>10, AmountIs
  <2> QED
    BY <1>1, <1>9, <1>10, <2>1
<1>11. CASE found # {}
  <2> PICK i \in found : i = Texts!Min(found)
    BY <1>4, <1>11
  <2>1. PICK k \in DOMAIN page[i] : /\ i = Texts!Min(found) /\ Texts!First(Q[i]) = <<1, k>>
                                   /\ Texts!First(P) = <<i, k>> /\ <<i, k>> \in P
    BY <1>4, <1>11
  <2>2. i \in DOMAIN page /\ Q[i] # {}
    BY <1>1
  <2>3. readings[i] = [size |-> page[i][k].size, role |-> Texts!RoleOf(page[i])]
    BY <1>6, <2>1, <2>2
  <2>4. Texts!At(page, Texts!First(P)) = page[i][k] /\ page[Texts!First(P)[1]] = page[i]
    <3>1. Texts!At(page, <<i, k>>) = page[i][k]
      BY DEF Texts!At
    <3>2. <<i, k>>[1] = i
      OBVIOUS
    <3> QED
      BY <2>1, <3>1, <3>2, Zenon
  <2>5. Texts!AmountIn(page, FALSE) = [size |-> Texts!At(page, Texts!First(P)).size, role |-> Texts!RoleOf(page[Texts!First(P)[1]])]
    BY <1>1, <1>4, <1>11, AmountIs
  <2> QED
    BY <1>1, <1>9, <1>11, <2>1, <2>3, <2>4, <2>5
<1> QED
  BY <1>10, <1>11

\* The reference of the first block that has one is the page's.
LEMMA PageReference ==
    ASSUME NEW page, IsText(page), \A t \in Texts!Tokens(page) : t.kind = "reference" => t.value # "none"
    PROVE  Texts!FirstBlock([i \in DOMAIN page |-> Texts!FirstOf(<<page[i]>>, "reference")], "none")
             = Texts!FirstOf(page, "reference")
<1>1. PICK P, Q, readings, found :
        /\ P = Texts!OfKind(page, "reference") /\ Q = [i \in DOMAIN page |-> Texts!OfKind(<<page[i]>>, "reference")]
        /\ readings = [i \in DOMAIN page |-> Texts!FirstOf(<<page[i]>>, "reference")]
        /\ found = {i \in DOMAIN page : Q[i] # {}}
  OBVIOUS
<1>2. /\ P \subseteq Texts!Places(page)
      /\ \A i \in DOMAIN page : \A k \in DOMAIN page[i] : <<i, k>> \in P <=> page[i][k].kind = "reference"
  <2>1. P \subseteq Texts!Places(page)
    BY <1>1 DEF Texts!OfKind
  <2>2. ASSUME NEW i \in DOMAIN page, NEW k \in DOMAIN page[i]
        PROVE  <<i, k>> \in P <=> page[i][k].kind = "reference"
    <3>1. PICK p : p = <<i, k>>
      OBVIOUS
    <3>2. p \in Texts!Places(page) /\ Texts!At(page, p) = page[i][k]
      <4>1. <<i, k>> \in Texts!Places(page) /\ Texts!At(page, <<i, k>>) = page[i][k] /\ <<i, k>>[1] = i
        BY PlaceIs
      <4> QED
        BY <3>1, <4>1
    <3> QED
      BY <1>1, <3>1, <3>2 DEF Texts!OfKind
  <2> QED
    BY <2>1, <2>2
<1>3. ASSUME NEW i \in DOMAIN page, NEW x
      PROVE  x \in Q[i] <=> \E k \in DOMAIN page[i] : x = <<1, k>> /\ <<i, k>> \in P
  <2>1. PICK text : text = <<page[i]>>
    OBVIOUS
  <2>2. /\ \A k : Texts!At(text, <<1, k>>) = page[i][k]
        /\ \A p : p \in Texts!Places(text) <=> \E k \in DOMAIN page[i] : p = <<1, k>>
    BY <2>1, BlockIs
  <2>3. Q[i] = Texts!OfKind(text, "reference")
    BY <1>1, <2>1
  <2>4. x \in Q[i] <=> x \in Texts!Places(text) /\ Texts!At(text, x).kind = "reference"
    BY <2>3 DEF Texts!OfKind
  <2>5. ASSUME NEW k \in DOMAIN page[i], x = <<1, k>>
        PROVE  Texts!At(text, x) = page[i][k] /\ (<<i, k>> \in P <=> page[i][k].kind = "reference")
    BY <1>2, <2>2, <2>5
  <2> QED
    BY <2>2, <2>4, <2>5
<1>4. /\ found = {} <=> P = {}
      /\ found # {} => /\ Texts!Min(found) \in found
                       /\ \E k \in DOMAIN page[Texts!Min(found)] :
                             /\ Texts!First(Q[Texts!Min(found)]) = <<1, k>>
                             /\ Texts!First(P) = <<Texts!Min(found), k>> /\ <<Texts!Min(found), k>> \in P
  <2>1. \A i \in DOMAIN page : \A x : x \in Q[i] <=> \E k \in DOMAIN page[i] : x = <<1, k>> /\ <<i, k>> \in P
    BY <1>3
  <2>2. P \subseteq Texts!Places(page) /\ found = {i \in DOMAIN page : Q[i] # {}}
    BY <1>1, <1>2
  <2>3. BlockByBlock(page, P, Q, found)
    BY <2>1, <2>2, Zenon DEF BlockByBlock
  <2>4. FirstIsThere(page, P, Q, found)
    BY <2>2, <2>3, FirstOfBlocks
  <2> QED
    BY <2>4, Zenon DEF FirstIsThere
<1>5. ASSUME NEW i \in DOMAIN page
      PROVE  readings[i] = IF Q[i] = {} THEN "none" ELSE Texts!At(<<page[i]>>, Texts!First(Q[i])).value
  <2>1. readings[i] = Texts!FirstOf(<<page[i]>>, "reference") /\ Q[i] = Texts!OfKind(<<page[i]>>, "reference")
    BY <1>1
  <2> QED
    BY <2>1, Zenon DEF Texts!FirstOf
<1>6. ASSUME NEW i \in DOMAIN page, NEW k \in DOMAIN page[i], Texts!First(Q[i]) = <<1, k>>, Q[i] # {}
      PROVE  readings[i] = page[i][k].value
  <2>1. Texts!At(<<page[i]>>, Texts!First(Q[i])) = page[i][k]
    BY <1>6, BlockIs
  <2> QED
    BY <1>5, <1>6, <2>1, Zenon
<1>7. ASSUME NEW i \in found PROVE readings[i] # "none"
  <2>1. i \in DOMAIN page /\ Q[i] # {}
    BY <1>1
  <2>2. Q[i] \subseteq Nat \X Nat
    <3>1. DOMAIN page[i] \subseteq Nat
      BY <2>1, PlacesAre
    <3>2. ASSUME NEW q \in Q[i] PROVE q \in Nat \X Nat
      <4>1. PICK k \in DOMAIN page[i] : q = <<1, k>>
        BY <1>3, <2>1, ZenonT(40)
      <4> QED
        BY <3>1, <4>1
    <3> QED
      BY <3>2
  <2>3. Texts!First(Q[i]) \in Q[i]
    BY <2>1, <2>2, FirstIsFirst
  <2>4. PICK k \in DOMAIN page[i] : Texts!First(Q[i]) = <<1, k>> /\ <<i, k>> \in P
    BY <1>3, <2>1, <2>3
  <2>5. page[i][k].kind = "reference" /\ page[i][k] \in Texts!Tokens(page)
    BY <1>2, <2>1, <2>4, BlockIs
  <2> QED
    BY <1>6, <2>1, <2>4, <2>5
<1>8. {i \in DOMAIN readings : readings[i] # "none"} = found
  <2>1. DOMAIN readings = DOMAIN page
    BY <1>1
  <2>2. \A i \in DOMAIN page : i \notin found => readings[i] = "none"
    BY <1>1, <1>5
  <2>3. found \subseteq DOMAIN page
    BY <1>1
  <2> QED
    BY <1>7, <2>1, <2>2, <2>3
<1>9. Texts!FirstBlock(readings, "none") = IF found = {} THEN "none" ELSE readings[Texts!Min(found)]
  BY <1>8, Zenon DEF Texts!FirstBlock
<1>10. Texts!FirstOf(page, "reference") = IF P = {} THEN "none" ELSE Texts!At(page, Texts!First(P)).value
  BY <1>1, Zenon DEF Texts!FirstOf
<1>11. CASE found = {}
  BY <1>1, <1>4, <1>9, <1>10, <1>11
<1>12. CASE found # {}
  <2> PICK i \in found : i = Texts!Min(found)
    BY <1>4, <1>12
  <2>1. PICK k \in DOMAIN page[i] : /\ i = Texts!Min(found) /\ Texts!First(Q[i]) = <<1, k>>
                                   /\ Texts!First(P) = <<i, k>> /\ <<i, k>> \in P
    BY <1>4, <1>12
  <2>2. i \in DOMAIN page /\ Q[i] # {}
    BY <1>1
  <2>3. readings[i] = page[i][k].value
    BY <1>6, <2>1, <2>2
  <2>4. Texts!At(page, Texts!First(P)) = page[i][k]
    <3>1. Texts!At(page, <<i, k>>) = page[i][k]
      BY DEF Texts!At
    <3> QED
      BY <2>1, <3>1, Zenon
  <2> QED
    BY <1>1, <1>4, <1>9, <1>10, <1>12, <2>1, <2>3, <2>4
<1> QED
  BY <1>11, <1>12

\* What a line says of its time: a day that it prints and no relative day takes back,
\* a time of day that it prints, both or neither.
DayOf(tokens, read) == \E t \in tokens : t.kind \in {"date", "moment"} /\ t.value = read.day
ClockOf(tokens, read) == \E t \in tokens : t.kind \in {"clock", "moment"} /\ t.clock = read.clock
ReadsTime(tokens, scope, read) ==
    /\ read.precision \in {"exact", "date_only", "time_only", "unknown"}
    /\ read.precision = "exact" => DayOf(tokens, read) /\ ClockOf(tokens, read)
    /\ read.precision = "date_only" => DayOf(tokens, read) /\ ~Texts!Superseded(read.day, scope) /\ read.clock = "none"
    /\ read.precision = "time_only" => ClockOf(tokens, read) /\ read.day = "none"
    /\ read.precision = "unknown" => read = Texts!NoTime
LEMMA BlockTime ==
    ASSUME NEW text, IsText(text), NEW scope
    PROVE  ReadsTime(Texts!Tokens(text), scope, Texts!Timestamp(text, scope))
<1> DEFINE first(places) == Texts!At(text, Texts!First(places))
           moments == Texts!OfKind(text, "moment")
           dates == {p \in Texts!OfKind(text, "date") : ~Texts!Superseded(Texts!At(text, p).value, scope)}
           clocks == Texts!OfKind(text, "clock")
           read == Texts!Timestamp(text, scope)
<1>1. read = CASE moments # {} -> Texts!Reading(first(moments).value, first(moments).clock, "exact")
               [] moments = {} /\ dates # {} -> Texts!Reading(first(dates).value, "none", "date_only")
               [] moments = {} /\ dates = {} /\ clocks # {} -> Texts!Reading("none", first(clocks).clock, "time_only")
               [] OTHER -> Texts!NoTime
  BY DEF Texts!Timestamp
<1>2. ASSUME NEW places, places \subseteq Texts!Places(text), places # {}
      PROVE  Texts!First(places) \in places /\ first(places) \in Texts!Tokens(text)
  <2>1. Texts!First(places) \in places
    <3>1. places \subseteq Nat \X Nat
      BY <1>2, PlacesAre
    <3> QED
      BY <1>2, <3>1, FirstIsFirst
  <2>2. \E i \in DOMAIN text : \E k \in DOMAIN text[i] : Texts!First(places) = <<i, k>>
    BY <1>2, <2>1, PlacesAre
  <2> PICK i \in DOMAIN text : \E k \in DOMAIN text[i] : Texts!First(places) = <<i, k>>
    BY <2>2
  <2> PICK k \in DOMAIN text[i] : Texts!First(places) = <<i, k>>
    OBVIOUS
  <2>3. first(places) = text[i][k]
    BY DEF Texts!At
  <2>4. text[i][k] \in Texts!Tokens(text)
    BY PlacesAre
  <2> QED
    BY <2>1, <2>3, <2>4
<1>3. moments # {} => first(moments).kind = "moment" /\ first(moments) \in Texts!Tokens(text)
  BY <1>2 DEF Texts!OfKind
<1>4. dates # {} => /\ first(dates).kind = "date" /\ first(dates) \in Texts!Tokens(text)
                    /\ ~Texts!Superseded(first(dates).value, scope)
  BY <1>2 DEF Texts!OfKind
<1>5. clocks # {} => first(clocks).kind = "clock" /\ first(clocks) \in Texts!Tokens(text)
  BY <1>2 DEF Texts!OfKind
<1> HIDE DEF first, moments, dates, clocks, read
<1>6. \A d, c, p : /\ Texts!Reading(d, c, p).day = d /\ Texts!Reading(d, c, p).clock = c
                   /\ Texts!Reading(d, c, p).precision = p
  BY DEF Texts!Reading
<1>7. CASE moments # {}
  <2>1. read = Texts!Reading(first(moments).value, first(moments).clock, "exact")
    BY <1>1, <1>7
  <2> QED
    BY <1>3, <1>6, <1>7, <2>1 DEF ReadsTime, DayOf, ClockOf, read
<1>8. CASE moments = {} /\ dates # {}
  <2>1. read = Texts!Reading(first(dates).value, "none", "date_only")
    BY <1>1, <1>8
  <2> QED
    BY <1>4, <1>6, <1>8, <2>1 DEF ReadsTime, DayOf, ClockOf, read
<1>9. CASE moments = {} /\ dates = {} /\ clocks # {}
  <2>1. read = Texts!Reading("none", first(clocks).clock, "time_only")
    BY <1>1, <1>9
  <2> QED
    BY <1>5, <1>6, <1>9, <2>1 DEF ReadsTime, DayOf, ClockOf, read
<1>10. CASE moments = {} /\ dates = {} /\ clocks = {}
  <2>1. read = Texts!NoTime
    BY <1>1, <1>10
  <2>2. Texts!NoTime.precision = "unknown"
    BY <1>6 DEF Texts!NoTime
  <2> QED
    BY <2>1, <2>2 DEF ReadsTime, read
<1> QED
  BY <1>7, <1>8, <1>9, <1>10

\* What a page says of its time.
PageTime(page, read) ==
    /\ read.precision \in {"time_only", "unknown"} <=> read.day = "none"
    /\ read.day # "none" => DayOf(Texts!Tokens(page), read)
    /\ read.precision \in {"date_only", "approximate"} => ~Texts!Superseded(read.day, page)
    /\ read.clock # "none" => ClockOf(Texts!Tokens(page), read)
LEMMA PageTimeIsRead ==
    ASSUME NEW page, IsText(page), \A t \in Texts!Tokens(page) : t.kind \in {"date", "moment"} => t.value # "none"
    PROVE  PageTime(page, Texts!BestTimestamp(page))
<1> DEFINE readings == [i \in DOMAIN page |-> Texts!Timestamp(<<page[i]>>, page)]
           of(precision) == {i \in DOMAIN page : readings[i].precision = precision}
           first(precision) == readings[Texts!Min(of(precision))]
           best == Texts!BestTimestamp(page)
<1>1. best = CASE of("exact") # {} -> first("exact")
               [] of("exact") = {} /\ of("date_only") # {} /\ of("time_only") # {} ->
                     Texts!Reading(first("date_only").day, first("time_only").clock, "approximate")
               [] of("exact") = {} /\ of("date_only") # {} /\ of("time_only") = {} -> first("date_only")
               [] of("exact") = {} /\ of("date_only") = {} /\ of("time_only") # {} -> first("time_only")
               [] OTHER -> Texts!NoTime
  BY DEF Texts!BestTimestamp
<1>2. ASSUME NEW i \in DOMAIN page PROVE ReadsTime(Texts!Tokens(page), page, readings[i])
  <2>1. PICK text : text = <<page[i]>>
    OBVIOUS
  <2>2. IsText(text) /\ readings[i] = Texts!Timestamp(text, page)
    BY <2>1, BlockIs
  <2>3. ReadsTime(Texts!Tokens(text), page, readings[i])
    BY <2>2, BlockTime
  <2>4. Texts!Tokens(text) \subseteq Texts!Tokens(page)
    <3>1. IsList(page[i])
      BY BlockIs
    <3>2. \A t : t \in Texts!Tokens(text) <=> \E k \in DOMAIN page[i] : t = page[i][k]
      BY <2>1, <3>1, LineIsText
    <3>3. \A k \in DOMAIN page[i] : page[i][k] \in Texts!Tokens(page)
      BY BlockIs
    <3> QED
      BY <3>2, <3>3
  <2> HIDE DEF readings
  <2>5. /\ DayOf(Texts!Tokens(text), readings[i]) => DayOf(Texts!Tokens(page), readings[i])
        /\ ClockOf(Texts!Tokens(text), readings[i]) => ClockOf(Texts!Tokens(page), readings[i])
    BY <2>4 DEF DayOf, ClockOf
  <2> QED
    BY <2>3, <2>5 DEF ReadsTime
<1> HIDE DEF readings
<1>3. ASSUME NEW precision, of(precision) # {}
      PROVE  first(precision).precision = precision /\ ReadsTime(Texts!Tokens(page), page, first(precision))
  <2>1. of(precision) \subseteq Nat
    BY DEF IsText, IsList
  <2>2. Texts!Min(of(precision)) \in of(precision)
    <3> HIDE DEF of
    <3> QED
      BY <1>3, <2>1, MinIsLeast
  <2> QED
    BY <1>2, <2>2
<1>4. \A read : DayOf(Texts!Tokens(page), read) => read.day # "none"
  BY DEF DayOf
<1> HIDE DEF of, first, best
<1>5. \A d, c, p : /\ Texts!Reading(d, c, p).day = d /\ Texts!Reading(d, c, p).clock = c
                   /\ Texts!Reading(d, c, p).precision = p
  BY DEF Texts!Reading
<1>6. CASE of("exact") # {}
  <2>1. best = first("exact")
    BY <1>1, <1>6
  <2>2. /\ best.precision = "exact" /\ DayOf(Texts!Tokens(page), best) /\ ClockOf(Texts!Tokens(page), best)
    BY <1>3, <1>6, <2>1 DEF ReadsTime
  <2> QED
    BY <1>4, <2>2 DEF PageTime, best
<1>7. CASE of("exact") = {} /\ of("date_only") # {} /\ of("time_only") # {}
  <2>1. best = Texts!Reading(first("date_only").day, first("time_only").clock, "approximate")
    BY <1>1, <1>7
  <2>2. DayOf(Texts!Tokens(page), first("date_only")) /\ ~Texts!Superseded(first("date_only").day, page)
    BY <1>3, <1>7 DEF ReadsTime
  <2>3. ClockOf(Texts!Tokens(page), first("time_only"))
    BY <1>3, <1>7 DEF ReadsTime
  <2>4. best.day = first("date_only").day /\ best.clock = first("time_only").clock /\ best.precision = "approximate"
    BY <1>5, <2>1
  <2>5. DayOf(Texts!Tokens(page), best) /\ ClockOf(Texts!Tokens(page), best) /\ ~Texts!Superseded(best.day, page)
    BY <2>2, <2>3, <2>4 DEF DayOf, ClockOf
  <2> QED
    BY <1>4, <2>4, <2>5 DEF PageTime, best
<1>8. CASE of("exact") = {} /\ of("date_only") # {} /\ of("time_only") = {}
  <2>1. best = first("date_only")
    BY <1>1, <1>8
  <2>2. /\ best.precision = "date_only" /\ DayOf(Texts!Tokens(page), best)
        /\ ~Texts!Superseded(best.day, page) /\ best.clock = "none"
    BY <1>3, <1>8, <2>1 DEF ReadsTime
  <2> QED
    BY <1>4, <2>2 DEF PageTime, best
<1>9. CASE of("exact") = {} /\ of("date_only") = {} /\ of("time_only") # {}
  <2>1. best = first("time_only")
    BY <1>1, <1>9
  <2>2. best.precision = "time_only" /\ ClockOf(Texts!Tokens(page), best) /\ best.day = "none"
    BY <1>3, <1>9, <2>1 DEF ReadsTime
  <2> QED
    BY <2>2 DEF PageTime, best
<1>10. CASE of("exact") = {} /\ of("date_only") = {} /\ of("time_only") = {}
  <2>1. best = Texts!NoTime
    BY <1>1, <1>10
  <2>2. best.precision = "unknown" /\ best.day = "none" /\ best.clock = "none"
    BY <1>5, <2>1 DEF Texts!NoTime
  <2> QED
    BY <2>2 DEF PageTime, best
<1> QED
  BY <1>6, <1>7, <1>8, <1>9, <1>10

\* A page of an image says the same whether it is read block by block or whole, and no
\* day is asserted that the page does not print or that a relative day further down
\* takes back; a time of day alone gives none.
THEOREM PagesAreReadOnce ==
    ASSUME NEW page, IsText(page),
           \A t \in Texts!Tokens(page) : t.kind \in {"reference", "date", "moment"} => t.value # "none"
    PROVE  Texts!PageIsReadOnce(page)
<1> DEFINE read == Texts!ImageFacts(page)
           whole == Texts!IdentifierFacts(page)
           amount == Texts!FirstBlock([i \in DOMAIN page |-> Texts!AmountIn(<<page[i]>>, FALSE)], Texts!NoAmount)
           reference == Texts!FirstBlock([i \in DOMAIN page |-> Texts!FirstOf(<<page[i]>>, "reference")], "none")
<1>1. /\ read.facts = [whole EXCEPT !.amount = IF amount = Texts!NoAmount THEN @ ELSE amount,
                                   !.reference = IF reference = "none" THEN @ ELSE reference]
      /\ read.time = Texts!BestTimestamp(page)
  BY DEF Texts!ImageFacts
<1>2. amount = whole.amount
  <2>1. amount = Texts!AmountIn(page, FALSE)
    BY PageAmount
  <2> HIDE DEF amount
  <2> QED
    BY <2>1 DEF Texts!IdentifierFacts
<1>3. reference = whole.reference
  <2>1. \A t \in Texts!Tokens(page) : t.kind = "reference" => t.value # "none"
    OBVIOUS
  <2>2. reference = Texts!FirstOf(page, "reference")
    BY <2>1, PageReference
  <2> HIDE DEF reference
  <2> QED
    BY <2>2 DEF Texts!IdentifierFacts
<1>4. PICK a, b, c, d, e : whole = [ids |-> a, reference |-> b, device |-> c, roles |-> d, amount |-> e]
  BY DEF Texts!IdentifierFacts
<1> HIDE DEF amount, reference, whole
<1>5. read.facts = whole
  <2>1. [whole EXCEPT !.amount = IF amount = Texts!NoAmount THEN @ ELSE amount,
                      !.reference = IF reference = "none" THEN @ ELSE reference] = whole
    BY <1>2, <1>3, <1>4
  <2> QED
    BY <1>1, <2>1
<1>6. PageTime(page, read.time)
  <2>1. \A t \in Texts!Tokens(page) : t.kind \in {"date", "moment"} => t.value # "none"
    OBVIOUS
  <2> QED
    BY <1>1, <2>1, PageTimeIsRead
<1> HIDE DEF read
<1>7. /\ read.time.day # "none" => read.time.day \in Texts!Printed(page, {"date", "moment"})
      /\ read.time.precision \in {"time_only", "unknown"} <=> read.time.day = "none"
      /\ read.time.precision \in {"date_only", "approximate"} => ~Texts!Superseded(read.time.day, page)
      /\ read.time.clock # "none" => \E t \in Texts!Tokens(page) : t.kind \in {"clock", "moment"} /\ t.clock = read.time.clock
  BY <1>6 DEF PageTime, DayOf, ClockOf, Texts!Printed
<1> QED
  BY <1>5, <1>7 DEF Texts!PageIsReadOnce, read, whole

-------------------------------------------------------------------------------
\* Units of an export

\* The largest place of some is the last where that is among them.
LEMMA LargestIs ==
    ASSUME NEW n \in Nat, NEW T, T \subseteq 1..n, n \in T
    PROVE  Texts!Max(T) = n
<1> DEFINE Top(x) == x \in T /\ \A y \in T : x >= y
<1>1. \A y \in T : y \in Nat /\ y <= n
  OBVIOUS
<1>2. Top(n)
  BY <1>1
<1>3. \A x : Top(x) => x = n
  BY <1>1
<1>4. Texts!Max(T) = CHOOSE x : Top(x)
  BY Zenon DEF Texts!Max
<1> HIDE DEF Top
<1> QED
  BY <1>2, <1>3, <1>4

ReadBody(f, n, b, s) ==
    [T \in SUBSET (1..n) |-> IF T = {} THEN b ELSE Texts!Continued(f[T \ {Texts!Max(T)}], s[Texts!Max(T)])]

ReadFrom(b, s) == Texts!FoldLeft(Texts!Continued, b, s)
ReadsOn(f, b, s) ==
    f[0] = b /\ (\A i \in 1..Len(s) : f[i] = Texts!Continued(f[i - 1], s[i])) /\ ReadFrom(b, s) = f[Len(s)]

\* An export is read line by line.
LEMMA ReadingFolds ==
    ASSUME NEW b, NEW s, IsList(s)
    PROVE  \E f : ReadsOn(f, b, s)
<1>1. Len(s) \in Nat /\ DOMAIN s = 1..Len(s)
  BY DEF IsList
<1> DEFINE Bad == {n \in Nat : ~\E f : f = ReadBody(f, n, b, s)}
<1>2. Bad = {}
  <2> SUFFICES ASSUME Bad # {} PROVE FALSE
    OBVIOUS
  <2>1. PICK n \in Bad : \A y \in Bad : n <= y
    <3>1. Bad \subseteq Nat
      OBVIOUS
    <3> HIDE DEF Bad
    <3> QED
      BY <3>1, LeastNumber
  <2>2. n \in Nat /\ ~\E f : f = ReadBody(f, n, b, s)
    OBVIOUS
  <2>3. CASE n = 0
    <3>1. PICK f : f = [T \in SUBSET (1..0) |-> b]
      OBVIOUS
    <3>2. \A T \in SUBSET (1..0) : T = {}
      OBVIOUS
    <3>3. f = ReadBody(f, 0, b, s)
      BY <3>1, <3>2, Zenon DEF ReadBody
    <3> QED
      BY <2>2, <2>3, <3>3
  <2>4. CASE n # 0
    <3>1. n - 1 \in Nat /\ n - 1 \notin Bad
      <4>1. n - 1 \in Nat /\ ~(n <= n - 1)
        BY <2>2, <2>4
      <4> HIDE DEF Bad
      <4> QED
        BY <2>1, <4>1
    <3>2. PICK g : g = ReadBody(g, n - 1, b, s)
      BY <3>1
    <3> HIDE DEF Bad
    <3> DEFINE Of(f, T) == IF T = {} THEN b ELSE Texts!Continued(f[T \ {Texts!Max(T)}], s[Texts!Max(T)])
    <3>3. PICK f : f = [T \in SUBSET (1..n) |-> IF n \in T THEN Texts!Continued(g[T \ {n}], s[n]) ELSE g[T]]
      OBVIOUS
    <3>4. \A T \in SUBSET (1..n) : T \ {n} \in SUBSET (1..(n - 1)) /\ (n \notin T => T \in SUBSET (1..(n - 1)))
      BY <2>2
    <3>5. \A T \in SUBSET (1..(n - 1)) : T \in SUBSET (1..n) /\ n \notin T
      BY <2>2, <2>4
    <3>6. \A T \in SUBSET (1..(n - 1)) : f[T] = g[T]
      BY <3>3, <3>5, Zenon
    <3>7. \A T \in SUBSET (1..(n - 1)) : g[T] = Of(g, T)
      <4>1. \A k : \A T \in SUBSET (1..(n - 1)) : ReadBody(k, n - 1, b, s)[T] = Of(k, T)
        BY DEF ReadBody
      <4> QED
        BY <3>2, <4>1, Zenon
    <3>8. ASSUME NEW T \in SUBSET (1..n) PROVE f[T] = Of(f, T)
      <4>1. CASE n \in T
        <5>1. Texts!Max(T) = n
          BY <2>2, <4>1, LargestIs
        <5>2. f[T] = Texts!Continued(g[T \ {n}], s[n])
          BY <3>3, <4>1
        <5>3. f[T \ {n}] = g[T \ {n}]
          BY <3>4, <3>6
        <5>4. T # {}
          BY <4>1
        <5> QED
          BY <5>1, <5>2, <5>3, <5>4, Zenon
      <4>2. CASE n \notin T
        <5>1. T \in SUBSET (1..(n - 1)) /\ f[T] = g[T]
          BY <3>4, <3>6, <4>2
        <5>2. T # {} => T \ {Texts!Max(T)} \in SUBSET (1..(n - 1))
          BY <5>1
        <5>3. T # {} => f[T \ {Texts!Max(T)}] = g[T \ {Texts!Max(T)}]
          BY <3>6, <5>2
        <5> QED
          BY <3>7, <5>1, <5>3, Zenon
      <4> QED
        BY <4>1, <4>2
    <3>9. f = [T \in SUBSET (1..n) |-> f[T]]
      BY <3>3
    <3>10. f = ReadBody(f, n, b, s)
      BY <3>8, <3>9, Zenon DEF ReadBody
    <3> QED
      BY <2>2, <3>10
  <2> QED
    BY <2>3, <2>4
<1> DEFINE iter == CHOOSE f : f = ReadBody(f, Len(s), b, s)
<1>3. iter = ReadBody(iter, Len(s), b, s)
  <2>1. \E f : f = ReadBody(f, Len(s), b, s)
    BY <1>1, <1>2
  <2> QED
    BY <2>1
<1>4. ReadFrom(b, s) = iter[1..Len(s)]
  BY <1>1, Zenon DEF ReadFrom, Texts!FoldLeft, Texts!MapThenFoldSet, ReadBody
<1> HIDE DEF iter
<1>5. \A T \in SUBSET (1..Len(s)) : iter[T] = IF T = {} THEN b ELSE Texts!Continued(iter[T \ {Texts!Max(T)}], s[Texts!Max(T)])
  <2>1. \A k : \A T \in SUBSET (1..Len(s)) :
            ReadBody(k, Len(s), b, s)[T] = IF T = {} THEN b ELSE Texts!Continued(k[T \ {Texts!Max(T)}], s[Texts!Max(T)])
    BY DEF ReadBody
  <2> QED
    BY <1>3, <2>1, Zenon
<1>6. PICK f : f = [i \in 0..Len(s) |-> iter[1..i]]
  OBVIOUS
<1>7. f[0] = b
  <2>1. 0 \in 0..Len(s) /\ 1..0 = {} /\ {} \in SUBSET (1..Len(s))
    BY <1>1
  <2>2. f[0] = iter[{}]
    BY <1>6, <2>1
  <2> QED
    BY <1>5, <2>1, <2>2
<1>8. ASSUME NEW i \in 1..Len(s) PROVE f[i] = Texts!Continued(f[i - 1], s[i])
  <2>1. i \in Nat /\ i >= 1 /\ i \in 0..Len(s) /\ i - 1 \in 0..Len(s)
    BY <1>1
  <2>2. (1..i) \in SUBSET (1..Len(s)) /\ 1..i # {} /\ (1..i) \ {i} = 1..(i - 1)
    <3>1. 1..i \subseteq 1..Len(s) /\ i \in 1..i
      BY <1>1, <2>1
    <3>2. (1..i) \ {i} = 1..(i - 1)
      BY <2>1
    <3> QED
      BY <3>1, <3>2
  <2>3. Texts!Max(1..i) = i
    BY <2>1, LargestIs
  <2>4. iter[1..i] = Texts!Continued(iter[1..(i - 1)], s[i])
    BY <1>5, <2>2, <2>3
  <2> QED
    BY <1>6, <2>1, <2>4
<1>9. f[Len(s)] = iter[1..Len(s)]
  BY <1>1, <1>6
<1>10. ReadsOn(f, b, s)
  BY <1>4, <1>7, <1>8, <1>9 DEF ReadsOn
<1> QED
  BY <1>10


\* A list with one thing more, and lists one after the other.
LEMMA AppendIs ==
    ASSUME NEW S, NEW s \in Seq(S), NEW x \in S
    PROVE  /\ Append(s, x) \in Seq(S) /\ Len(Append(s, x)) = Len(s) + 1 /\ Append(s, x)[Len(s) + 1] = x
           /\ \A i \in 1..Len(s) : Append(s, x)[i] = s[i]
           /\ <<x>> \in Seq(S) /\ s \o <<x>> = Append(s, x) /\ s \o <<>> = s
  OBVIOUS
LEMMA ConcatIs ==
    ASSUME NEW S, NEW s \in Seq(S), NEW t \in Seq(S)
    PROVE  /\ s \o t \in Seq(S) /\ Len(s \o t) = Len(s) + Len(t)
           /\ (\A i \in 1..Len(s) : (s \o t)[i] = s[i]) /\ \A i \in 1..Len(t) : (s \o t)[Len(s) + i] = t[i]
  OBVIOUS
LEMMA AppendLast ==
    ASSUME NEW S, NEW s \in Seq(S), NEW t \in Seq(S), NEW x \in S
    PROVE  s \o Append(t, x) = Append(s \o t, x)
<1>1. Len(s) \in Nat /\ Len(t) \in Nat
  OBVIOUS
<1>2. PICK a : a = Append(t, x)
  OBVIOUS
<1>3. a \in Seq(S) /\ Len(a) = Len(t) + 1 /\ a[Len(t) + 1] = x /\ \A i \in 1..Len(t) : a[i] = t[i]
  BY <1>2, AppendIs
<1>4. PICK b : b = s \o t
  OBVIOUS
<1>5. b \in Seq(S) /\ Len(b) = Len(s) + Len(t) /\ (\A i \in 1..Len(s) : b[i] = s[i]) /\ \A i \in 1..Len(t) : b[Len(s) + i] = t[i]
  BY <1>4, ConcatIs
<1>6. PICK c : c = Append(b, x)
  OBVIOUS
<1>7. c \in Seq(S) /\ Len(c) = Len(b) + 1 /\ c[Len(b) + 1] = x /\ \A i \in 1..Len(b) : c[i] = b[i]
  BY <1>5, <1>6, AppendIs
<1>8. PICK d : d = s \o a
  OBVIOUS
<1>9. d \in Seq(S) /\ Len(d) = Len(s) + Len(a) /\ (\A i \in 1..Len(s) : d[i] = s[i]) /\ \A i \in 1..Len(a) : d[Len(s) + i] = a[i]
  <2>1. PICK q \in Seq(S) : q = a
    BY <1>3
  <2>2. /\ s \o q \in Seq(S) /\ Len(s \o q) = Len(s) + Len(q)
        /\ (\A i \in 1..Len(s) : (s \o q)[i] = s[i]) /\ \A i \in 1..Len(q) : (s \o q)[Len(s) + i] = q[i]
    BY ConcatIs
  <2>3. d = s \o q
    BY <1>8, <2>1, Zenon
  <2> QED
    BY <2>1, <2>2, <2>3, Zenon
<1>10. Len(c) = Len(d)
  BY <1>1, <1>3, <1>5, <1>7, <1>9
<1>11. ASSUME NEW i \in 1..Len(d) PROVE c[i] = d[i]
  <2>1. CASE i \in 1..Len(s)
    <3>1. i \in 1..Len(b)
      BY <1>1, <1>5, <2>1
    <3> QED
      BY <1>5, <1>7, <1>9, <2>1, <3>1
  <2>2. CASE i \notin 1..Len(s)
    <3>1. PICK h \in 1..Len(a) : i = Len(s) + h
      <4>1. i - Len(s) \in 1..Len(a) /\ i = Len(s) + (i - Len(s))
        BY <1>1, <1>3, <1>9, <2>2
      <4> QED
        BY <4>1
    <3>2. CASE h = Len(t) + 1
      BY <1>1, <1>3, <1>5, <1>7, <1>9, <3>1, <3>2
    <3>3. CASE h # Len(t) + 1
      <4>1. h \in 1..Len(t) /\ Len(s) + h \in 1..Len(b)
        BY <1>1, <1>3, <1>5, <3>1, <3>3
      <4> QED
        BY <1>3, <1>5, <1>7, <1>9, <3>1, <4>1
    <3> QED
      BY <3>2, <3>3
  <2> QED
    BY <2>1, <2>2
<1>12. c = d
  BY <1>7, <1>9, <1>10, <1>11
<1> QED
  BY <1>2, <1>4, <1>6, <1>8, <1>12

\* One list more comes last in what lists flatten to.
LEMMA FlatAppends ==
    ASSUME NEW S, NEW ss \in Seq(Seq(S)), NEW w \in Seq(S)
    PROVE  Flattened(Append(ss, w)) = Flattened(ss) \o w
<1> DEFINE n == Len(ss)
<1>1. n \in Nat /\ \A i \in 1..n : ss[i] \in Seq(S)
  OBVIOUS
<1>2. PICK more \in Seq(Seq(S)) : more = Append(ss, w)
  BY AppendIs
<1>3. Len(more) = n + 1 /\ more[n + 1] = w /\ \A i \in 1..n : more[i] = ss[i]
  BY <1>2
<1>4. PICK f \in [1..(n + 1) -> Seq(S)] : Builds(more, f)
  BY <1>1, <1>3, FlatIsBuilt
<1>5. f[1] = more[1] /\ (\A i \in 2..(n + 1) : f[i] = f[i - 1] \o more[i]) /\ Flattened(more) = f[n + 1]
  BY <1>3, <1>4 DEF Builds
<1>6. CASE n = 0
  <2>1. Flattened(ss) = <<>>
    BY <1>6 DEF Flattened
  <2>2. Flattened(more) = w
    BY <1>3, <1>5, <1>6
  <2> QED
    BY <1>2, <2>1, <2>2
<1>7. CASE n # 0
  <2>1. PICK g \in [1..n -> Seq(S)] : Builds(ss, g)
    BY <1>7, FlatIsBuilt
  <2>2. g[1] = ss[1] /\ (\A i \in 2..n : g[i] = g[i - 1] \o ss[i]) /\ Flattened(ss) = g[n]
    BY <2>1 DEF Builds
  <2> DEFINE Wrong == {i \in 1..n : f[i] # g[i]}
  <2>3. Wrong = {}
    <3> SUFFICES ASSUME Wrong # {} PROVE FALSE
      OBVIOUS
    <3>1. Wrong \subseteq Nat
      BY <1>1
    <3>2. PICK x \in Wrong : \A y \in Wrong : x <= y
      <4> HIDE DEF Wrong
      <4> QED
        BY <3>1, LeastNumber
    <3>3. x \in 1..n /\ f[x] # g[x]
      OBVIOUS
    <3>4. x # 1
      BY <1>1, <1>3, <1>5, <1>7, <2>2, <3>3
    <3>5. x - 1 \in 1..n /\ ~(x <= x - 1) /\ x \in 2..n /\ x \in 2..(n + 1)
      BY <1>1, <3>3, <3>4
    <3>6. f[x - 1] = g[x - 1]
      BY <3>2, <3>5
    <3> QED
      BY <1>3, <1>5, <2>2, <3>3, <3>5, <3>6
  <2>4. n \in 1..n /\ n + 1 \in 2..(n + 1) /\ (n + 1) - 1 = n
    BY <1>1, <1>7
  <2>5. f[n] = g[n]
    BY <2>3, <2>4
  <2>6. f[n + 1] = f[n] \o w
    BY <1>3, <1>5, <2>4
  <2> QED
    BY <1>2, <1>5, <2>2, <2>5, <2>6
<1> QED
  BY <1>6, <1>7

\* What is added to the last list comes last in what they flatten to.
LEMMA FlatGrows ==
    ASSUME NEW S, NEW ss \in Seq(Seq(S)), Len(ss) # 0, NEW x \in S, NEW tt \in Seq(Seq(S)),
           Len(tt) = Len(ss), \A i \in 1..(Len(ss) - 1) : tt[i] = ss[i],
           tt[Len(ss)] = Append(ss[Len(ss)], x)
    PROVE  Flattened(tt) = Append(Flattened(ss), x)
<1>1. PICK n \in Nat : n = Len(ss) /\ n # 0
  OBVIOUS
<1>2. PICK front : front = [i \in 1..(n - 1) |-> ss[i]]
  OBVIOUS
<1>3. \A i \in 1..n : ss[i] \in Seq(S)
  BY <1>1
<1>4. front \in Seq(Seq(S)) /\ Len(front) = n - 1
  BY <1>1, <1>2, <1>3
<1>5. PICK last \in Seq(S) : last = ss[n]
  BY <1>1, <1>3
<1>6. ss = Append(front, last)
  BY <1>1, <1>2, <1>4, <1>5
<1>7. PICK more \in Seq(S) : more = Append(last, x)
  <2>1. Append(last, x) \in Seq(S)
    BY AppendIs
  <2> QED
    BY <2>1
<1>8. tt = Append(front, more)
  <2>1. PICK uu \in Seq(Seq(S)) : /\ uu = Append(front, more) /\ Len(uu) = Len(front) + 1 /\ uu[Len(front) + 1] = more
                                 /\ \A i \in 1..Len(front) : uu[i] = front[i]
    <3>1. /\ Append(front, more) \in Seq(Seq(S)) /\ Len(Append(front, more)) = Len(front) + 1
          /\ Append(front, more)[Len(front) + 1] = more /\ \A i \in 1..Len(front) : Append(front, more)[i] = front[i]
      BY <1>4, AppendIs
    <3> QED
      BY <3>1, Zenon
  <2>2. Len(uu) = n /\ uu[n] = more /\ \A i \in 1..(n - 1) : uu[i] = ss[i]
    BY <1>1, <1>2, <1>4, <2>1
  <2>3. Len(tt) = n /\ tt[n] = more /\ \A i \in 1..(n - 1) : tt[i] = ss[i]
    BY <1>1, <1>5, <1>7
  <2>4. \A i \in 1..n : i = n \/ i \in 1..(n - 1)
    BY <1>1
  <2>5. \A i \in 1..n : uu[i] = tt[i]
    BY <2>2, <2>3, <2>4
  <2>6. uu = tt
    BY <2>2, <2>3, <2>5
  <2> QED
    BY <2>1, <2>6
<1>9. Flattened(ss) = Flattened(front) \o last /\ Flattened(tt) = Flattened(front) \o more
  BY <1>4, <1>6, <1>8, FlatAppends
<1>10. PICK flat \in Seq(S) : flat = Flattened(front)
  BY <1>4, FlatParts
<1>11. flat \o Append(last, x) = Append(flat \o last, x)
  BY AppendLast
<1> QED
  BY <1>7, <1>9, <1>10, <1>11

\* A line belongs to a unit if it is a message or a notice, or goes on with the
\* message just above it: nothing but other and blank lines stands between.
Open(lines, k) ==
    \E j \in 1..k : lines[j].sort = "message" /\ \A i \in (j + 1)..k : lines[i].sort \in {"other", "blank"}
Owns(lines, i) == lines[i].sort \in {"message", "notice"} \/ (lines[i].sort = "other" /\ Open(lines, i - 1))
Wording(lines, k) == [i \in 1..k |-> IF Owns(lines, i) THEN <<lines[i].body>> ELSE <<>>]
TextsOf(units) == [u \in DOMAIN units |-> units[u].text]

\* What the units of an export's first lines are.
Bodies(lines) == {lines[i].body : i \in DOMAIN lines}
UnitsOf(lines) ==
    [sort : {"message", "notice"}, text : Seq(Bodies(lines)), facts : {Texts!IdentifierFacts(<<b>>) : b \in Bodies(lines)}]
ReadSoFar(lines, units, k) ==
    /\ units \in Seq(UnitsOf(lines))
    /\ Flattened(TextsOf(units)) = Flattened(Wording(lines, k))
    /\ (units # <<>> /\ units[Len(units)].sort = "message") <=> Open(lines, k)
    /\ \A u \in 1..Len(units) : \A kind \in DOMAIN units[u].facts.ids :
        units[u].facts.ids[kind] \subseteq Texts!Printed(units[u].text, {kind})

\* What more lines print contains what fewer print.
LEMMA PrintedGrows ==
    ASSUME NEW B, NEW text \in Seq(B), NEW b, NEW kinds
    PROVE  Texts!Printed(text, kinds) \subseteq Texts!Printed(Append(text, b), kinds)
<1>1. Texts!ToSet(text) \subseteq Texts!ToSet(Append(text, b))
  <2> SUFFICES ASSUME NEW i \in 1..Len(text) PROVE text[i] \in Texts!ToSet(Append(text, b))
    BY DEF Texts!ToSet
  <2>1. i \in DOMAIN Append(text, b) /\ Append(text, b)[i] = text[i]
    OBVIOUS
  <2> QED
    BY <2>1, Zenon DEF Texts!ToSet
<1>2. Texts!Tokens(text) \subseteq Texts!Tokens(Append(text, b))
  BY <1>1, Zenon DEF Texts!Tokens
<1> QED
  BY <1>2 DEF Texts!Printed

\* Wording grows line by line.
LEMMA WordingGrows ==
    ASSUME NEW lines, IsList(lines), NEW k \in 1..Len(lines)
    PROVE  /\ Wording(lines, k) \in Seq(Seq(Bodies(lines))) /\ Wording(lines, k - 1) \in Seq(Seq(Bodies(lines)))
           /\ Flattened(Wording(lines, k))
                = Flattened(Wording(lines, k - 1)) \o (IF Owns(lines, k) THEN <<lines[k].body>> ELSE <<>>)
<1>1. Len(lines) \in Nat /\ DOMAIN lines = 1..Len(lines) /\ k \in Nat /\ k - 1 \in Nat
  BY DEF IsList
<1> DEFINE Piece(i) == IF Owns(lines, i) THEN <<lines[i].body>> ELSE <<>>
<1>2. \A i \in 1..Len(lines) : Piece(i) \in Seq(Bodies(lines))
  BY <1>1 DEF Bodies
<1>3. \A h \in Nat : Wording(lines, h) = [i \in 1..h |-> Piece(i)]
  BY Zenon DEF Wording
<1> HIDE DEF Piece
<1>4. PICK less : less = Wording(lines, k - 1)
  OBVIOUS
<1>5. less = [i \in 1..(k - 1) |-> Piece(i)] /\ \A i \in 1..k : i \in 1..Len(lines)
  BY <1>1, <1>3, <1>4, SMTT(30)
<1>6. less \in Seq(Seq(Bodies(lines))) /\ Len(less) = k - 1
  BY <1>1, <1>2, <1>5
<1>7. Wording(lines, k) = Append(less, Piece(k))
  BY <1>1, <1>3, <1>5, <1>6, SMTT(30)
<1>8. PICK w \in Seq(Bodies(lines)) : w = Piece(k)
  BY <1>2
<1>9. Flattened(Append(less, w)) = Flattened(less) \o w
  BY <1>6, FlatAppends
<1>10. Append(less, w) \in Seq(Seq(Bodies(lines)))
  BY <1>6
<1> QED
  BY <1>4, <1>6, <1>7, <1>8, <1>9, <1>10, Zenon DEF Piece

\* A line opens, keeps open or closes the message above the next.
LEMMA OpensOn ==
    ASSUME NEW lines, NEW k \in Nat, k >= 1
    PROVE  /\ lines[k].sort = "message" => Open(lines, k)
           /\ lines[k].sort = "notice" => ~Open(lines, k)
           /\ lines[k].sort \in {"other", "blank"} => (Open(lines, k) <=> Open(lines, k - 1))
<1>1. ASSUME lines[k].sort = "message" PROVE Open(lines, k)
  <2>1. k \in 1..k /\ (k + 1)..k = {}
    OBVIOUS
  <2> QED
    BY <1>1, <2>1 DEF Open
<1>2. ASSUME lines[k].sort = "notice", Open(lines, k) PROVE FALSE
  <2>1. PICK j \in 1..k : lines[j].sort = "message" /\ \A i \in (j + 1)..k : lines[i].sort \in {"other", "blank"}
    BY <1>2 DEF Open
  <2>2. j # k /\ k \notin (j + 1)..k
    BY <1>2, <2>1
  <2> QED
    BY <2>2
<1>3. ASSUME lines[k].sort \in {"other", "blank"}, Open(lines, k) PROVE Open(lines, k - 1)
  <2>1. PICK j \in 1..k : lines[j].sort = "message" /\ \A i \in (j + 1)..k : lines[i].sort \in {"other", "blank"}
    BY <1>3 DEF Open
  <2>2. j # k
    BY <1>3, <2>1
  <2>3. j \in 1..(k - 1) /\ \A i \in (j + 1)..(k - 1) : i \in (j + 1)..k
    BY <2>2
  <2> QED
    BY <2>1, <2>3 DEF Open
<1>4. ASSUME lines[k].sort \in {"other", "blank"}, Open(lines, k - 1) PROVE Open(lines, k)
  <2>1. PICK j \in 1..(k - 1) : lines[j].sort = "message" /\ \A i \in (j + 1)..(k - 1) : lines[i].sort \in {"other", "blank"}
    BY <1>4 DEF Open
  <2>2. j \in 1..k /\ \A i \in (j + 1)..k : i = k \/ i \in (j + 1)..(k - 1)
    OBVIOUS
  <2> QED
    BY <1>4, <2>1, <2>2 DEF Open
<1> QED
  BY <1>1, <1>2, <1>3, <1>4

\* One line more keeps what has been read so far.
LEMMA LineIsRead ==
    ASSUME NEW lines, IsList(lines), NEW k \in 1..Len(lines),
           lines[k].sort \in {"message", "notice", "other", "blank"},
           NEW units, ReadSoFar(lines, units, k - 1)
    PROVE  ReadSoFar(lines, Texts!Continued(units, lines[k]), k)
<1> DEFINE line == lines[k]
           B == Bodies(lines)
<1>1. /\ units \in Seq(UnitsOf(lines)) /\ Flattened(TextsOf(units)) = Flattened(Wording(lines, k - 1))
      /\ (units # <<>> /\ units[Len(units)].sort = "message") <=> Open(lines, k - 1)
      /\ \A u \in 1..Len(units) : \A kind \in DOMAIN units[u].facts.ids :
            units[u].facts.ids[kind] \subseteq Texts!Printed(units[u].text, {kind})
  BY DEF ReadSoFar
<1>2. line.body \in B /\ k \in Nat /\ k >= 1
  BY DEF Bodies, IsList
<1>3. Flattened(Wording(lines, k)) = Flattened(TextsOf(units)) \o (IF Owns(lines, k) THEN <<line.body>> ELSE <<>>)
  BY <1>1, WordingGrows
<1>4. /\ line.sort = "message" => Open(lines, k)
      /\ line.sort = "notice" => ~Open(lines, k)
      /\ line.sort \in {"other", "blank"} => (Open(lines, k) <=> Open(lines, k - 1))
  BY <1>2, OpensOn
<1>5. \A u \in 1..Len(units) : units[u] \in UnitsOf(lines) /\ units[u].text \in Seq(B)
  <2>1. \A u \in 1..Len(units) : units[u] \in UnitsOf(lines)
    BY <1>1
  <2>2. \A u \in UnitsOf(lines) : u.text \in Seq(B)
    BY DEF UnitsOf
  <2> QED
    BY <2>1, <2>2
<1>6. Len(units) \in Nat /\ DOMAIN units = 1..Len(units)
  BY <1>1
<1>7. TextsOf(units) \in Seq(Seq(B)) /\ Len(TextsOf(units)) = Len(units)
  BY <1>5, <1>6 DEF TextsOf
<1>8. PICK flat \in Seq(B) : flat = Flattened(TextsOf(units))
  BY <1>7, FlatParts
<1> HIDE DEF B, line
<1>9. CASE line.sort \in {"message", "notice"}
  <2>1. PICK new : new = Texts!Unit(line)
    OBVIOUS
  <2>2. /\ new = [sort |-> line.sort, text |-> <<line.body>>, facts |-> Texts!IdentifierFacts(<<line.body>>)]
        /\ new \in UnitsOf(lines) /\ new.sort = line.sort /\ new.text = <<line.body>> /\ new.text \in Seq(B)
        /\ new.facts = Texts!IdentifierFacts(<<line.body>>)
    <3>1. new = [sort |-> line.sort, text |-> <<line.body>>, facts |-> Texts!IdentifierFacts(<<line.body>>)]
      BY <2>1 DEF Texts!Unit
    <3>2. <<line.body>> \in Seq(B) /\ Texts!IdentifierFacts(<<line.body>>) \in {Texts!IdentifierFacts(<<b>>) : b \in B}
      BY <1>2
    <3> QED
      BY <1>9, <3>1, <3>2 DEF UnitsOf, B
  <2>3. \A kind \in DOMAIN new.facts.ids : new.facts.ids[kind] = Texts!Printed(new.text, {kind})
    <3>1. new.facts.ids = [kind \in Texts!Mentions \ {"reference", "device"} |-> Texts!Printed(<<line.body>>, {kind})]
      BY <2>2 DEF Texts!IdentifierFacts
    <3> QED
      BY <2>2, <3>1
  <2>4. PICK next : next = Append(units, new)
    OBVIOUS
  <2>5. Texts!Continued(units, line) = next
    BY <1>9, <2>1, <2>4 DEF Texts!Continued
  <2>6. /\ next \in Seq(UnitsOf(lines)) /\ Len(next) = Len(units) + 1 /\ next[Len(units) + 1] = new
        /\ \A u \in 1..Len(units) : next[u] = units[u]
        /\ \A u \in 1..Len(next) : u \in 1..Len(units) \/ u = Len(units) + 1
    BY <1>1, <1>6, <2>2, <2>4
  <2>7. TextsOf(next) = Append(TextsOf(units), <<line.body>>)
    <3>1. PICK old : old = TextsOf(units)
      OBVIOUS
    <3>2. old \in Seq(Seq(B)) /\ Len(old) = Len(units) /\ \A u \in 1..Len(units) : old[u] = units[u].text
      BY <1>6, <1>7, <3>1 DEF TextsOf
    <3>3. DOMAIN next = 1..(Len(units) + 1)
      BY <2>6
    <3>4. TextsOf(next) = [u \in 1..(Len(units) + 1) |-> next[u].text]
      BY <3>3 DEF TextsOf
    <3>5. \A u \in 1..(Len(units) + 1) : next[u].text = Append(old, <<line.body>>)[u]
      BY <1>6, <2>2, <2>6, <3>2
    <3> QED
      BY <1>6, <3>1, <3>2, <3>4, <3>5, SMTT(30)
  <2>8. Owns(lines, k) /\ Flattened(TextsOf(next)) = Flattened(Wording(lines, k))
    <3>1. Owns(lines, k)
      BY <1>9, Zenon DEF Owns, line
    <3>2. PICK w \in Seq(B) : w = <<line.body>>
      BY <1>2, <1>8, AppendIs
    <3>3. Flattened(Append(TextsOf(units), w)) = Flattened(TextsOf(units)) \o w
      BY <1>7, FlatAppends
    <3> QED
      BY <1>3, <2>7, <3>1, <3>2, <3>3
  <2>9. (next # <<>> /\ next[Len(next)].sort = "message") <=> Open(lines, k)
    <3>1. next # <<>>
      BY <1>6, <2>6
    <3> QED
      BY <1>4, <1>9, <2>2, <2>6, <3>1
  <2>10. \A u \in 1..Len(next) : \A kind \in DOMAIN next[u].facts.ids :
            next[u].facts.ids[kind] \subseteq Texts!Printed(next[u].text, {kind})
    BY <1>1, <2>3, <2>6
  <2> QED
    BY <2>5, <2>6, <2>8, <2>9, <2>10 DEF ReadSoFar, line
<1>10. CASE line.sort = "other" /\ Open(lines, k - 1)
  <2>1. PICK n \in Nat : n = Len(units) /\ n # 0 /\ units[n].sort = "message"
    <3>1. units # <<>> /\ units[Len(units)].sort = "message"
      BY <1>1, <1>10, Zenon
    <3>2. Len(units) # 0
      BY <1>1, <3>1
    <3> QED
      BY <1>6, <3>1, <3>2
  <2>2. PICK new : new = [units[n] EXCEPT !.text = Append(@, line.body)]
    OBVIOUS
  <2>3. PICK old \in UnitsOf(lines) : old = units[n] /\ old.text \in Seq(B)
    BY <1>5, <2>1
  <2>4. PICK longer \in Seq(B) : longer = Append(old.text, line.body)
    <3>1. PICK t \in Seq(B) : t = old.text
      BY <2>3
    <3> QED
      BY <1>2, <3>1, AppendIs
  <2>5. new \in UnitsOf(lines) /\ new.sort = "message" /\ new.text = longer /\ new.facts = old.facts
    BY <2>1, <2>2, <2>3, <2>4 DEF UnitsOf, B
  <2>6. PICK next : next = [units EXCEPT ![n] = new]
    OBVIOUS
  <2>7. Texts!Continued(units, line) = next
    <3>1. units # <<>> /\ Texts!Last(units).sort = "message" /\ line.sort \notin {"message", "notice"}
      BY <1>1, <1>10, <2>1 DEF Texts!Last
    <3>2. Texts!Continued(units, line) = [units EXCEPT ![Len(units)].text = Append(@, line.body)]
      BY <1>10, <3>1 DEF Texts!Continued
    <3> QED
      BY <2>1, <2>2, <2>6, <3>2
  <2>8. /\ next \in Seq(UnitsOf(lines)) /\ Len(next) = n /\ next[n] = new
        /\ \A u \in 1..(n - 1) : next[u] = units[u]
        /\ \A u \in 1..n : u \in 1..(n - 1) \/ u = n
    BY <1>1, <2>1, <2>5, <2>6
  <2>9. Flattened(TextsOf(next)) = Append(Flattened(TextsOf(units)), line.body)
    <3>1. PICK ss \in Seq(Seq(B)) : ss = TextsOf(units) /\ Len(ss) = n
      BY <1>7, <2>1
    <3>2. \A u \in 1..n : ss[u] = units[u].text
      BY <1>6, <2>1, <3>1 DEF TextsOf
    <3>3. PICK tt : tt = TextsOf(next)
      OBVIOUS
    <3>4. tt = [u \in 1..n |-> next[u].text]
      BY <2>8, <3>3 DEF TextsOf
    <3>5. \A u \in 1..n : next[u].text \in Seq(B)
      BY <1>5, <2>1, <2>5, <2>8
    <3>6. tt \in Seq(Seq(B)) /\ Len(tt) = Len(ss)
      BY <3>1, <3>4, <3>5
    <3>7. \A u \in 1..(Len(ss) - 1) : tt[u] = ss[u]
      <4>1. \A u \in 1..(n - 1) : u \in 1..n
        BY <2>1
      <4>2. \A u \in 1..(n - 1) : tt[u] = next[u].text /\ ss[u] = units[u].text /\ next[u] = units[u]
        BY <2>8, <3>2, <3>4, <4>1
      <4> QED
        BY <3>1, <4>2
    <3>8. tt[Len(ss)] = Append(ss[Len(ss)], line.body) /\ Len(ss) # 0
      <4>1. n \in 1..n /\ Len(ss) = n /\ n # 0
        BY <2>1, <3>1
      <4>2. tt[n] = longer
        <5>1. tt[n] = next[n].text
          BY <3>4, <4>1
        <5> QED
          BY <2>5, <2>8, <5>1
      <4>3. ss[n] = old.text
        BY <2>3, <3>2, <4>1, Zenon
      <4> QED
        BY <2>4, <4>1, <4>2, <4>3, Zenon
    <3>9. Flattened(tt) = Append(Flattened(ss), line.body)
      BY <1>2, <3>6, <3>7, <3>8, FlatGrows
    <3> QED
      BY <3>1, <3>3, <3>9
  <2>10. Flattened(TextsOf(next)) = Flattened(Wording(lines, k))
    <3>1. Owns(lines, k)
      BY <1>10 DEF Owns, line
    <3>2. Append(flat, line.body) = flat \o <<line.body>>
      BY <1>2
    <3> QED
      BY <1>3, <1>8, <2>9, <3>1, <3>2
  <2>11. (next # <<>> /\ next[Len(next)].sort = "message") <=> Open(lines, k)
    <3>1. next # <<>>
      BY <2>1, <2>8
    <3> QED
      BY <1>4, <1>10, <2>5, <2>8, <3>1
  <2>12. ASSUME NEW u \in 1..Len(next), NEW kind \in DOMAIN next[u].facts.ids
         PROVE  next[u].facts.ids[kind] \subseteq Texts!Printed(next[u].text, {kind})
    <3>1. CASE u \in 1..(n - 1)
      BY <1>1, <2>1, <2>8, <3>1
    <3>2. CASE u = n
      <4>1. next[u].facts = units[n].facts /\ next[u].text = longer
        BY <2>3, <2>5, <2>8, <3>2
      <4>2. units[n].facts.ids[kind] \subseteq Texts!Printed(old.text, {kind})
        <5>1. n \in 1..Len(units) /\ kind \in DOMAIN units[n].facts.ids
          BY <2>1, <4>1
        <5>2. units[n].facts.ids[kind] \subseteq Texts!Printed(units[n].text, {kind})
          BY <1>1, <5>1, Zenon
        <5> QED
          BY <2>3, <5>2, Zenon
      <4>3. Texts!Printed(old.text, {kind}) \subseteq Texts!Printed(longer, {kind})
        BY <2>3, <2>4, PrintedGrows
      <4> QED
        BY <4>1, <4>2, <4>3
    <3> QED
      BY <2>8, <3>1, <3>2
  <2> QED
    BY <2>7, <2>8, <2>10, <2>11, <2>12 DEF ReadSoFar, line
<1>11. CASE line.sort = "blank" \/ (line.sort = "other" /\ ~Open(lines, k - 1))
  <2>1. Texts!Continued(units, line) = units
    BY <1>1, <1>11 DEF Texts!Continued, Texts!Last
  <2>2. ~Owns(lines, k)
    BY <1>11 DEF Owns, line
  <2>3. flat \o <<>> = flat
    OBVIOUS
  <2>4. Flattened(TextsOf(units)) = Flattened(Wording(lines, k))
    BY <1>3, <1>8, <2>2, <2>3
  <2>5. (units # <<>> /\ units[Len(units)].sort = "message") <=> Open(lines, k)
    BY <1>1, <1>4, <1>11
  <2> QED
    BY <1>1, <2>1, <2>4, <2>5 DEF ReadSoFar, line
<1> QED
  <2>1. line.sort \in {"message", "notice", "other", "blank"}
    BY DEF line
  <2> QED
    BY <1>9, <1>10, <1>11, <2>1

\* The lines of an export keep their order and wording in its units, up to those that
\* no message precedes, and no unit states what is not printed in it.
THEOREM ChatsKeepWording ==
    ASSUME NEW lines, IsList(lines), \A i \in DOMAIN lines : lines[i].sort \in {"message", "notice", "other", "blank"}
    PROVE  Texts!ChatKeepsWording(lines)
<1> DEFINE n == Len(lines)
<1>1. n \in Nat /\ DOMAIN lines = 1..n
  BY DEF IsList
<1>2. PICK f : ReadsOn(f, <<>>, lines)
  <2>1. PICK empty : empty = <<>>
    OBVIOUS
  <2> QED
    BY <2>1, ReadingFolds
<1>3. f[0] = <<>> /\ (\A i \in 1..n : f[i] = Texts!Continued(f[i - 1], lines[i])) /\ Texts!ChatUnits(lines) = f[n]
  BY <1>2 DEF ReadsOn, ReadFrom, Texts!ChatUnits
<1> DEFINE Bad == {k \in 0..n : ~ReadSoFar(lines, f[k], k)}
<1>4. Bad = {}
  <2> SUFFICES ASSUME Bad # {} PROVE FALSE
    OBVIOUS
  <2>1. Bad \subseteq Nat
    BY <1>1
  <2>2. PICK x \in Bad : \A y \in Bad : x <= y
    <3> HIDE DEF Bad
    <3> QED
      BY <2>1, LeastNumber
  <2>3. x \in 0..n /\ ~ReadSoFar(lines, f[x], x)
    OBVIOUS
  <2>4. ReadSoFar(lines, f[0], 0)
    <3>1. PICK none : none = <<>>
      OBVIOUS
    <3>2. none \in Seq(UnitsOf(lines)) /\ Len(none) = 0 /\ 1..0 = {} /\ DOMAIN none = {}
      BY <3>1
    <3>3. TextsOf(none) = Wording(lines, 0)
      BY <3>2 DEF TextsOf, Wording
    <3>4. ~Open(lines, 0)
      BY <3>2 DEF Open
    <3> QED
      BY <1>3, <3>1, <3>2, <3>3, <3>4 DEF ReadSoFar
  <2>5. x \in 1..n /\ x - 1 \in 0..n /\ ~(x <= x - 1)
    BY <1>1, <2>3, <2>4
  <2>6. ReadSoFar(lines, f[x - 1], x - 1)
    BY <2>2, <2>5
  <2>7. ReadSoFar(lines, Texts!Continued(f[x - 1], lines[x]), x)
    BY <1>1, <2>5, <2>6, LineIsRead
  <2> QED
    BY <1>3, <2>3, <2>5, <2>7
<1>5. PICK units : units = Texts!ChatUnits(lines) /\ ReadSoFar(lines, units, n)
  BY <1>1, <1>3, <1>4
<1>6. /\ units \in Seq(UnitsOf(lines)) /\ Flattened(TextsOf(units)) = Flattened(Wording(lines, n))
      /\ \A u \in 1..Len(units) : \A kind \in DOMAIN units[u].facts.ids :
            units[u].facts.ids[kind] \subseteq Texts!Printed(units[u].text, {kind})
  BY <1>5 DEF ReadSoFar
<1> DEFINE owned(i) == \/ lines[i].sort \in {"message", "notice"}
                       \/ /\ lines[i].sort = "other"
                          /\ \E j \in 1..(i - 1) : /\ lines[j].sort = "message"
                                                   /\ \A k \in (j + 1)..(i - 1) : lines[k].sort \in {"other", "blank"}
<1>7. \A i : owned(i) <=> Owns(lines, i)
  <2> SUFFICES ASSUME NEW i PROVE owned(i) <=> Owns(lines, i)
    OBVIOUS
  <2>1. Open(lines, i - 1) <=> \E j \in 1..(i - 1) : /\ lines[j].sort = "message"
                                                     /\ \A k \in (j + 1)..(i - 1) : lines[k].sort \in {"other", "blank"}
    BY Zenon DEF Open
  <2> QED
    BY <2>1, Zenon DEF Owns
<1>8. [i \in DOMAIN lines |-> IF owned(i) THEN <<lines[i].body>> ELSE <<>>] = Wording(lines, n)
  <2> HIDE DEF owned
  <2> QED
    BY <1>1, <1>7 DEF Wording
<1>9. Texts!FlattenSeq([u \in DOMAIN units |-> units[u].text])
        = Texts!FlattenSeq([i \in DOMAIN lines |-> IF owned(i) THEN <<lines[i].body>> ELSE <<>>])
  <2> HIDE DEF owned
  <2> QED
    BY <1>6, <1>8, SameFlat DEF TextsOf
<1>10. \A u \in Texts!ToSet(units) : \A k \in DOMAIN u.facts.ids : u.facts.ids[k] \subseteq Texts!Printed(u.text, {k})
  <2> SUFFICES ASSUME NEW u \in Texts!ToSet(units)
               PROVE  \A k \in DOMAIN u.facts.ids : u.facts.ids[k] \subseteq Texts!Printed(u.text, {k})
    OBVIOUS
  <2>1. PICK i \in DOMAIN units : u = units[i]
    BY DEF Texts!ToSet
  <2>2. i \in 1..Len(units)
    BY <1>6
  <2> QED
    BY <1>6, <2>1, <2>2
<1> QED
  BY <1>5, <1>9, <1>10, Zenon DEF Texts!ChatKeepsWording

-------------------------------------------------------------------------------
\* Names and links

\* Of rows that rules read, one is under no other: a role's strength, the rule's
\* number and the place decide.
LEMMA StrongestIs ==
    ASSUME NEW line, IsList(line), \A i \in DOMAIN line : line[i].kind = "person" => line[i].rule \in Nat,
           NEW p \in {t \in Texts!ToSet(line) : t.kind = "person"}
    PROVE  /\ p.value \in DOMAIN Texts!RolesIn(<<line>>)
           /\ Texts!Strength(Texts!RolesIn(<<line>>)[p.value]) >= Texts!Strength(p.role)
<1> DEFINE text == <<line>>
           people == Texts!OfKind(text, "person")
           person(q) == Texts!At(text, q)
           over(x, q) == \/ Texts!Strength(person(x).role) > Texts!Strength(person(q).role)
                         \/ /\ Texts!Strength(person(x).role) = Texts!Strength(person(q).role)
                            /\ \/ person(x).rule < person(q).rule
                               \/ person(x).rule = person(q).rule /\ Texts!Before(x, q)
           called(name) == {q \in people : person(q).value = name}
           best(name) == CHOOSE x \in called(name) : \A q \in called(name) : ~over(q, x)
<1>1. Texts!RolesIn(text) = [name \in {person(q).value : q \in people} |-> person(best(name)).role]
  BY Zenon DEF Texts!RolesIn
<1> DEFINE K == {k \in DOMAIN line : line[k].kind = "person"}
<1>2. /\ \A q : q \in people <=> \E k \in K : q = <<1, k>>
      /\ \A k : person(<<1, k>>) = line[k]
      /\ DOMAIN line \subseteq Nat
  <2>1. \A q : q \in people <=> q \in Texts!Places(text) /\ person(q).kind = "person"
    BY DEF Texts!OfKind
  <2>2. \A q : q \in Texts!Places(text) <=> \E k \in DOMAIN line : q = <<1, k>>
    BY LineIsText
  <2>3. \A k : person(<<1, k>>) = line[k]
    BY LineIsText
  <2>4. DOMAIN line \subseteq Nat
    BY DEF IsList
  <2> HIDE DEF people, person, text
  <2> QED
    BY <2>1, <2>2, <2>3, <2>4
<1>3. \A k \in K : line[k].rule \in Nat /\ Texts!Strength(line[k].role) \in {0, 1, 2}
  BY DEF Texts!Strength
<1>4. PICK m \in K : line[m] = p
  BY DEF Texts!ToSet
<1> DEFINE C == {k \in K : line[k].value = p.value}
<1>5. /\ \A q : q \in called(p.value) <=> \E k \in C : q = <<1, k>>
      /\ m \in C /\ C \subseteq K /\ C \subseteq Nat
  <2> HIDE DEF K, people, person
  <2>1. \A q : q \in called(p.value) <=> \E k \in C : q = <<1, k>>
    BY <1>2
  <2>2. K \subseteq Nat
    BY <1>2 DEF K
  <2> QED
    BY <1>4, <2>1, <2>2
<1> HIDE DEF K, C, called, people, person, text
<1> DEFINE Weak(k) == 2 - Texts!Strength(line[k].role)
           Ss == {Weak(k) : k \in C}
<1>6. ASSUME NEW k \in C
      PROVE  Weak(k) \in Nat /\ Texts!Strength(line[k].role) = 2 - Weak(k) /\ line[k].rule \in Nat /\ k \in Nat
  <2>1. k \in K /\ k \in Nat
    BY <1>5
  <2>2. PICK w : w = Texts!Strength(line[k].role)
    OBVIOUS
  <2>3. w \in {0, 1, 2} /\ line[k].rule \in Nat
    BY <1>3, <2>1, <2>2
  <2>4. 2 - w \in Nat /\ w = 2 - (2 - w)
    BY <2>3
  <2> QED
    BY <2>1, <2>2, <2>3, <2>4
<1> HIDE DEF Weak
<1>7. PICK s \in Ss : \A x \in Ss : s <= x
  <2>1. Ss # {} /\ Ss \subseteq Nat
    BY <1>5, <1>6
  <2> HIDE DEF Ss
  <2> QED
    BY <2>1, LeastNumber
<1> DEFINE Rs == {line[k].rule : k \in {j \in C : Weak(j) = s}}
<1>8. PICK r \in Rs : \A x \in Rs : r <= x
  <2>1. Rs # {} /\ Rs \subseteq Nat
    BY <1>6, <1>7
  <2> HIDE DEF Rs
  <2> QED
    BY <2>1, LeastNumber
<1> DEFINE Ks == {k \in C : Weak(k) = s /\ line[k].rule = r}
<1>9. PICK c \in Ks : \A x \in Ks : c <= x
  <2>1. Ks # {} /\ Ks \subseteq Nat
    BY <1>5, <1>8
  <2> HIDE DEF Ks
  <2> QED
    BY <2>1, LeastNumber
<1>10. c \in C /\ Weak(c) = s /\ line[c].rule = r
  OBVIOUS
<1>11. ASSUME NEW k \in C PROVE s <= Weak(k) /\ (Weak(k) = s => r <= line[k].rule /\ (line[k].rule = r => c <= k))
  <2>1. s <= Weak(k)
    BY <1>7
  <2>2. Weak(k) = s => r <= line[k].rule
    BY <1>8
  <2>3. Weak(k) = s /\ line[k].rule = r => c <= k
    BY <1>9
  <2> QED
    BY <2>1, <2>2, <2>3
<1> HIDE DEF Ss, Rs, Ks
<1>12. ASSUME NEW q \in called(p.value) PROVE ~over(q, <<1, c>>)
  <2>1. PICK k \in C : q = <<1, k>>
    BY <1>5
  <2>2. person(q) = line[k] /\ person(<<1, c>>) = line[c]
    BY <1>2, <2>1
  <2>3. /\ Weak(k) \in Nat /\ Weak(c) \in Nat /\ Texts!Strength(line[k].role) = 2 - Weak(k)
        /\ Texts!Strength(line[c].role) = 2 - Weak(c) /\ line[k].rule \in Nat /\ line[c].rule \in Nat /\ k \in Nat /\ c \in Nat
    BY <1>6, <1>10
  <2>4. Weak(c) <= Weak(k) /\ (Weak(k) = Weak(c) => line[c].rule <= line[k].rule /\ (line[k].rule = line[c].rule => c <= k))
    BY <1>10, <1>11
  <2>5. ~Texts!Before(q, <<1, c>>) \/ ~(c <= k)
    BY <2>1, <2>3 DEF Texts!Before
  <2> QED
    BY <2>2, <2>3, <2>4, <2>5
<1>13. best(p.value) \in called(p.value) /\ \A q \in called(p.value) : ~over(q, best(p.value))
  <2>1. <<1, c>> \in called(p.value)
    BY <1>5, <1>10
  <2>2. \E x \in called(p.value) : \A q \in called(p.value) : ~over(q, x)
    BY <1>12, <2>1
  <2> HIDE DEF over
  <2> QED
    BY <2>2, Zenon
<1>14. ~over(<<1, m>>, best(p.value))
  BY <1>5, <1>13
<1> HIDE DEF best
<1>15. PICK b \in C : best(p.value) = <<1, b>>
  BY <1>5, <1>13
<1>16. Texts!Strength(person(best(p.value)).role) >= Texts!Strength(p.role)
  <2>1. person(best(p.value)) = line[b] /\ person(<<1, m>>) = p
    BY <1>2, <1>4, <1>15
  <2>2. ~(Texts!Strength(p.role) > Texts!Strength(line[b].role))
    BY <1>14, <2>1
  <2>3. Texts!Strength(p.role) \in {0, 1, 2} /\ Texts!Strength(line[b].role) \in {0, 1, 2}
    BY DEF Texts!Strength
  <2> QED
    BY <2>1, <2>2, <2>3
<1>17. p.value \in {person(q).value : q \in people}
  <2>1. <<1, m>> \in people /\ person(<<1, m>>) = p
    BY <1>2, <1>4
  <2> QED
    BY <2>1
<1> HIDE DEF over
<1>18. Texts!RolesIn(text)[p.value] = person(best(p.value)).role /\ p.value \in DOMAIN Texts!RolesIn(text)
  BY <1>1, <1>17
<1> QED
  BY <1>16, <1>18 DEF text

\* Words of a line that no end of a sentence parts.
Together(line, i, j) == \A k \in DOMAIN line : (i <= k /\ k <= j) \/ (j <= k /\ k <= i) => line[k].kind # "stop"
LinkedAt(line, verb, left, right, i, j, k) ==
    /\ line[i].kind = left /\ line[j].kind = right /\ Together(line, i, j)
    /\ line[k].kind = "verb" /\ line[k].value = verb /\ Together(line, i, k)

\* What a line links, by the places of the ends and of the verb.
LEMMA LinksAre ==
    ASSUME NEW line, NEW verb, NEW left, NEW right, NEW x
    PROVE  x \in Texts!Links(line, verb, left, right)
             <=> \E i, j, k \in DOMAIN line : LinkedAt(line, verb, left, right, i, j, k) /\ x = <<line[i].value, line[j].value>>
<1> DEFINE together(i, j) == \A k \in DOMAIN line : (i <= k /\ k <= j) \/ (j <= k /\ k <= i) => line[k].kind # "stop"
           linked == {p \in (DOMAIN line) \X (DOMAIN line) :
                        /\ line[p[1]].kind = left /\ line[p[2]].kind = right /\ together(p[1], p[2])
                        /\ \E k \in DOMAIN line : line[k].kind = "verb" /\ line[k].value = verb /\ together(p[1], k)}
<1>1. Texts!Links(line, verb, left, right) = {<<line[p[1]].value, line[p[2]].value>> : p \in linked}
  BY Zenon DEF Texts!Links
<1>2. \A i, j : together(i, j) <=> Together(line, i, j)
  BY Zenon DEF Together
<1> HIDE DEF together
<1>3. ASSUME NEW p \in linked, x = <<line[p[1]].value, line[p[2]].value>>
      PROVE  \E i, j, k \in DOMAIN line : LinkedAt(line, verb, left, right, i, j, k) /\ x = <<line[i].value, line[j].value>>
  <2>1. PICK k \in DOMAIN line : line[k].kind = "verb" /\ line[k].value = verb /\ together(p[1], k)
    OBVIOUS
  <2>2. p[1] \in DOMAIN line /\ p[2] \in DOMAIN line /\ line[p[1]].kind = left /\ line[p[2]].kind = right /\ together(p[1], p[2])
    OBVIOUS
  <2>3. LinkedAt(line, verb, left, right, p[1], p[2], k)
    BY <1>2, <2>1, <2>2 DEF LinkedAt
  <2> QED
    BY <1>3, <2>2, <2>3
<1>4. ASSUME NEW i \in DOMAIN line, NEW j \in DOMAIN line, NEW k \in DOMAIN line, LinkedAt(line, verb, left, right, i, j, k),
             x = <<line[i].value, line[j].value>>
      PROVE  x \in {<<line[p[1]].value, line[p[2]].value>> : p \in linked}
  <2>1. <<i, j>> \in linked
    BY <1>2, <1>4 DEF LinkedAt
  <2> QED
    BY <1>4, <2>1
<1> HIDE DEF linked
<1> QED
  BY <1>1, <1>3, <1>4

\* A stretch of a line links what the line links within it.
LEMMA StretchLinks ==
    ASSUME NEW line, NEW n \in Nat, DOMAIN line = 1..n, NEW m \in Nat, NEW d \in Nat, m + d <= n,
           NEW part, DOMAIN part = 1..d, \A k \in 1..d : part[k] = line[m + k],
           NEW verb, NEW left, NEW right
    PROVE  \A i, j, k \in 1..d : LinkedAt(part, verb, left, right, i, j, k) <=> LinkedAt(line, verb, left, right, m + i, m + j, m + k)
<1>1. ASSUME NEW a \in 1..d, NEW b \in 1..d PROVE Together(part, a, b) <=> Together(line, m + a, m + b)
  <2>1. ASSUME Together(part, a, b), NEW h \in 1..n, (m + a <= h /\ h <= m + b) \/ (m + b <= h /\ h <= m + a)
        PROVE  line[h].kind # "stop"
    <3>1. h - m \in 1..d /\ ((a <= h - m /\ h - m <= b) \/ (b <= h - m /\ h - m <= a)) /\ m + (h - m) = h
      BY <2>1
    <3>2. part[h - m].kind # "stop"
      BY <2>1, <3>1 DEF Together
    <3> QED
      BY <3>1, <3>2
  <2>2. ASSUME Together(line, m + a, m + b), NEW h \in 1..d, (a <= h /\ h <= b) \/ (b <= h /\ h <= a)
        PROVE  part[h].kind # "stop"
    <3>1. m + h \in 1..n /\ ((m + a <= m + h /\ m + h <= m + b) \/ (m + b <= m + h /\ m + h <= m + a))
      BY <2>2
    <3>2. line[m + h].kind # "stop"
      BY <2>2, <3>1 DEF Together
    <3> QED
      BY <3>2
  <2> QED
    BY <2>1, <2>2 DEF Together
<1>2. ASSUME NEW i \in 1..d, NEW j \in 1..d, NEW k \in 1..d
      PROVE  LinkedAt(part, verb, left, right, i, j, k) <=> LinkedAt(line, verb, left, right, m + i, m + j, m + k)
  <2>1. part[i] = line[m + i] /\ part[j] = line[m + j] /\ part[k] = line[m + k]
    OBVIOUS
  <2>2. (Together(part, i, j) <=> Together(line, m + i, m + j)) /\ (Together(part, i, k) <=> Together(line, m + i, m + k))
    BY <1>1
  <2> QED
    BY <2>1, <2>2, Zenon DEF LinkedAt
<1> QED
  BY <1>2

\* What a line links its sentences link one by one.
LEMMA SentencesLink ==
    ASSUME NEW line, IsList(line), NEW s \in DOMAIN line, line[s].kind = "stop",
           NEW verb, NEW left, NEW right, left # "stop", right # "stop"
    PROVE  Texts!Links(line, verb, left, right) =
             Texts!Links(SubSeq(line, 1, s - 1), verb, left, right)
                \cup Texts!Links(SubSeq(line, s + 1, Len(line)), verb, left, right)
<1> DEFINE n == Len(line)
<1>1. n \in Nat /\ DOMAIN line = 1..n /\ s \in 1..n
  BY DEF IsList
<1>2. PICK a, b : a = SubSeq(line, 1, s - 1) /\ b = SubSeq(line, s + 1, n)
  OBVIOUS
<1>3. DOMAIN a = 1..(s - 1) /\ (\A k \in 1..(s - 1) : a[k] = line[0 + k])
  BY <1>1, <1>2 DEF IsList
<1>4. DOMAIN b = 1..(n - s) /\ (\A k \in 1..(n - s) : b[k] = line[s + k])
  BY <1>1, <1>2, SMTT(30) DEF IsList
<1> DEFINE In(l, x) == x \in Texts!Links(l, verb, left, right)
           Linked(l, i, j, k) == LinkedAt(l, verb, left, right, i, j, k)
\* Both sentences are stretches of the line.
<1>5. ASSUME NEW m \in Nat, NEW d \in Nat, m + d <= n, NEW part, DOMAIN part = 1..d, \A k \in 1..d : part[k] = line[m + k]
      PROVE  /\ \A x : In(part, x) => In(line, x)
             /\ \A i, j, k \in DOMAIN line :
                    /\ i - m \in 1..d /\ j - m \in 1..d /\ k - m \in 1..d /\ Linked(line, i, j, k)
                    => In(part, <<line[i].value, line[j].value>>)
  <2>1. \A i, j, k \in 1..d : Linked(part, i, j, k) <=> Linked(line, m + i, m + j, m + k)
    <3>1. PICK N \in Nat : N = n
      BY <1>1
    <3>2. DOMAIN line = 1..N /\ m + d <= N
      BY <1>1, <1>5, <3>1
    <3> HIDE DEF n
    <3> QED
      BY <1>5, <3>2, StretchLinks
  <2>2. \A i \in 1..d : m + i \in 1..n /\ part[i] = line[m + i]
    BY <1>1, <1>5
  <2> HIDE DEF Linked
  <2>3. ASSUME NEW x, In(part, x) PROVE In(line, x)
    <3>1. PICK i \in 1..d, j \in 1..d, k \in 1..d : Linked(part, i, j, k) /\ x = <<part[i].value, part[j].value>>
      <4>1. \E i, j, k \in DOMAIN part : LinkedAt(part, verb, left, right, i, j, k) /\ x = <<part[i].value, part[j].value>>
        BY <2>3, LinksAre
      <4> QED
        BY <1>5, <4>1 DEF Linked
    <3>2. PICK u, v, w : u = m + i /\ v = m + j /\ w = m + k
      OBVIOUS
    <3>3. Linked(line, u, v, w) /\ u \in DOMAIN line /\ v \in DOMAIN line /\ w \in DOMAIN line
      BY <1>1, <2>1, <2>2, <3>1, <3>2
    <3>4. x = <<line[u].value, line[v].value>>
      BY <2>2, <3>1, <3>2
    <3> QED
      BY <3>3, <3>4, LinksAre DEF Linked
  <2>4. ASSUME NEW i \in DOMAIN line, NEW j \in DOMAIN line, NEW k \in DOMAIN line,
               i - m \in 1..d, j - m \in 1..d, k - m \in 1..d, Linked(line, i, j, k)
        PROVE  In(part, <<line[i].value, line[j].value>>)
    <3>1. PICK u, v, w : u = i - m /\ v = j - m /\ w = k - m
      OBVIOUS
    <3>2. i = m + u /\ j = m + v /\ k = m + w
      BY <1>1, <3>1
    <3>3. u \in 1..d /\ v \in 1..d /\ w \in 1..d
      BY <2>4, <3>1
    <3>4. Linked(part, u, v, w) /\ part[u] = line[i] /\ part[v] = line[j]
      BY <2>1, <2>2, <2>4, <3>2, <3>3, Zenon
    <3>5. u \in DOMAIN part /\ v \in DOMAIN part /\ w \in DOMAIN part
      BY <1>5, <3>3, Zenon
    <3> QED
      BY <3>4, <3>5, LinksAre, ZenonT(40) DEF Linked
  <2> QED
    BY <2>3, <2>4
<1>6. \A x : In(a, x) => In(line, x)
  <2>1. PICK m \in Nat, d \in Nat : m = 0 /\ d = s - 1
    BY <1>1
  <2>2. m + d <= n
    BY <1>1, <2>1
  <2>3. DOMAIN a = 1..d /\ \A k \in 1..d : a[k] = line[m + k]
    BY <1>3, <2>1
  <2> HIDE DEF In, Linked
  <2> QED
    BY <1>5, <2>2, <2>3, Zenon
<1>7. \A x : In(b, x) => In(line, x)
  <2>1. PICK m \in Nat, d \in Nat : m = s /\ d = n - s
    BY <1>1
  <2>2. m + d <= n
    BY <1>1, <2>1
  <2>3. DOMAIN b = 1..d /\ \A k \in 1..d : b[k] = line[m + k]
    BY <1>4, <2>1
  <2> HIDE DEF In, Linked
  <2> QED
    BY <1>5, <2>2, <2>3, Zenon
<1>8. ASSUME NEW i \in DOMAIN line, NEW j \in DOMAIN line, NEW k \in DOMAIN line, Linked(line, i, j, k)
      PROVE  In(a, <<line[i].value, line[j].value>>) \/ In(b, <<line[i].value, line[j].value>>)
  <2>1. /\ Together(line, i, j) /\ Together(line, i, k)
        /\ line[i].kind # "stop" /\ line[j].kind # "stop" /\ line[k].kind # "stop"
    BY <1>8 DEF LinkedAt
  <2>2. s # i /\ s # j /\ s # k
    BY <2>1
  <2>3. ~(i <= s /\ s <= j) /\ ~(j <= s /\ s <= i) /\ ~(i <= s /\ s <= k) /\ ~(k <= s /\ s <= i)
    BY <1>1, <2>1 DEF Together
  <2>4. i \in 1..n /\ j \in 1..n /\ k \in 1..n
    BY <1>1
  <2> HIDE DEF n, In, Linked
  <2>5. CASE i < s
    <3>1. PICK m \in Nat, d \in Nat : m = 0 /\ d = s - 1
      BY <1>1
    <3>2. j < s /\ k < s
      BY <1>1, <2>2, <2>3, <2>4, <2>5
    <3>3. i - m \in 1..d /\ j - m \in 1..d /\ k - m \in 1..d /\ m + d <= n
      BY <1>1, <2>4, <2>5, <3>1, <3>2
    <3>4. DOMAIN a = 1..d /\ \A q \in 1..d : a[q] = line[m + q]
      BY <1>3, <3>1
    <3>5. \A x, y, z \in DOMAIN line :
             /\ x - m \in 1..d /\ y - m \in 1..d /\ z - m \in 1..d /\ Linked(line, x, y, z)
             => In(a, <<line[x].value, line[y].value>>)
      BY <1>5, <3>3, <3>4, Zenon
    <3> QED
      BY <1>8, <3>3, <3>5, Zenon
  <2>6. CASE s < i
    <3>1. PICK m \in Nat, d \in Nat : m = s /\ d = n - s
      BY <1>1
    <3>2. s < j /\ s < k
      BY <1>1, <2>2, <2>3, <2>4, <2>6
    <3>3. i - m \in 1..d /\ j - m \in 1..d /\ k - m \in 1..d /\ m + d <= n
      BY <1>1, <2>4, <2>6, <3>1, <3>2
    <3>4. DOMAIN b = 1..d /\ \A q \in 1..d : b[q] = line[m + q]
      BY <1>4, <3>1
    <3>5. \A x, y, z \in DOMAIN line :
             /\ x - m \in 1..d /\ y - m \in 1..d /\ z - m \in 1..d /\ Linked(line, x, y, z)
             => In(b, <<line[x].value, line[y].value>>)
      BY <1>5, <3>3, <3>4, Zenon
    <3> QED
      BY <1>8, <3>3, <3>5, Zenon
  <2> QED
    BY <1>1, <2>2, <2>4, <2>5, <2>6
<1>9. ASSUME NEW x, In(line, x) PROVE In(a, x) \/ In(b, x)
  <2>1. PICK i \in DOMAIN line, j \in DOMAIN line, k \in DOMAIN line : Linked(line, i, j, k) /\ x = <<line[i].value, line[j].value>>
    BY <1>9, LinksAre
  <2> HIDE DEF In, Linked
  <2> QED
    BY <1>8, <2>1
<1> QED
  BY <1>2, <1>6, <1>7, <1>9

\* A name is called by the strongest thing its line calls it; a link's two ends are
\* facts of its unit, and what a line links its sentences link one by one.
THEOREM NamesAndLinks ==
    ASSUME NEW line, IsList(line), \A i \in DOMAIN line : line[i].kind = "person" => line[i].rule \in Nat
    PROVE  Texts!NamesAreStated(line)
<1> DEFINE facts == Texts!IdentifierFacts(<<line>>)
<1>1. /\ facts.roles = Texts!RolesIn(<<line>>)
      /\ facts.ids["vehicle"] = Texts!Printed(<<line>>, {"vehicle"})
      /\ facts.ids["place"] = Texts!Printed(<<line>>, {"place"})
  <2>1. "vehicle" \in Texts!Mentions \ {"reference", "device"} /\ "place" \in Texts!Mentions \ {"reference", "device"}
    BY DEF Texts!Mentions
  <2> QED
    BY <2>1 DEF Texts!IdentifierFacts
<1> HIDE DEF facts
<1>2. \A p \in {t \in Texts!ToSet(line) : t.kind = "person"} : Texts!Strength(facts.roles[p.value]) >= Texts!Strength(p.role)
  BY <1>1, StrongestIs
<1>3. \A k \in DOMAIN line : line[k].kind = "person" => line[k].value \in DOMAIN facts.roles
  <2>1. \A k \in DOMAIN line : line[k].kind = "person" => line[k] \in {t \in Texts!ToSet(line) : t.kind = "person"}
    BY DEF Texts!ToSet
  <2> QED
    BY <1>1, <2>1, StrongestIs
<1>4. \A k \in DOMAIN line : /\ line[k].kind = "vehicle" => line[k].value \in facts.ids["vehicle"]
                             /\ line[k].kind = "place" => line[k].value \in facts.ids["place"]
  <2>1. \A k \in DOMAIN line : line[k] \in Texts!Tokens(<<line>>)
    BY LineIsText
  <2> QED
    BY <1>1, <2>1 DEF Texts!Printed
<1>5. ASSUME NEW x \in Texts!StatedLinks(line)
      PROVE  /\ x[1] \in DOMAIN facts.roles \cup facts.ids["vehicle"]
             /\ x[2] \in facts.ids["vehicle"] \cup facts.ids["place"]
  <2>1. \E v, l, r : x \in Texts!Links(line, v, l, r) /\ l \in {"person", "vehicle"} /\ r \in {"vehicle", "place"}
    BY DEF Texts!StatedLinks
  <2>2. PICK v, l, r : x \in Texts!Links(line, v, l, r) /\ l \in {"person", "vehicle"} /\ r \in {"vehicle", "place"}
    BY <2>1
  <2>3. PICK i \in DOMAIN line, j \in DOMAIN line, k \in DOMAIN line : LinkedAt(line, v, l, r, i, j, k) /\ x = <<line[i].value, line[j].value>>
    BY <2>2, LinksAre
  <2>4. line[i].kind = l /\ line[j].kind = r /\ x[1] = line[i].value /\ x[2] = line[j].value
    BY <2>3 DEF LinkedAt
  <2> QED
    BY <1>3, <1>4, <2>2, <2>4
<1>6. ASSUME NEW i \in DOMAIN line, line[i].kind = "stop"
      PROVE  Texts!StatedLinks(line) = Texts!StatedLinks(SubSeq(line, 1, i - 1)) \cup Texts!StatedLinks(SubSeq(line, i + 1, Len(line)))
  <2> DEFINE Apart(v, l, r) == Texts!Links(line, v, l, r) =
               Texts!Links(SubSeq(line, 1, i - 1), v, l, r) \cup Texts!Links(SubSeq(line, i + 1, Len(line)), v, l, r)
  <2>1. Apart("drives", "person", "vehicle") /\ Apart("present", "person", "place") /\ Apart("present", "vehicle", "place")
    BY <1>6, SentencesLink
  <2> QED
    BY <2>1 DEF Texts!StatedLinks
<1> QED
  BY <1>2, <1>5, <1>6 DEF Texts!NamesAreStated, facts

====================================================================================
