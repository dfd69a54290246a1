----------------------------- MODULE CustodyProofs -----------------------------
(***************************************************************************)
(* Proofs about MerkleTree: a commitment to a list of files, however long,   *)
(* holds exactly for it and for its members. About ReportSealing: what the   *)
(* tables and the workers hold, that a report that succeeded verifies and is *)
(* never touched again, that its seal is of what was printed, and that its   *)
(* receipt proves a file exactly if it was in the case. And about            *)
(* SharedLedger: what its tables hold, that a case has one row per           *)
(* identifier, that the verification tells a withdrawal and, publications    *)
(* coming one at a time, nothing else, and that the ledger implements the    *)
(* notice board.                                                             *)
(***************************************************************************)
EXTENDS ReportSealing, SharedLedger, WellFoundedInduction, TLAPS

\* A set of numbers that is not empty has a least one.
LEMMA LeastNumber ==
    ASSUME NEW T, T \subseteq Nat, T # {}
    PROVE  \E x \in T : \A y \in T : x <= y
<1> DEFINE Less == OpToRel(<, Nat)
<1>1. PICK x \in T : \A y \in T : <<y, x>> \notin Less
  <2>1. IsWellFoundedOn(Less, Nat)
    BY NatLessThanWellFounded
  <2> HIDE DEF Less
  <2> QED
    BY <2>1, WFMin
<1>2. \A y \in T : ~(y < x)
  BY <1>1 DEF OpToRel
<1> QED
  BY <1>2

IsList(s) == \E S : s \in Seq(S)

\* The level above a list is a list, half as long; its members are pairs of
\* neighbours and, where the number is odd, the last of the level.
LEMMA AboveIs ==
    ASSUME NEW level, IsList(level)
    PROVE  /\ IsList(Above(level)) /\ Len(level) \in Nat /\ Len(Above(level)) = (Len(level) + 1) \div 2
           /\ \A i \in 1..((Len(level) + 1) \div 2) :
                Above(level)[i] = IF 2 * i <= Len(level) THEN Pair(level[2 * i - 1], level[2 * i]) ELSE level[2 * i - 1]
<1>1. PICK S : level \in Seq(S)
  BY DEF IsList
<1> DEFINE n == (Len(level) + 1) \div 2
           node(i) == IF 2 * i <= Len(level) THEN Pair(level[2 * i - 1], level[2 * i]) ELSE level[2 * i - 1]
           T == {node(i) : i \in 1..n}
<1>2. Len(level) \in Nat /\ n \in Nat
  BY <1>1
<1>3. Above(level) = [i \in 1..n |-> node(i)]
  BY DEF Above
<1> HIDE DEF node, n
<1>4. Above(level) \in [1..n -> T]
  BY <1>3
<1> HIDE DEF T
<1>5. Above(level) \in Seq(T) /\ Len(Above(level)) = n
  BY <1>2, <1>4
<1>6. \A i \in 1..n : Above(level)[i] = node(i)
  BY <1>3
<1> QED
  BY <1>2, <1>5, <1>6 DEF IsList, n, node

TowerBody(t, k, leaves) == [n \in 0..k |-> IF n = 0 THEN leaves ELSE Above(t[n - 1])]

LEMMA TowerExists ==
    ASSUME NEW leaves, NEW k \in Nat
    PROVE  \E t : t = TowerBody(t, k, leaves)
<1> DEFINE Bad == {n \in Nat : ~\E t : t = TowerBody(t, n, leaves)}
<1>1. Bad = {}
  <2> SUFFICES ASSUME Bad # {} PROVE FALSE
    OBVIOUS
  <2>1. PICK x \in Bad : \A y \in Bad : x <= y
    <3>1. Bad \subseteq Nat
      OBVIOUS
    <3> HIDE DEF Bad
    <3> QED
      BY <3>1, LeastNumber
  <2>2. x \in Nat /\ ~\E t : t = TowerBody(t, x, leaves)
    OBVIOUS
  <2>3. CASE x = 0
    <3>1. PICK t : t = [n \in 0..0 |-> leaves]
      OBVIOUS
    <3>2. t = TowerBody(t, 0, leaves)
      BY <3>1 DEF TowerBody
    <3> QED
      BY <2>2, <2>3, <3>2
  <2>4. CASE x # 0
    <3>1. x - 1 \in Nat /\ x - 1 \notin Bad
      <4>1. x - 1 \in Nat /\ ~(x <= x - 1)
        BY <2>2, <2>4
      <4> HIDE DEF Bad
      <4> QED
        BY <2>1, <4>1
    <3>2. PICK g : g = TowerBody(g, x - 1, leaves)
      BY <3>1
    <3> HIDE DEF Bad
    <3>3. PICK t : t = [n \in 0..x |-> IF n = 0 THEN leaves ELSE Above(g[n - 1])]
      OBVIOUS
    <3>4. \A n \in 0..(x - 1) : t[n] = g[n]
      <4>1. \A n \in 0..(x - 1) : g[n] = IF n = 0 THEN leaves ELSE Above(g[n - 1])
        <5>1. \A f : \A n \in 0..(x - 1) : TowerBody(f, x - 1, leaves)[n] = IF n = 0 THEN leaves ELSE Above(f[n - 1])
          BY DEF TowerBody
        <5> QED
          BY <3>2, <5>1
      <4>2. \A n \in 0..(x - 1) : n \in 0..x
        BY <2>2, <3>1
      <4> QED
        BY <3>3, <4>1, <4>2, Zenon
    <3>5. \A n \in 0..x : n = 0 \/ n - 1 \in 0..(x - 1)
      BY <2>2, <3>1
    <3>6. t = [n \in 0..x |-> IF n = 0 THEN leaves ELSE Above(t[n - 1])]
      <4>1. \A n \in 0..x : (IF n = 0 THEN leaves ELSE Above(g[n - 1])) = IF n = 0 THEN leaves ELSE Above(t[n - 1])
        BY <3>4, <3>5, Zenon
      <4> QED
        BY <3>3, <4>1, Zenon
    <3> QED
      BY <2>2, <3>6 DEF TowerBody
  <2> QED
    BY <2>3, <2>4
<1> QED
  BY <1>1

\* The levels of a tree: each a list, the leaves first, each but the last of
\* more than one node and below the next, the last of one.
Tower(L, leaves) ==
    /\ Len(L) \in Nat /\ Len(L) >= 1 /\ IsList(L) /\ L[1] = leaves
    /\ \A k \in 1..Len(L) : IsList(L[k])
    /\ \A k \in 1..(Len(L) - 1) : Len(L[k]) > 1 /\ L[k + 1] = Above(L[k])
    /\ Len(L[Len(L)]) = 1

LEMMA LevelsAre ==
    ASSUME NEW leaves, IsList(leaves), leaves # <<>>
    PROVE  Tower(Levels(leaves), leaves)
<1> DEFINE N == Len(leaves)
           level == CHOOSE t : t = TowerBody(t, N, leaves)
           Low(n) == Len(level[n]) <= 1 /\ \A m \in 0..(n - 1) : Len(level[m]) > 1
           height == CHOOSE n \in 0..N : Low(n)
<1>1. N \in Nat /\ N >= 1
  BY DEF IsList
<1>2. level = TowerBody(level, N, leaves)
  <2>1. \E t : t = TowerBody(t, N, leaves)
    BY <1>1, TowerExists
  <2> QED
    BY <2>1
<1>3. Levels(leaves) = [k \in 1..(height + 1) |-> level[k - 1]]
  BY Zenon DEF Levels, TowerBody
<1> HIDE DEF level
<1>4. \A n \in 0..N : level[n] = IF n = 0 THEN leaves ELSE Above(level[n - 1])
  <2>1. \A f : \A n \in 0..N : TowerBody(f, N, leaves)[n] = IF n = 0 THEN leaves ELSE Above(f[n - 1])
    BY DEF TowerBody
  <2> QED
    BY <1>2, <2>1, Zenon
<1>5. level[0] = leaves /\ \A n \in 1..N : level[n] = Above(level[n - 1])
  <2>1. 0 \in 0..N /\ \A n \in 1..N : n \in 0..N /\ n # 0
    BY <1>1
  <2> QED
    BY <1>4, <2>1
<1> DEFINE Good(n) == IsList(level[n]) /\ Len(level[n]) \in Nat /\ Len(level[n]) >= 1
                      /\ (Len(level[n]) + n <= N \/ Len(level[n]) = 1)
<1>6. \A n \in 0..N : Good(n)
  <2> DEFINE Bad == {n \in 0..N : ~Good(n)}
  <2> SUFFICES ASSUME Bad # {} PROVE FALSE
    OBVIOUS
  <2>1. PICK x \in Bad : \A y \in Bad : x <= y
    <3>1. Bad \subseteq Nat
      BY <1>1
    <3> HIDE DEF Bad
    <3> QED
      BY <3>1, LeastNumber
  <2>2. x \in 0..N /\ ~Good(x)
    OBVIOUS
  <2>3. x # 0
    BY <1>1, <1>5, <2>2
  <2>4. x \in 1..N /\ x - 1 \in 0..N /\ ~(x <= x - 1)
    BY <1>1, <2>2, <2>3
  <2>5. Good(x - 1)
    <3>1. x - 1 \notin Bad
      <4> HIDE DEF Bad
      <4> QED
        BY <2>1, <2>4
    <3> QED
      BY <2>4, <3>1
  <2>6. level[x] = Above(level[x - 1])
    BY <1>5, <2>4
  <2> HIDE DEF Bad
  <2>7. /\ IsList(Above(level[x - 1])) /\ Len(level[x - 1]) \in Nat
        /\ Len(Above(level[x - 1])) = (Len(level[x - 1]) + 1) \div 2
    BY <2>5, AboveIs
  <2>8. Len(level[x]) = (Len(level[x - 1]) + 1) \div 2
    BY <2>6, <2>7
  <2> DEFINE a == Len(level[x - 1])
             c == Len(level[x])
  <2>9. a \in Nat /\ a >= 1 /\ (a + (x - 1) <= N \/ a = 1) /\ c = (a + 1) \div 2
    BY <2>5, <2>7, <2>8
  <2> HIDE DEF a, c
  <2>10. c \in Nat /\ c >= 1 /\ (c + x <= N \/ c = 1)
    BY <1>1, <2>4, <2>9
  <2> QED
    BY <2>2, <2>6, <2>7, <2>10 DEF a, c
<1>7. \E n \in 0..N : Low(n)
  <2> DEFINE Ends == {n \in 0..N : Len(level[n]) <= 1}
  <2>1. Ends # {} /\ Ends \subseteq Nat
    <3>1. N \in 0..N
      BY <1>1
    <3>2. Good(N)
      BY <1>6, <3>1
    <3>3. \A a : a \in Nat /\ a >= 1 /\ (a + N <= N \/ a = 1) => a = 1
      BY <1>1
    <3>5. Len(level[N]) <= 1
      BY <3>2, <3>3
    <3>4. N \in Ends
      BY <3>1, <3>5
    <3> QED
      BY <1>1, <3>4
  <2>2. PICK n \in Ends : \A y \in Ends : n <= y
    <3> HIDE DEF Ends
    <3> QED
      BY <2>1, LeastNumber
  <2>3. n \in 0..N /\ Len(level[n]) <= 1
    OBVIOUS
  <2>4. ASSUME NEW m \in 0..(n - 1) PROVE Len(level[m]) > 1
    <3>1. m \in 0..N /\ ~(n <= m)
      BY <1>1, <2>3
    <3>2. m \notin Ends
      <4> HIDE DEF Ends
      <4> QED
        BY <2>2, <3>1
    <3>3. Good(m)
      BY <1>6, <3>1
    <3> QED
      BY <3>1, <3>2, <3>3
  <2> QED
    BY <2>3, <2>4
<1>8. height \in 0..N /\ Low(height)
  <2> HIDE DEF Low
  <2> QED
    BY <1>7
<1> DEFINE h == height
           L == Levels(leaves)
           T == {level[k - 1] : k \in 1..(h + 1)}
<1>9. h \in Nat /\ h <= N /\ Low(h)
  BY <1>1, <1>8
<1>10. L = [k \in 1..(h + 1) |-> level[k - 1]]
  BY <1>3
<1> HIDE DEF height, h, L
<1>11. L \in [1..(h + 1) -> T]
  BY <1>10
<1>12. IsList(L) /\ Len(L) = h + 1
  <2> HIDE DEF T
  <2>1. L \in Seq(T) /\ Len(L) = h + 1
    BY <1>9, <1>11
  <2> QED
    BY <2>1 DEF IsList
<1>13. \A k \in 1..(h + 1) : L[k] = level[k - 1] /\ k - 1 \in 0..N
  BY <1>1, <1>9, <1>10
<1>14. L[1] = leaves /\ \A k \in 1..(h + 1) : IsList(L[k])
  <2>1. 1 \in 1..(h + 1) /\ 1 - 1 = 0
    BY <1>9
  <2> QED
    BY <1>5, <1>6, <1>13, <2>1
<1>15. ASSUME NEW k \in 1..h PROVE Len(L[k]) > 1 /\ L[k + 1] = Above(L[k])
  <2>1. k \in 1..(h + 1) /\ k + 1 \in 1..(h + 1) /\ k - 1 \in 0..(h - 1) /\ k \in 1..N /\ (k + 1) - 1 = k
    BY <1>1, <1>9
  <2>2. L[k] = level[k - 1] /\ L[k + 1] = level[k]
    BY <1>13, <2>1
  <2> QED
    BY <1>5, <1>9, <2>1, <2>2
<1>16. Len(L[h + 1]) = 1
  <2>1. h + 1 \in 1..(h + 1) /\ h \in 0..N /\ (h + 1) - 1 = h
    BY <1>1, <1>9
  <2>2. L[h + 1] = level[h] /\ Good(h)
    BY <1>6, <1>13, <2>1
  <2>3. Len(level[h]) <= 1 /\ Len(level[h]) \in Nat /\ Len(level[h]) >= 1
    BY <1>9, <2>2
  <2>4. \A a : a \in Nat /\ a >= 1 /\ a <= 1 => a = 1
    OBVIOUS
  <2>5. Len(level[h]) = 1
    BY <2>3, <2>4
  <2> QED
    BY <2>2, <2>5, Zenon
<1>17. (h + 1) - 1 = h /\ h + 1 \in Nat /\ h + 1 >= 1
  BY <1>9
<1> HIDE DEF Low, Good
<1>18. Tower(L, leaves)
  BY <1>12, <1>14, <1>15, <1>16, <1>17 DEF Tower
<1> QED
  BY <1>18 DEF L

LEMMA MaxIs ==
    ASSUME NEW n \in Nat, NEW T, T \subseteq 1..n, n \in T
    PROVE  Max(T) = n
<1> DEFINE Top(x) == x \in T /\ \A y \in T : x >= y
<1>1. \A y \in T : y \in Nat /\ y <= n
  OBVIOUS
<1>2. Top(n)
  BY <1>1
<1>3. \A x : Top(x) => x = n
  BY <1>1
<1>4. Max(T) = CHOOSE x : Top(x)
  BY Zenon DEF Max
<1> HIDE DEF Top
<1> QED
  BY <1>2, <1>3, <1>4

ClimbBody(f, n, b, s) ==
    [T \in SUBSET (1..n) |-> IF T = {} THEN b ELSE Climb(f[T \ {Max(T)}], s[Max(T)])]

Climbed(b, s) == FoldLeft(Climb, b, s)
Climbs(f, b, s) ==
    f[0] = b /\ (\A i \in 1..Len(s) : f[i] = Climb(f[i - 1], s[i])) /\ Climbed(b, s) = f[Len(s)]

\* Folding with Climb goes through a list place by place.
LEMMA ClimbFolds ==
    ASSUME NEW b, NEW s, IsList(s)
    PROVE  \E f : Climbs(f, b, s)
<1>1. Len(s) \in Nat /\ DOMAIN s = 1..Len(s)
  BY DEF IsList
<1> DEFINE Bad == {n \in Nat : ~\E f : f = ClimbBody(f, n, b, s)}
<1>2. Bad = {}
  <2> SUFFICES ASSUME Bad # {} PROVE FALSE
    OBVIOUS
  <2>1. PICK n \in Bad : \A y \in Bad : n <= y
    <3>1. Bad \subseteq Nat
      OBVIOUS
    <3> HIDE DEF Bad
    <3> QED
      BY <3>1, LeastNumber
  <2>2. n \in Nat /\ ~\E f : f = ClimbBody(f, n, b, s)
    OBVIOUS
  <2>3. CASE n = 0
    <3>1. PICK f : f = [T \in SUBSET (1..0) |-> b]
      OBVIOUS
    <3>2. \A T \in SUBSET (1..0) : T = {}
      OBVIOUS
    <3>3. f = ClimbBody(f, 0, b, s)
      BY <3>1, <3>2, Zenon DEF ClimbBody
    <3> QED
      BY <2>2, <2>3, <3>3
  <2>4. CASE n # 0
    <3>1. n - 1 \in Nat /\ n - 1 \notin Bad
      <4>1. n - 1 \in Nat /\ ~(n <= n - 1)
        BY <2>2, <2>4
      <4> HIDE DEF Bad
      <4> QED
        BY <2>1, <4>1
    <3>2. PICK g : g = ClimbBody(g, n - 1, b, s)
      BY <3>1
    <3> HIDE DEF Bad
    <3> DEFINE Of(f, T) == IF T = {} THEN b ELSE Climb(f[T \ {Max(T)}], s[Max(T)])
    <3>3. PICK f : f = [T \in SUBSET (1..n) |-> IF n \in T THEN Climb(g[T \ {n}], s[n]) ELSE g[T]]
      OBVIOUS
    <3>4. \A T \in SUBSET (1..n) : T \ {n} \in SUBSET (1..(n - 1)) /\ (n \notin T => T \in SUBSET (1..(n - 1)))
      BY <2>2
    <3>5. \A T \in SUBSET (1..(n - 1)) : T \in SUBSET (1..n) /\ n \notin T
      BY <2>2, <2>4
    <3>6. \A T \in SUBSET (1..(n - 1)) : f[T] = g[T]
      BY <3>3, <3>5, Zenon
    <3>7. \A T \in SUBSET (1..(n - 1)) : g[T] = Of(g, T)
      <4>1. \A k : \A T \in SUBSET (1..(n - 1)) : ClimbBody(k, n - 1, b, s)[T] = Of(k, T)
        BY DEF ClimbBody
      <4> QED
        BY <3>2, <4>1, Zenon
    <3>8. ASSUME NEW T \in SUBSET (1..n) PROVE f[T] = Of(f, T)
      <4>1. CASE n \in T
        <5>1. Max(T) = n
          BY <2>2, <4>1, MaxIs
        <5>2. f[T] = Climb(g[T \ {n}], s[n])
          BY <3>3, <4>1
        <5>3. f[T \ {n}] = g[T \ {n}]
          BY <3>4, <3>6
        <5>4. T # {}
          BY <4>1
        <5> QED
          BY <5>1, <5>2, <5>3, <5>4, Zenon
      <4>2. CASE n \notin T
        <5>1. T \in SUBSET (1..(n - 1)) /\ f[T] = g[T]
          BY <3>4, <3>6, <4>2
        <5>2. T # {} => T \ {Max(T)} \in SUBSET (1..(n - 1))
          BY <5>1
        <5>3. T # {} => f[T \ {Max(T)}] = g[T \ {Max(T)}]
          BY <3>6, <5>2
        <5> QED
          BY <3>7, <5>1, <5>3, Zenon
      <4> QED
        BY <4>1, <4>2
    <3>9. f = [T \in SUBSET (1..n) |-> f[T]]
      BY <3>3
    <3>10. f = ClimbBody(f, n, b, s)
      BY <3>8, <3>9, Zenon DEF ClimbBody
    <3> QED
      BY <2>2, <3>10
  <2> QED
    BY <2>3, <2>4
<1> DEFINE iter == CHOOSE f : f = ClimbBody(f, Len(s), b, s)
<1>3. iter = ClimbBody(iter, Len(s), b, s)
  <2>1. \E f : f = ClimbBody(f, Len(s), b, s)
    BY <1>1, <1>2
  <2> QED
    BY <2>1
<1>4. Climbed(b, s) = iter[1..Len(s)]
  BY <1>1, Zenon DEF Climbed, FoldLeft, MapThenFoldSet, ClimbBody
<1> HIDE DEF iter
<1>5. \A T \in SUBSET (1..Len(s)) : iter[T] = IF T = {} THEN b ELSE Climb(iter[T \ {Max(T)}], s[Max(T)])
  <2>1. \A k : \A T \in SUBSET (1..Len(s)) :
            ClimbBody(k, Len(s), b, s)[T] = IF T = {} THEN b ELSE Climb(k[T \ {Max(T)}], s[Max(T)])
    BY DEF ClimbBody
  <2> QED
    BY <1>3, <2>1, Zenon
<1>6. PICK f : f = [i \in 0..Len(s) |-> iter[1..i]]
  OBVIOUS
<1>7. f[0] = b
  <2>1. 0 \in 0..Len(s) /\ 1..0 = {} /\ {} \in SUBSET (1..Len(s))
    BY <1>1
  <2>2. f[0] = iter[{}]
    BY <1>6, <2>1
  <2> QED
    BY <1>5, <2>1, <2>2
<1>8. ASSUME NEW i \in 1..Len(s) PROVE f[i] = Climb(f[i - 1], s[i])
  <2>1. i \in Nat /\ i >= 1 /\ i \in 0..Len(s) /\ i - 1 \in 0..Len(s)
    BY <1>1
  <2>2. (1..i) \in SUBSET (1..Len(s)) /\ 1..i # {} /\ (1..i) \ {i} = 1..(i - 1)
    <3>1. 1..i \subseteq 1..Len(s) /\ i \in 1..i
      BY <1>1, <2>1
    <3>2. (1..i) \ {i} = 1..(i - 1)
      BY <2>1
    <3> QED
      BY <3>1, <3>2
  <2>3. Max(1..i) = i
    BY <2>1, MaxIs
  <2>4. iter[1..i] = Climb(iter[1..(i - 1)], s[i])
    BY <1>5, <2>2, <2>3
  <2> QED
    BY <1>6, <2>1, <2>4
<1>9. f[Len(s)] = iter[1..Len(s)]
  BY <1>1, <1>6
<1>10. Climbs(f, b, s)
  BY <1>4, <1>7, <1>8, <1>9 DEF Climbs
<1> QED
  BY <1>10

RiseBody(f, n, b, s) ==
    [T \in SUBSET (1..n) |-> IF T = {} THEN b ELSE Rise(f[T \ {Max(T)}], s[Max(T)])]

Risen(b, s) == FoldLeft(Rise, b, s)
Rises(f, b, s) ==
    f[0] = b /\ (\A i \in 1..Len(s) : f[i] = Rise(f[i - 1], s[i])) /\ Risen(b, s) = f[Len(s)]

\* Folding with Rise goes through a list place by place.
LEMMA RiseFolds ==
    ASSUME NEW b, NEW s, IsList(s)
    PROVE  \E f : Rises(f, b, s)
<1>1. Len(s) \in Nat /\ DOMAIN s = 1..Len(s)
  BY DEF IsList
<1> DEFINE Bad == {n \in Nat : ~\E f : f = RiseBody(f, n, b, s)}
<1>2. Bad = {}
  <2> SUFFICES ASSUME Bad # {} PROVE FALSE
    OBVIOUS
  <2>1. PICK n \in Bad : \A y \in Bad : n <= y
    <3>1. Bad \subseteq Nat
      OBVIOUS
    <3> HIDE DEF Bad
    <3> QED
      BY <3>1, LeastNumber
  <2>2. n \in Nat /\ ~\E f : f = RiseBody(f, n, b, s)
    OBVIOUS
  <2>3. CASE n = 0
    <3>1. PICK f : f = [T \in SUBSET (1..0) |-> b]
      OBVIOUS
    <3>2. \A T \in SUBSET (1..0) : T = {}
      OBVIOUS
    <3>3. f = RiseBody(f, 0, b, s)
      BY <3>1, <3>2, Zenon DEF RiseBody
    <3> QED
      BY <2>2, <2>3, <3>3
  <2>4. CASE n # 0
    <3>1. n - 1 \in Nat /\ n - 1 \notin Bad
      <4>1. n - 1 \in Nat /\ ~(n <= n - 1)
        BY <2>2, <2>4
      <4> HIDE DEF Bad
      <4> QED
        BY <2>1, <4>1
    <3>2. PICK g : g = RiseBody(g, n - 1, b, s)
      BY <3>1
    <3> HIDE DEF Bad
    <3> DEFINE Of(f, T) == IF T = {} THEN b ELSE Rise(f[T \ {Max(T)}], s[Max(T)])
    <3>3. PICK f : f = [T \in SUBSET (1..n) |-> IF n \in T THEN Rise(g[T \ {n}], s[n]) ELSE g[T]]
      OBVIOUS
    <3>4. \A T \in SUBSET (1..n) : T \ {n} \in SUBSET (1..(n - 1)) /\ (n \notin T => T \in SUBSET (1..(n - 1)))
      BY <2>2
    <3>5. \A T \in SUBSET (1..(n - 1)) : T \in SUBSET (1..n) /\ n \notin T
      BY <2>2, <2>4
    <3>6. \A T \in SUBSET (1..(n - 1)) : f[T] = g[T]
      BY <3>3, <3>5, Zenon
    <3>7. \A T \in SUBSET (1..(n - 1)) : g[T] = Of(g, T)
      <4>1. \A k : \A T \in SUBSET (1..(n - 1)) : RiseBody(k, n - 1, b, s)[T] = Of(k, T)
        BY DEF RiseBody
      <4> QED
        BY <3>2, <4>1, Zenon
    <3>8. ASSUME NEW T \in SUBSET (1..n) PROVE f[T] = Of(f, T)
      <4>1. CASE n \in T
        <5>1. Max(T) = n
          BY <2>2, <4>1, MaxIs
        <5>2. f[T] = Rise(g[T \ {n}], s[n])
          BY <3>3, <4>1
        <5>3. f[T \ {n}] = g[T \ {n}]
          BY <3>4, <3>6
        <5>4. T # {}
          BY <4>1
        <5> QED
          BY <5>1, <5>2, <5>3, <5>4, Zenon
      <4>2. CASE n \notin T
        <5>1. T \in SUBSET (1..(n - 1)) /\ f[T] = g[T]
          BY <3>4, <3>6, <4>2
        <5>2. T # {} => T \ {Max(T)} \in SUBSET (1..(n - 1))
          BY <5>1
        <5>3. T # {} => f[T \ {Max(T)}] = g[T \ {Max(T)}]
          BY <3>6, <5>2
        <5> QED
          BY <3>7, <5>1, <5>3, Zenon
      <4> QED
        BY <4>1, <4>2
    <3>9. f = [T \in SUBSET (1..n) |-> f[T]]
      BY <3>3
    <3>10. f = RiseBody(f, n, b, s)
      BY <3>8, <3>9, Zenon DEF RiseBody
    <3> QED
      BY <2>2, <3>10
  <2> QED
    BY <2>3, <2>4
<1> DEFINE iter == CHOOSE f : f = RiseBody(f, Len(s), b, s)
<1>3. iter = RiseBody(iter, Len(s), b, s)
  <2>1. \E f : f = RiseBody(f, Len(s), b, s)
    BY <1>1, <1>2
  <2> QED
    BY <2>1
<1>4. Risen(b, s) = iter[1..Len(s)]
  BY <1>1, Zenon DEF Risen, FoldLeft, MapThenFoldSet, RiseBody
<1> HIDE DEF iter
<1>5. \A T \in SUBSET (1..Len(s)) : iter[T] = IF T = {} THEN b ELSE Rise(iter[T \ {Max(T)}], s[Max(T)])
  <2>1. \A k : \A T \in SUBSET (1..Len(s)) :
            RiseBody(k, Len(s), b, s)[T] = IF T = {} THEN b ELSE Rise(k[T \ {Max(T)}], s[Max(T)])
    BY DEF RiseBody
  <2> QED
    BY <1>3, <2>1, Zenon
<1>6. PICK f : f = [i \in 0..Len(s) |-> iter[1..i]]
  OBVIOUS
<1>7. f[0] = b
  <2>1. 0 \in 0..Len(s) /\ 1..0 = {} /\ {} \in SUBSET (1..Len(s))
    BY <1>1
  <2>2. f[0] = iter[{}]
    BY <1>6, <2>1
  <2> QED
    BY <1>5, <2>1, <2>2
<1>8. ASSUME NEW i \in 1..Len(s) PROVE f[i] = Rise(f[i - 1], s[i])
  <2>1. i \in Nat /\ i >= 1 /\ i \in 0..Len(s) /\ i - 1 \in 0..Len(s)
    BY <1>1
  <2>2. (1..i) \in SUBSET (1..Len(s)) /\ 1..i # {} /\ (1..i) \ {i} = 1..(i - 1)
    <3>1. 1..i \subseteq 1..Len(s) /\ i \in 1..i
      BY <1>1, <2>1
    <3>2. (1..i) \ {i} = 1..(i - 1)
      BY <2>1
    <3> QED
      BY <3>1, <3>2
  <2>3. Max(1..i) = i
    BY <2>1, MaxIs
  <2>4. iter[1..i] = Rise(iter[1..(i - 1)], s[i])
    BY <1>5, <2>2, <2>3
  <2> QED
    BY <1>6, <2>1, <2>4
<1>9. f[Len(s)] = iter[1..Len(s)]
  BY <1>1, <1>6
<1>10. Rises(f, b, s)
  BY <1>4, <1>7, <1>8, <1>9 DEF Rises
<1> QED
  BY <1>10

\* Two lists one after the other.
LEMMA ListsJoin ==
    ASSUME NEW s, NEW t, IsList(s), IsList(t)
    PROVE  /\ IsList(s \o t) /\ Len(s) \in Nat /\ Len(t) \in Nat /\ Len(s \o t) = Len(s) + Len(t)
           /\ \A i \in 1..Len(s) : (s \o t)[i] = s[i]
           /\ \A i \in 1..Len(t) : (s \o t)[Len(s) + i] = t[i]
<1>1. PICK S : s \in Seq(S)
  BY DEF IsList
<1>2. PICK T : t \in Seq(T)
  BY DEF IsList
<1> DEFINE U == S \cup T
<1>3. s \in Seq(U) /\ t \in Seq(U)
  BY <1>1, <1>2
<1> HIDE DEF U
<1>4. /\ s \o t \in Seq(U) /\ Len(s) \in Nat /\ Len(t) \in Nat /\ Len(s \o t) = Len(s) + Len(t)
      /\ \A i \in 1..Len(s) : (s \o t)[i] = s[i]
      /\ \A i \in 1..Len(t) : (s \o t)[Len(s) + i] = t[i]
  BY <1>3
<1> QED
  BY <1>4 DEF IsList

LEMMA FrontIs ==
    ASSUME NEW s, IsList(s), Len(s) >= 1
    PROVE  /\ IsList(Front(s)) /\ Len(s) \in Nat /\ Len(Front(s)) = Len(s) - 1
           /\ \A i \in 1..(Len(s) - 1) : Front(s)[i] = s[i]
<1>1. PICK S : s \in Seq(S)
  BY DEF IsList
<1> DEFINE n == Len(s) - 1
<1>2. Len(s) \in Nat /\ n \in Nat /\ n <= Len(s)
  BY <1>1
<1> HIDE DEF n
<1>3. /\ SubSeq(s, 1, n) \in Seq(S) /\ Len(SubSeq(s, 1, n)) = n
      /\ \A i \in 1..n : SubSeq(s, 1, n)[i] = s[i]
  BY <1>1, <1>2
<1>4. Front(s) = SubSeq(s, 1, n)
  BY DEF Front, n
<1> QED
  BY <1>2, <1>3, <1>4 DEF IsList, n

\* One level of a path: with the sibling recorded there, if there is one, a node
\* gives the one above it.
LEMMA OneUp ==
    ASSUME NEW level, IsList(level), NEW at \in 0..(Len(level) - 1)
    PROVE  LET sibling == Sibling(level, at)
               up == at \div 2
           IN  /\ IsList(sibling) /\ Len(sibling) \in {0, 1}
               /\ up \in 0..(Len(Above(level)) - 1)
               /\ Above(level)[up + 1] =
                    IF Len(sibling) = 0 THEN level[at + 1] ELSE Climb(level[at + 1], sibling[1])
<1>1. /\ IsList(Above(level)) /\ Len(level) \in Nat /\ Len(Above(level)) = (Len(level) + 1) \div 2
      /\ \A i \in 1..((Len(level) + 1) \div 2) :
           Above(level)[i] = IF 2 * i <= Len(level) THEN Pair(level[2 * i - 1], level[2 * i]) ELSE level[2 * i - 1]
  BY AboveIs
<1> DEFINE n == Len(level)
           up == at \div 2
<1>2. n \in Nat /\ at \in Nat /\ at < n /\ Len(Above(level)) = (n + 1) \div 2
  BY <1>1
<1> HIDE DEF n
<1>3. up \in Nat /\ up + 1 >= 1 /\ up + 1 <= (n + 1) \div 2 /\ (n + 1) \div 2 \in Nat
  BY <1>2
<1>4. up \in 0..(Len(Above(level)) - 1) /\ up + 1 \in 1..((n + 1) \div 2)
  BY <1>2, <1>3
<1>5. \A x : IsList(<<x>>) /\ Len(<<x>>) = 1 /\ <<x>>[1] = x
  <2>1. \A x : <<x>> \in Seq({x}) /\ Len(<<x>>) = 1 /\ <<x>>[1] = x
    OBVIOUS
  <2> QED
    BY <2>1 DEF IsList
<1>6. Above(level)[up + 1] =
        IF 2 * (up + 1) <= n THEN Pair(level[2 * (up + 1) - 1], level[2 * (up + 1)]) ELSE level[2 * (up + 1) - 1]
  BY <1>1, <1>4 DEF n
<1>7. CASE at % 2 = 1
  <2>1. 2 * (up + 1) = at + 1 /\ 2 * (up + 1) - 1 = at /\ 2 * (up + 1) <= n
    BY <1>2, <1>7
  <2>2. Sibling(level, at) = << [side |-> "left", hash |-> level[at]] >>
    BY <1>7 DEF Sibling
  <2>3. IsList(Sibling(level, at)) /\ Len(Sibling(level, at)) = 1 /\ Sibling(level, at)[1] = [side |-> "left", hash |-> level[at]]
    BY <1>5, <2>2
  <2>4. Climb(level[at + 1], [side |-> "left", hash |-> level[at]]) = Pair(level[at], level[at + 1])
    BY DEF Climb
  <2>5. Above(level)[up + 1] = Pair(level[at], level[at + 1])
    BY <1>6, <2>1
  <2> QED
    BY <1>4, <2>3, <2>4, <2>5
<1>8. CASE at % 2 # 1 /\ at + 1 < n
  <2>1. 2 * (up + 1) = at + 2 /\ 2 * (up + 1) - 1 = at + 1 /\ 2 * (up + 1) <= n
    BY <1>2, <1>8
  <2>2. Sibling(level, at) = << [side |-> "right", hash |-> level[at + 2]] >>
    BY <1>8 DEF Sibling, n
  <2>3. IsList(Sibling(level, at)) /\ Len(Sibling(level, at)) = 1 /\ Sibling(level, at)[1] = [side |-> "right", hash |-> level[at + 2]]
    BY <1>5, <2>2
  <2>4. Climb(level[at + 1], [side |-> "right", hash |-> level[at + 2]]) = Pair(level[at + 1], level[at + 2])
    BY DEF Climb
  <2>5. Above(level)[up + 1] = Pair(level[at + 1], level[at + 2])
    BY <1>6, <2>1
  <2> QED
    BY <1>4, <2>3, <2>4, <2>5
<1>9. CASE at % 2 # 1 /\ ~(at + 1 < n)
  <2>1. 2 * (up + 1) - 1 = at + 1 /\ ~(2 * (up + 1) <= n)
    BY <1>2, <1>9
  <2>2. Sibling(level, at) = <<>>
    BY <1>9 DEF Sibling, n
  <2>3. <<>> \in Seq({}) /\ Len(<<>>) = 0
    OBVIOUS
  <2>4. IsList(Sibling(level, at)) /\ Len(Sibling(level, at)) = 0
    BY <2>2, <2>3 DEF IsList
  <2>5. Above(level)[up + 1] = level[at + 1]
    BY <1>6, <2>1
  <2> QED
    BY <1>4, <2>4, <2>5
<1> QED
  BY <1>7, <1>8, <1>9

\* A leaf climbs to the root along its path.
LEMMA LeavesProve ==
    ASSUME NEW leaves, IsList(leaves), NEW index \in 0..(Len(leaves) - 1)
    PROVE  verify(leaves[index + 1], proof(leaves, index), root(leaves))
<1>1. Len(leaves) \in Nat /\ leaves # <<>>
  <2>1. Len(leaves) \in Nat /\ Len(leaves) >= 1
    BY DEF IsList
  <2> QED
    BY <2>1
<1> DEFINE H == Len(Levels(leaves)) - 1
<1>2. PICK L : L = Levels(leaves)
  OBVIOUS
<1>3. Tower(L, leaves)
  BY <1>1, <1>2, LevelsAre
<1>4. H \in Nat /\ Len(L) = H + 1 /\ IsList(Front(L)) /\ Len(Front(L)) = H /\ \A k \in 1..H : Front(L)[k] = L[k]
  <2>1. IsList(L) /\ Len(L) \in Nat /\ Len(L) >= 1
    BY <1>3 DEF Tower
  <2>2. Len(L) - 1 = H
    BY <1>2
  <2> HIDE DEF H
  <2>3. H \in Nat /\ Len(L) = H + 1
    BY <2>1, <2>2
  <2> QED
    BY <2>1, <2>2, <2>3, FrontIs
<1> HIDE DEF H
<1>5. /\ L[1] = leaves /\ Len(L[H + 1]) = 1 /\ \A k \in 1..(H + 1) : IsList(L[k])
      /\ \A k \in 1..H : Len(L[k]) > 1 /\ L[k + 1] = Above(L[k])
  <2>1. (H + 1) - 1 = H
    BY <1>4
  <2> QED
    BY <1>3, <1>4, <2>1 DEF Tower
<1> DEFINE start == [path |-> <<>>, position |-> index]
<1>6. PICK w : /\ w[0] = start /\ \A k \in 1..H : w[k] = Rise(w[k - 1], L[k])
               /\ Risen(start, Front(L)) = w[H]
  <2> HIDE DEF start
  <2>1. PICK s : s = Front(L)
    OBVIOUS
  <2>2. IsList(s) /\ Len(s) = H
    BY <1>4, <2>1
  <2>4. PICK f : Rises(f, start, s)
    BY <2>2, RiseFolds
  <2>3. /\ f[0] = start /\ \A i \in 1..H : f[i] = Rise(f[i - 1], s[i])
        /\ Risen(start, s) = f[H]
    BY <2>2, <2>4, Zenon DEF Rises
  <2> QED
    BY <1>4, <2>1, <2>3
<1>7. proof(leaves, index) = w[H].path
  BY <1>2, <1>6, Zenon DEF proof, Risen
<1>8. \A k \in 1..H : /\ w[k].path = w[k - 1].path \o Sibling(L[k], w[k - 1].position)
                      /\ w[k].position = w[k - 1].position \div 2
  <2>1. \A x, level : /\ Rise(x, level).path = x.path \o Sibling(level, x.position)
                      /\ Rise(x, level).position = x.position \div 2
    BY DEF Rise
  <2> QED
    BY <1>6, <2>1, Zenon
<1> DEFINE At(k) == IsList(w[k].path) /\ Len(w[k].path) \in Nat /\ w[k].position \in 0..(Len(L[k + 1]) - 1)
<1>9. \A k \in 0..H : At(k)
  <2> DEFINE Bad == {k \in 0..H : ~At(k)}
  <2> SUFFICES ASSUME Bad # {} PROVE FALSE
    OBVIOUS
  <2>1. PICK k \in Bad : \A y \in Bad : k <= y
    <3>1. Bad \subseteq Nat
      BY <1>4
    <3> HIDE DEF Bad
    <3> QED
      BY <3>1, LeastNumber
  <2>2. k \in 0..H /\ ~At(k)
    OBVIOUS
  <2>3. CASE k = 0
    <3>1. w[0].path = <<>> /\ w[0].position = index
      BY <1>6
    <3>2. <<>> \in Seq({}) /\ Len(<<>>) = 0
      OBVIOUS
    <3>3. IsList(w[0].path) /\ Len(w[0].path) \in Nat
      BY <3>1, <3>2 DEF IsList
    <3>4. w[0].position \in 0..(Len(L[0 + 1]) - 1)
      BY <1>5, <3>1
    <3> QED
      BY <2>2, <2>3, <3>3, <3>4
  <2>4. CASE k # 0
    <3>1. k \in 1..H /\ k - 1 \in 0..H /\ ~(k <= k - 1) /\ (k - 1) + 1 = k /\ k \in 1..(H + 1)
      BY <1>4, <2>2, <2>4
    <3>2. At(k - 1)
      <4>1. k - 1 \notin Bad
        <5> HIDE DEF Bad
        <5> QED
          BY <2>1, <3>1
      <4> QED
        BY <3>1, <4>1
    <3> HIDE DEF Bad
    <3>3. IsList(L[k]) /\ w[k - 1].position \in 0..(Len(L[k]) - 1) /\ L[k + 1] = Above(L[k])
      BY <1>5, <3>1, <3>2
    <3>4. /\ IsList(Sibling(L[k], w[k - 1].position))
          /\ w[k - 1].position \div 2 \in 0..(Len(Above(L[k])) - 1)
      BY <3>3, OneUp
    <3>5. IsList(w[k].path)
      <4>1. IsList(w[k - 1].path \o Sibling(L[k], w[k - 1].position))
        BY <3>2, <3>4, ListsJoin
      <4> QED
        BY <1>8, <3>1, <4>1, Zenon
    <3>6. Len(w[k].path) \in Nat
      BY <3>5 DEF IsList
    <3>7. w[k].position \in 0..(Len(L[k + 1]) - 1)
      BY <1>8, <3>1, <3>3, <3>4
    <3> QED
      BY <2>2, <3>5, <3>6, <3>7
  <2> QED
    BY <2>3, <2>4
<1> DEFINE p == w[H].path
           Within(j) == /\ Len(w[H - j].path) <= Len(p)
                        /\ \A i \in 1..Len(w[H - j].path) : w[H - j].path[i] = p[i]
<1>10. \A j \in 0..H : Within(j)
  <2> DEFINE Bad == {j \in 0..H : ~Within(j)}
  <2> SUFFICES ASSUME Bad # {} PROVE FALSE
    OBVIOUS
  <2>1. PICK j \in Bad : \A y \in Bad : j <= y
    <3>1. Bad \subseteq Nat
      BY <1>4
    <3> HIDE DEF Bad
    <3> QED
      BY <3>1, LeastNumber
  <2>2. j \in 0..H /\ ~Within(j)
    OBVIOUS
  <2>3. Len(p) \in Nat
    <3>1. H \in 0..H
      BY <1>4
    <3> QED
      BY <1>9, <3>1
  <2>4. CASE j = 0
    <3>1. H - 0 = H
      BY <1>4
    <3> QED
      BY <2>2, <2>3, <2>4, <3>1
  <2>5. CASE j # 0
    <3> DEFINE k == (H - j) + 1
    <3>0. H \in Nat /\ j \in Nat /\ j >= 1 /\ j <= H
      BY <1>4, <2>2, <2>5
    <3>1. /\ k \in 1..H /\ k - 1 = H - j /\ H - (j - 1) = k /\ j - 1 \in 0..H /\ ~(j <= j - 1)
          /\ H - j \in 0..H /\ k \in 1..(H + 1) /\ k \in 0..H
      <4> HIDE DEF Bad
      <4>1. k \in Nat /\ k >= 1 /\ k <= H
        BY <3>0
      <4> QED
        BY <3>0, <4>1
    <3>2. Within(j - 1)
      <4>1. j - 1 \notin Bad
        <5> HIDE DEF Bad
        <5> QED
          BY <2>1, <3>1
      <4> QED
        BY <3>1, <4>1
    <3> HIDE DEF Bad
    <3> DEFINE sib == Sibling(L[k], w[k - 1].position)
               low == w[H - j].path
               high == w[k].path
    <3>3. IsList(L[k]) /\ w[k - 1].position \in 0..(Len(L[k]) - 1)
      <4>1. At(H - j) /\ (H - j) + 1 = k
        BY <1>9, <3>1
      <4> QED
        BY <1>5, <3>1, <4>1
    <3>4. IsList(sib)
      <4> HIDE DEF k
      <4> QED
        BY <3>3, OneUp
    <3>5. IsList(low) /\ high = low \o sib /\ Len(high) <= Len(p) /\ \A i \in 1..Len(high) : high[i] = p[i]
      BY <1>8, <1>9, <3>1, <3>2
    <3> HIDE DEF k, sib, low, high, p
    <3>6. /\ Len(low) \in Nat /\ Len(sib) \in Nat /\ Len(high) = Len(low) + Len(sib)
          /\ \A i \in 1..Len(low) : high[i] = low[i]
      BY <3>4, <3>5, ListsJoin
    <3>7. Len(low) <= Len(high) /\ Len(low) <= Len(p)
      BY <2>3, <3>5, <3>6
    <3>8. \A i \in 1..Len(low) : i \in 1..Len(high)
      BY <3>6, <3>7
    <3>9. Len(low) <= Len(p) /\ \A i \in 1..Len(low) : low[i] = p[i]
      BY <3>5, <3>6, <3>7, <3>8
    <3> QED
      BY <2>2, <3>9 DEF low
  <2> QED
    BY <2>4, <2>5
<1>11. IsList(p) /\ Len(p) \in Nat /\ H \in 0..H
  BY <1>4, <1>9
<1>12. PICK f : /\ f[0] = leaves[index + 1] /\ \A i \in 1..Len(p) : f[i] = Climb(f[i - 1], p[i])
                /\ Climbed(leaves[index + 1], p) = f[Len(p)]
  <2> HIDE DEF p
  <2>1. \E f : Climbs(f, leaves[index + 1], p)
    BY <1>11, ClimbFolds
  <2> QED
    BY <2>1 DEF Climbs
<1> DEFINE Node(k) == f[Len(w[k].path)] = L[k + 1][w[k].position + 1]
<1>13. \A k \in 0..H : Node(k)
  <2> DEFINE Bad == {k \in 0..H : ~Node(k)}
  <2> SUFFICES ASSUME Bad # {} PROVE FALSE
    OBVIOUS
  <2>1. PICK k \in Bad : \A y \in Bad : k <= y
    <3>1. Bad \subseteq Nat
      BY <1>4
    <3> HIDE DEF Bad
    <3> QED
      BY <3>1, LeastNumber
  <2>2. k \in 0..H /\ ~Node(k)
    OBVIOUS
  <2>3. CASE k = 0
    <3>1. w[0].path = <<>> /\ w[0].position = index /\ Len(<<>>) = 0 /\ 0 + 1 = 1
      BY <1>6
    <3> QED
      BY <1>5, <1>12, <2>2, <2>3, <3>1
  <2>4. CASE k # 0
    <3>1. k \in 1..H /\ k - 1 \in 0..H /\ ~(k <= k - 1) /\ (k - 1) + 1 = k /\ k \in 1..(H + 1)
      BY <1>4, <2>2, <2>4
    <3>2. Node(k - 1)
      <4>1. k - 1 \notin Bad
        <5> HIDE DEF Bad
        <5> QED
          BY <2>1, <3>1
      <4> QED
        BY <3>1, <4>1
    <3> HIDE DEF Bad
    <3> DEFINE at == w[k - 1].position
               low == w[k - 1].path
               sib == Sibling(L[k], at)
    <3>3. IsList(L[k]) /\ at \in 0..(Len(L[k]) - 1) /\ L[k + 1] = Above(L[k]) /\ IsList(low)
      BY <1>5, <1>9, <3>1
    <3>4. /\ w[k].path = low \o sib /\ w[k].position = at \div 2
      BY <1>8, <3>1
    <3>5. Len(w[k].path) <= Len(p) /\ \A i \in 1..Len(w[k].path) : w[k].path[i] = p[i]
      <4>1. H - k \in 0..H /\ H - (H - k) = k
        BY <1>4, <3>1
      <4> HIDE DEF p
      <4>2. Within(H - k)
        BY <1>10, <4>1
      <4> QED
        BY <4>1, <4>2
    <3>6. f[Len(low)] = L[k][at + 1]
      BY <3>1, <3>2
    <3> HIDE DEF at, low, sib, p, Node, At, Within
    <3>7. /\ IsList(sib) /\ Len(sib) \in {0, 1}
          /\ Above(L[k])[at \div 2 + 1] = IF Len(sib) = 0 THEN L[k][at + 1] ELSE Climb(L[k][at + 1], sib[1])
      BY <3>3, OneUp DEF sib
    <3>8. /\ Len(low) \in Nat /\ Len(low \o sib) = Len(low) + Len(sib)
          /\ \A i \in 1..Len(sib) : (low \o sib)[Len(low) + i] = sib[i]
      BY <3>3, <3>7, ListsJoin
    <3>9. L[k + 1][w[k].position + 1] = IF Len(sib) = 0 THEN L[k][at + 1] ELSE Climb(L[k][at + 1], sib[1])
      BY <3>3, <3>4, <3>7
    <3>10. CASE Len(sib) = 0
      <4>1. Len(w[k].path) = Len(low)
        BY <3>4, <3>8, <3>10
      <4> QED
        BY <2>2, <3>6, <3>9, <3>10, <4>1 DEF Node
    <3>11. CASE Len(sib) = 1
      <4> DEFINE n == Len(low)
      <4>1. n \in Nat /\ Len(w[k].path) = n + 1 /\ w[k].path[n + 1] = sib[1]
        BY <3>4, <3>8, <3>11
      <4> HIDE DEF n
      <4>2. n + 1 \in 1..Len(w[k].path) /\ n + 1 \in 1..Len(p) /\ (n + 1) - 1 = n
        BY <1>11, <3>5, <4>1
      <4>3. p[n + 1] = sib[1]
        BY <3>5, <4>1, <4>2
      <4>4. f[n + 1] = Climb(f[n], sib[1])
        BY <1>12, <4>2, <4>3
      <4>5. f[Len(w[k].path)] = L[k + 1][w[k].position + 1]
        BY <3>6, <3>9, <3>11, <4>1, <4>4 DEF n
      <4> QED
        BY <2>2, <4>5 DEF Node
    <3> QED
      BY <3>7, <3>10, <3>11
  <2> QED
    BY <2>3, <2>4
<1>14. f[Len(p)] = L[H + 1][1]
  <2>1. Node(H) /\ w[H].position \in 0..0
    <3>1. Node(H) /\ At(H)
      BY <1>9, <1>11, <1>13
    <3> HIDE DEF Node
    <3> QED
      BY <1>5, <3>1
  <2>2. w[H].position = 0 /\ 0 + 1 = 1
    BY <2>1
  <2> QED
    BY <2>1, <2>2
<1>15. root(leaves) = L[H + 1][1]
  <2>1. IsList(L[H + 1])
    BY <1>4, <1>5
  <2>2. Head(L[H + 1]) = L[H + 1][1]
    BY <1>5, <2>1 DEF IsList
  <2> QED
    BY <1>1, <1>2, <1>4, <2>2 DEF root, Last
<1> QED
  BY <1>7, <1>12, <1>14, <1>15, Zenon DEF verify, Climbed

\* Going to the left d times, from pair to pair, one is at a leaf.
Spine(x, d) ==
    \E f : f[0] = x /\ Len(f[d]) = 1 /\ \A i \in 0..(d - 1) : Len(f[i]) = 2 /\ f[i + 1] = f[i][1]

LEMMA SpineOfLeaf ==
    ASSUME NEW x, Len(x) = 1
    PROVE  Spine(x, 0)
<1>1. PICK f : f = [i \in {0} |-> x]
  OBVIOUS
<1>2. f[0] = x /\ \A i \in 0..(0 - 1) : FALSE
  BY <1>1
<1> QED
  BY <1>2 DEF Spine

LEMMA SpineOfPair ==
    ASSUME NEW x, NEW y, NEW d \in Nat, Spine(x, d)
    PROVE  Spine(Pair(x, y), d + 1)
<1>1. PICK f : f[0] = x /\ Len(f[d]) = 1 /\ \A i \in 0..(d - 1) : Len(f[i]) = 2 /\ f[i + 1] = f[i][1]
  BY DEF Spine
<1>2. PICK g : g = [i \in 0..(d + 1) |-> IF i = 0 THEN Pair(x, y) ELSE f[i - 1]]
  OBVIOUS
<1>3. g[0] = Pair(x, y) /\ \A i \in 1..(d + 1) : g[i] = f[i - 1]
  <2>1. 0 \in 0..(d + 1) /\ \A i \in 1..(d + 1) : i \in 0..(d + 1) /\ i # 0
    OBVIOUS
  <2> QED
    BY <1>2, <2>1, Zenon
<1>4. Len(g[d + 1]) = 1
  <2>1. d + 1 \in 1..(d + 1) /\ (d + 1) - 1 = d
    OBVIOUS
  <2> QED
    BY <1>1, <1>3, <2>1
<1>5. ASSUME NEW i \in 0..((d + 1) - 1) PROVE Len(g[i]) = 2 /\ g[i + 1] = g[i][1]
  <2>1. CASE i = 0
    <3>1. Len(Pair(x, y)) = 2 /\ Pair(x, y)[1] = x
      BY DEF Pair
    <3>2. 1 \in 1..(d + 1) /\ 0 + 1 = 1 /\ 1 - 1 = 0
      OBVIOUS
    <3> QED
      BY <1>1, <1>3, <2>1, <3>1, <3>2
  <2>2. CASE i # 0
    <3>1. i \in 1..(d + 1) /\ i + 1 \in 1..(d + 1) /\ (i + 1) - 1 = i /\ i - 1 \in 0..(d - 1) /\ (i - 1) + 1 = i
      BY <2>2
    <3> QED
      BY <1>1, <1>3, <3>1
  <2> QED
    BY <2>1, <2>2
<1> QED
  BY <1>3, <1>4, <1>5 DEF Spine

LEMMA SpineOnce ==
    ASSUME NEW x, NEW d \in Nat, NEW e \in Nat, d < e, Spine(x, d), Spine(x, e)
    PROVE  FALSE
<1>1. PICK f : f[0] = x /\ Len(f[d]) = 1 /\ \A i \in 0..(d - 1) : Len(f[i]) = 2 /\ f[i + 1] = f[i][1]
  BY DEF Spine
<1>2. PICK g : g[0] = x /\ Len(g[e]) = 1 /\ \A i \in 0..(e - 1) : Len(g[i]) = 2 /\ g[i + 1] = g[i][1]
  BY DEF Spine
<1> DEFINE Bad == {i \in 0..d : f[i] # g[i]}
<1>3. Bad = {}
  <2> SUFFICES ASSUME Bad # {} PROVE FALSE
    OBVIOUS
  <2>1. PICK i \in Bad : \A y \in Bad : i <= y
    <3>1. Bad \subseteq Nat
      OBVIOUS
    <3> HIDE DEF Bad
    <3> QED
      BY <3>1, LeastNumber
  <2>2. i \in 0..d /\ f[i] # g[i] /\ i # 0
    BY <1>1, <1>2
  <2>3. i - 1 \in 0..d /\ i - 1 \in 0..(d - 1) /\ i - 1 \in 0..(e - 1) /\ ~(i <= i - 1) /\ (i - 1) + 1 = i
    BY <2>2
  <2>4. f[i - 1] = g[i - 1]
    <3>1. i - 1 \notin Bad
      <4> HIDE DEF Bad
      <4> QED
        BY <2>1, <2>3
    <3> QED
      BY <2>3, <3>1
  <2> HIDE DEF Bad
  <2>5. f[i] = f[i - 1][1] /\ g[i] = g[i - 1][1]
    <3>1. f[(i - 1) + 1] = f[i - 1][1] /\ g[(i - 1) + 1] = g[i - 1][1]
      BY <1>1, <1>2, <2>3
    <3> QED
      BY <2>3, <3>1
  <2> QED
    BY <2>2, <2>4, <2>5
<1>4. d \in 0..d /\ d \in 0..(e - 1)
  OBVIOUS
<1>5. f[d] = g[d] /\ Len(g[d]) = 2
  BY <1>2, <1>3, <1>4
<1> QED
  BY <1>1, <1>5

\* A level at height d: every node but the last is a full tree, and the last is no
\* higher than those.
LevelAt(level, d) ==
    /\ IsList(level)
    /\ \A i \in 1..(Len(level) - 1) : Spine(level[i], d)
    /\ \E e \in 0..d : Spine(level[Len(level)], e)

LEMMA LevelRises ==
    ASSUME NEW level, NEW d \in Nat, LevelAt(level, d), Len(level) >= 2
    PROVE  LevelAt(Above(level), d + 1) /\ Spine(Above(level)[1], d + 1)
<1> DEFINE n == Len(level)
           m == Len(Above(level))
           up == Above(level)
<1>1. /\ IsList(up) /\ n \in Nat /\ m = (n + 1) \div 2
      /\ \A i \in 1..((n + 1) \div 2) :
           up[i] = IF 2 * i <= n THEN Pair(level[2 * i - 1], level[2 * i]) ELSE level[2 * i - 1]
  BY AboveIs DEF LevelAt
<1>2. n >= 2
  OBVIOUS
<1>3. PICK e \in 0..d : Spine(level[n], e)
  BY DEF LevelAt
<1>4. \A i \in 1..(n - 1) : Spine(level[i], d)
  BY DEF LevelAt
<1> HIDE DEF n, m, up
<1>5. m \in Nat /\ m >= 1
  BY <1>1, <1>2
<1>6. ASSUME NEW i \in 1..m, 2 * i <= n PROVE Spine(up[i], d + 1)
  <2>1. up[i] = Pair(level[2 * i - 1], level[2 * i])
    BY <1>1, <1>6
  <2>2. 2 * i - 1 \in 1..(n - 1)
    BY <1>1, <1>6
  <2>3. Spine(level[2 * i - 1], d)
    BY <1>4, <2>2
  <2> QED
    BY <2>1, <2>3, SpineOfPair
<1>7. \A i \in 1..(m - 1) : i \in 1..m /\ 2 * i <= n
  BY <1>1, <1>2
<1>8. \A i \in 1..(m - 1) : Spine(up[i], d + 1)
  BY <1>6, <1>7
<1>9. \E c \in 0..(d + 1) : Spine(up[m], c)
  <2>1. m \in 1..m /\ d + 1 \in 0..(d + 1)
    BY <1>5
  <2>2. CASE 2 * m <= n
    BY <1>6, <2>1, <2>2
  <2>3. CASE ~(2 * m <= n)
    <3>1. 2 * m - 1 = n
      BY <1>1, <2>3
    <3>2. up[m] = level[n]
      BY <1>1, <2>1, <2>3, <3>1
    <3>3. e \in 0..(d + 1)
      OBVIOUS
    <3> QED
      BY <1>3, <3>2, <3>3
  <2> QED
    BY <2>2, <2>3
<1>10. Spine(up[1], d + 1)
  <2>1. 1 \in 1..m /\ 2 * 1 <= n
    BY <1>2, <1>5
  <2> QED
    BY <1>6, <2>1
<1> QED
  BY <1>1, <1>8, <1>9, <1>10 DEF LevelAt, m, up

\* Two levels at one height with the same level above are the same.
LEMMA LevelsAgree ==
    ASSUME NEW a, NEW c, NEW d \in Nat, LevelAt(a, d), LevelAt(c, d), Len(a) >= 2, Len(c) >= 2,
           Above(a) = Above(c)
    PROVE  Len(a) <= Len(c) /\ \A i \in 1..Len(a) : Len(a) = Len(c) => a[i] = c[i]
<1> DEFINE n == Len(a)
           k == Len(c)
           up == Above(a)
<1>1. /\ IsList(a) /\ n \in Nat /\ Len(up) = (n + 1) \div 2
      /\ \A i \in 1..((n + 1) \div 2) : up[i] = IF 2 * i <= n THEN Pair(a[2 * i - 1], a[2 * i]) ELSE a[2 * i - 1]
  BY AboveIs DEF LevelAt
<1>2. /\ IsList(c) /\ k \in Nat /\ Len(up) = (k + 1) \div 2
      /\ \A i \in 1..((k + 1) \div 2) : up[i] = IF 2 * i <= k THEN Pair(c[2 * i - 1], c[2 * i]) ELSE c[2 * i - 1]
  BY AboveIs DEF LevelAt
<1>3. \A i \in 1..(n - 1) : Spine(a[i], d)
  BY DEF LevelAt
<1>4. PICK e \in 0..d : Spine(c[k], e)
  BY DEF LevelAt
<1>5. n >= 2 /\ k >= 2
  OBVIOUS
<1> HIDE DEF n, k, up
<1>6. n <= k
  <2> SUFFICES ASSUME ~(n <= k) PROVE FALSE
    OBVIOUS
  <2>1. n = k + 1 /\ k % 2 = 1
    <3>1. \A x, y \in Nat : ~(x <= y) /\ (x + 1) \div 2 = (y + 1) \div 2 => x = y + 1 /\ y % 2 = 1
      OBVIOUS
    <3>2. (n + 1) \div 2 = (k + 1) \div 2
      BY <1>1, <1>2
    <3> QED
      BY <1>1, <1>2, <3>1, <3>2
  <2> DEFINE m == (k + 1) \div 2
  <2>2. m \in Nat /\ m >= 1 /\ 2 * m = n /\ 2 * m - 1 = k /\ ~(2 * m <= k) /\ m \in 1..((n + 1) \div 2) /\ m \in 1..((k + 1) \div 2)
    BY <1>1, <1>2, <1>5, <2>1
  <2> HIDE DEF m
  <2>3. up[m] = Pair(a[k], a[n]) /\ up[m] = c[k]
    <3>1. 2 * m <= n
      BY <1>1, <2>2
    <3>2. up[m] = Pair(a[2 * m - 1], a[2 * m])
      BY <1>1, <2>2, <3>1, Zenon
    <3>3. up[m] = c[2 * m - 1]
      BY <1>2, <2>2, Zenon
    <3> QED
      BY <2>2, <3>2, <3>3
  <2>4. k \in 1..(n - 1)
    BY <1>2, <1>5, <2>1
  <2>5. Spine(c[k], d + 1)
    BY <1>3, <2>3, <2>4, SpineOfPair
  <2>6. e \in Nat /\ e < d + 1 /\ d + 1 \in Nat
    OBVIOUS
  <2> QED
    BY <1>4, <2>5, <2>6, SpineOnce
<1>7. ASSUME NEW i \in 1..n, n = k PROVE a[i] = c[i]
  <2> DEFINE m == (i + 1) \div 2
  <2>1. m \in 1..((n + 1) \div 2) /\ i \in Nat /\ i >= 1 /\ i <= n
    BY <1>1
  <2>2. (2 * m - 1 = i \/ 2 * m = i) /\ 2 * m \in Nat
    BY <2>1
  <2> HIDE DEF m
  <2>3. CASE 2 * m <= n
    <3>1. Pair(a[2 * m - 1], a[2 * m]) = Pair(c[2 * m - 1], c[2 * m])
      BY <1>1, <1>2, <1>7, <2>1, <2>3
    <3>2. \A x, y, u, v : Pair(x, y) = Pair(u, v) => x = u /\ y = v
      BY DEF Pair
    <3>3. a[2 * m - 1] = c[2 * m - 1] /\ a[2 * m] = c[2 * m]
      BY <3>1, <3>2
    <3> QED
      BY <2>2, <3>3
  <2>4. CASE ~(2 * m <= n)
    <3>1. a[2 * m - 1] = c[2 * m - 1]
      BY <1>1, <1>2, <1>7, <2>1, <2>4
    <3>2. 2 * m - 1 = i
      BY <2>1, <2>2, <2>4
    <3> QED
      BY <3>1, <3>2
  <2> QED
    BY <2>3, <2>4
<1> QED
  BY <1>6, <1>7 DEF n, k

LEMMA SameBelow ==
    ASSUME NEW a, NEW c, NEW d \in Nat, LevelAt(a, d), LevelAt(c, d), Len(a) >= 2, Len(c) >= 2,
           Above(a) = Above(c)
    PROVE  a = c
<1>1. Len(a) <= Len(c) /\ Len(c) <= Len(a) /\ \A i \in 1..Len(a) : Len(a) = Len(c) => a[i] = c[i]
  BY LevelsAgree
<1>2. PICK S : a \in Seq(S)
  BY DEF LevelAt, IsList
<1>3. PICK T : c \in Seq(T)
  BY DEF LevelAt, IsList
<1>4. Len(a) \in Nat /\ Len(c) \in Nat
  BY <1>2, <1>3
<1>5. Len(a) = Len(c)
  BY <1>1, <1>4
<1>6. a = [i \in 1..Len(a) |-> a[i]] /\ c = [i \in 1..Len(c) |-> c[i]]
  BY <1>2, <1>3
<1> QED
  BY <1>1, <1>5, <1>6

Leaves(s) == IsList(s) /\ \A i \in 1..Len(s) : Len(s[i]) = 1

LEMMA TowerHeights ==
    ASSUME NEW L, NEW leaves, Leaves(leaves), Tower(L, leaves)
    PROVE  \A k \in 1..Len(L) : LevelAt(L[k], k - 1) /\ Spine(L[k][1], k - 1) /\ Len(L[k]) >= 1
<1> DEFINE h == Len(L)
           Good(k) == LevelAt(L[k], k - 1) /\ Spine(L[k][1], k - 1) /\ Len(L[k]) >= 1
           Bad == {k \in 1..h : ~Good(k)}
<1>1. h \in Nat /\ h >= 1 /\ L[1] = leaves /\ (\A k \in 1..h : IsList(L[k]))
      /\ (\A k \in 1..(h - 1) : Len(L[k]) > 1 /\ L[k + 1] = Above(L[k])) /\ Len(L[h]) = 1
  BY DEF Tower
<1> HIDE DEF h
<1>2. \A k \in 1..h : Len(L[k]) \in Nat /\ Len(L[k]) >= 1
  <2>1. ASSUME NEW k \in 1..h PROVE Len(L[k]) \in Nat /\ Len(L[k]) >= 1
    <3>1. Len(L[k]) \in Nat
      BY <1>1 DEF IsList
    <3>2. k = h \/ k \in 1..(h - 1)
      BY <1>1
    <3>3. \A a \in Nat : a > 1 \/ a = 1 => a >= 1
      OBVIOUS
    <3>4. Len(L[k]) > 1 \/ Len(L[k]) = 1
      BY <1>1, <3>2, Zenon
    <3> QED
      BY <3>1, <3>3, <3>4, Zenon
  <2> QED
    BY <2>1
<1>3. Bad = {}
  <2> SUFFICES ASSUME Bad # {} PROVE FALSE
    OBVIOUS
  <2>1. PICK k \in Bad : \A y \in Bad : k <= y
    <3>1. Bad \subseteq Nat
      BY <1>1
    <3> HIDE DEF Bad
    <3> QED
      BY <3>1, LeastNumber
  <2>2. k \in 1..h /\ ~Good(k)
    OBVIOUS
  <2>3. CASE k = 1
    <3>1. IsList(leaves) /\ Len(leaves) \in Nat /\ Len(leaves) >= 1 /\ \A i \in 1..Len(leaves) : Len(leaves[i]) = 1
      BY <1>1, <1>2, <2>2, <2>3 DEF Leaves
    <3>2. \A i \in 1..Len(leaves) : Spine(leaves[i], 0)
      BY <3>1, SpineOfLeaf
    <3>3. 1 \in 1..Len(leaves) /\ Len(leaves) \in 1..Len(leaves) /\ \A i \in 1..(Len(leaves) - 1) : i \in 1..Len(leaves)
      BY <3>1
    <3>4. 1 - 1 = 0 /\ 0 \in 0..0
      OBVIOUS
    <3>5. LevelAt(leaves, 0) /\ Spine(leaves[1], 0)
      BY <3>1, <3>2, <3>3, <3>4 DEF LevelAt
    <3> QED
      BY <1>1, <1>2, <2>2, <2>3, <3>4, <3>5
  <2>4. CASE k # 1
    <3>1. k - 1 \in 1..h /\ k - 1 \in 1..(h - 1) /\ ~(k <= k - 1) /\ (k - 1) + 1 = k /\ (k - 1) - 1 \in Nat
          /\ ((k - 1) - 1) + 1 = k - 1
      BY <1>1, <2>2, <2>4
    <3>2. Good(k - 1)
      <4>1. k - 1 \notin Bad
        <5> HIDE DEF Bad
        <5> QED
          BY <2>1, <3>1
      <4> QED
        BY <3>1, <4>1
    <3> HIDE DEF Bad
    <3>3. Len(L[k - 1]) >= 2 /\ L[k] = Above(L[k - 1])
      <4>1. Len(L[k - 1]) > 1 /\ L[(k - 1) + 1] = Above(L[k - 1]) /\ Len(L[k - 1]) \in Nat
        BY <1>1, <1>2, <3>1
      <4>2. \A a \in Nat : a > 1 => a >= 2
        OBVIOUS
      <4> QED
        BY <3>1, <4>1, <4>2
    <3>4. LevelAt(Above(L[k - 1]), ((k - 1) - 1) + 1) /\ Spine(Above(L[k - 1])[1], ((k - 1) - 1) + 1)
      BY <3>1, <3>2, <3>3, LevelRises
    <3> QED
      BY <1>2, <2>2, <3>1, <3>3, <3>4
  <2> QED
    BY <2>3, <2>4
<1>4. \A k \in 1..h : Good(k)
  BY <1>3
<1> QED
  BY <1>4 DEF h

\* The root of leaves is the one node of the last level.
LEMMA RootIs ==
    ASSUME NEW leaves, NEW L, IsList(leaves), leaves # <<>>, L = Levels(leaves)
    PROVE  Tower(L, leaves) /\ root(leaves) = L[Len(L)][1]
<1>1. Tower(L, leaves)
  BY LevelsAre
<1>2. Len(L) \in 1..Len(L)
  BY <1>1 DEF Tower
<1>3. IsList(L[Len(L)]) /\ Len(L[Len(L)]) = 1
  BY <1>1, <1>2 DEF Tower
<1>4. Head(L[Len(L)]) = L[Len(L)][1]
  BY <1>3 DEF IsList
<1> QED
  BY <1>1, <1>4 DEF root, Last

\* A root gives its leaves away, with their number and order.
LEMMA RootsTell ==
    ASSUME NEW leaves, NEW others, Leaves(leaves), Leaves(others), root(leaves) = root(others),
           leaves # <<>>, others # <<>>
    PROVE  leaves = others
<1>1. PICK A : A = Levels(leaves)
  OBVIOUS
<1>2. PICK C : C = Levels(others)
  OBVIOUS
<1>3. Tower(A, leaves) /\ root(leaves) = A[Len(A)][1]
  BY <1>1, RootIs DEF Leaves
<1>4. Tower(C, others) /\ root(others) = C[Len(C)][1]
  BY <1>2, RootIs DEF Leaves
<1>5. \A k \in 1..Len(A) : LevelAt(A[k], k - 1) /\ Spine(A[k][1], k - 1) /\ Len(A[k]) >= 1
  BY <1>3, TowerHeights
<1>6. \A k \in 1..Len(C) : LevelAt(C[k], k - 1) /\ Spine(C[k][1], k - 1) /\ Len(C[k]) >= 1
  BY <1>4, TowerHeights
<1> DEFINE n == Len(A)
<1>7. n = Len(C) /\ n \in Nat /\ n >= 1
  <2>1. Len(A) \in Nat /\ Len(A) >= 1 /\ Len(C) \in Nat /\ Len(C) >= 1
    BY <1>3, <1>4 DEF Tower
  <2>2. Len(A) \in 1..Len(A) /\ Len(C) \in 1..Len(C) /\ Len(A) - 1 \in Nat /\ Len(C) - 1 \in Nat
    BY <2>1
  <2>3. Spine(root(leaves), Len(A) - 1) /\ Spine(root(leaves), Len(C) - 1)
    BY <1>3, <1>4, <1>5, <1>6, <2>2
  <2>4. ~(Len(A) - 1 < Len(C) - 1) /\ ~(Len(C) - 1 < Len(A) - 1)
    BY <2>2, <2>3, SpineOnce
  <2> QED
    BY <2>1, <2>4
<1>8. A[1] = leaves /\ C[1] = others /\ Len(A[n]) = 1 /\ Len(C[n]) = 1 /\ A[n][1] = C[n][1]
  BY <1>3, <1>4, <1>7 DEF Tower
<1>9. \A k \in 1..(n - 1) : /\ Len(A[k]) > 1 /\ A[k + 1] = Above(A[k])
                            /\ Len(C[k]) > 1 /\ C[k + 1] = Above(C[k])
  BY <1>3, <1>4, <1>7 DEF Tower
<1>10. \A k \in 1..n : LevelAt(A[k], k - 1) /\ LevelAt(C[k], k - 1)
  BY <1>5, <1>6, <1>7
<1> HIDE DEF n
<1> DEFINE Bad == {j \in 0..(n - 1) : A[n - j] # C[n - j]}
<1>11. Bad = {}
  <2> SUFFICES ASSUME Bad # {} PROVE FALSE
    OBVIOUS
  <2>1. PICK j \in Bad : \A y \in Bad : j <= y
    <3>1. Bad \subseteq Nat
      BY <1>7
    <3> HIDE DEF Bad
    <3> QED
      BY <3>1, LeastNumber
  <2>2. j \in 0..(n - 1) /\ A[n - j] # C[n - j]
    OBVIOUS
  <2>3. CASE j = 0
    <3>1. n - j = n /\ n \in 1..n
      BY <1>7, <2>3
    <3>2. PICK S : A[n] \in Seq(S)
      BY <1>10, <3>1 DEF LevelAt, IsList
    <3>3. PICK T : C[n] \in Seq(T)
      BY <1>10, <3>1 DEF LevelAt, IsList
    <3>4. A[n] = <<A[n][1]>> /\ C[n] = <<C[n][1]>>
      BY <1>8, <3>2, <3>3
    <3> QED
      BY <1>8, <2>2, <3>1, <3>4
  <2>4. CASE j # 0
    <3> DEFINE k == n - j
    <3>1. k \in 1..(n - 1) /\ k \in 1..n /\ n - (j - 1) = k + 1 /\ j - 1 \in 0..(n - 1) /\ ~(j <= j - 1) /\ k - 1 \in Nat
      BY <1>7, <2>2, <2>4
    <3>2. A[k + 1] = C[k + 1]
      <4>1. j - 1 \notin Bad
        <5> HIDE DEF Bad
        <5> QED
          BY <2>1, <3>1
      <4>2. A[n - (j - 1)] = C[n - (j - 1)]
        BY <3>1, <4>1
      <4> QED
        BY <3>1, <4>2
    <3> HIDE DEF Bad
    <3>3. A[k] # C[k]
      BY <2>2
    <3> HIDE DEF k
    <3>4. LevelAt(A[k], k - 1) /\ LevelAt(C[k], k - 1) /\ Above(A[k]) = Above(C[k])
      BY <1>9, <1>10, <3>1, <3>2
    <3>5. Len(A[k]) >= 2 /\ Len(C[k]) >= 2
      <4>1. Len(A[k]) \in Nat /\ Len(C[k]) \in Nat
        BY <3>4 DEF LevelAt, IsList
      <4>2. \A a \in Nat : a > 1 => a >= 2
        OBVIOUS
      <4> QED
        BY <1>9, <3>1, <4>1, <4>2
    <3> QED
      BY <3>1, <3>3, <3>4, <3>5, SameBelow
  <2> QED
    BY <2>3, <2>4
<1>12. n - 1 \in 0..(n - 1) /\ n - (n - 1) = 1
  BY <1>7
<1>13. A[n - (n - 1)] = C[n - (n - 1)]
  BY <1>11, <1>12
<1> QED
  BY <1>8, <1>12, <1>13

\* Nothing but no files has no root.
LEMMA RootOfSome ==
    ASSUME NEW leaves, Leaves(leaves), leaves # <<>>
    PROVE  root(leaves) # NoRoot
<1>1. PICK L : L = Levels(leaves)
  OBVIOUS
<1>2. Tower(L, leaves) /\ root(leaves) = L[Len(L)][1]
  BY <1>1, RootIs DEF Leaves
<1>3. Len(L) \in 1..Len(L) /\ Len(L) - 1 \in Nat
  BY <1>2 DEF Tower
<1>4. Spine(root(leaves), Len(L) - 1)
  BY <1>2, <1>3, TowerHeights
<1>5. PICK f : f[0] = root(leaves) /\ Len(f[Len(L) - 1]) = 1 /\ \A i \in 0..((Len(L) - 1) - 1) : Len(f[i]) = 2
  BY <1>4 DEF Spine
<1>6. Len(L) - 1 = 0 \/ 0 \in 0..((Len(L) - 1) - 1)
  <2>1. \A n \in Nat : n = 0 \/ 0 \in 0..(n - 1)
    OBVIOUS
  <2> QED
    BY <1>3, <2>1
<1>7. Len(root(leaves)) \in {1, 2}
  BY <1>5, <1>6
<1>8. Len(<<>>) = 0
  OBVIOUS
<1> QED
  BY <1>7, <1>8 DEF NoRoot

\* Files make leaves.
LEMMA LeavesOfFiles ==
    ASSUME NEW S, NEW s \in Seq(S)
    PROVE  Leaves([i \in 1..Len(s) |-> Leaf(s[i])])
<1> DEFINE T == {Leaf(x) : x \in S}
           l == [i \in 1..Len(s) |-> Leaf(s[i])]
<1>1. Len(s) \in Nat /\ \A i \in 1..Len(s) : s[i] \in S
  OBVIOUS
<1>2. l \in [1..Len(s) -> T]
  BY <1>1
<1>3. \A i \in 1..Len(s) : Len(l[i]) = 1
  BY DEF Leaf
<1> HIDE DEF T, l
<1>4. l \in Seq(T) /\ Len(l) = Len(s)
  BY <1>1, <1>2
<1> QED
  BY <1>3, <1>4 DEF Leaves, IsList, l

\* For any two lists of files, however long: every leaf of a tree is proved by its
\* path, another list of leaves has another root, and no path out of another list
\* proves a file that is not in this one (services/merkle.py).
THEOREM CommitmentsAreExact ==
    ASSUME NEW S, NEW files \in Seq(S), NEW strangers \in Seq(S)
    PROVE  CommitmentIsExact([i \in 1..Len(files) |-> Leaf(files[i])],
                             [i \in 1..Len(strangers) |-> Leaf(strangers[i])])
<1>1. \A s \in Seq(S) : Leaves([i \in 1..Len(s) |-> Leaf(s[i])])
  BY LeavesOfFiles
<1>2. PICK leaves : leaves = [i \in 1..Len(files) |-> Leaf(files[i])]
  OBVIOUS
<1>3. PICK others : others = [i \in 1..Len(strangers) |-> Leaf(strangers[i])]
  OBVIOUS
<1>4. Leaves(leaves) /\ Leaves(others)
  BY <1>1, <1>2, <1>3
<1>5. EveryLeafProves(leaves) /\ EveryLeafProves(others)
  BY <1>4, LeavesProve DEF EveryLeafProves, Leaves
<1>6. RootFixesSet(leaves, others)
  <2> SUFFICES ASSUME root(leaves) = root(others) PROVE leaves = others
    BY DEF RootFixesSet
  <2>1. root(<<>>) = NoRoot
    BY DEF root
  <2> QED
    BY <1>4, <2>1, RootOfSome, RootsTell
<1>7. NoForeignProof(leaves, others)
  <2> SUFFICES ASSUME NEW i \in 0..(Len(others) - 1), verify(others[i + 1], proof(others, i), root(leaves))
               PROVE  others[i + 1] \in {leaves[j] : j \in 1..Len(leaves)}
    BY DEF NoForeignProof
  <2>1. verify(others[i + 1], proof(others, i), root(others))
    BY <1>5 DEF EveryLeafProves
  <2>2. root(leaves) = root(others)
    BY <2>1 DEF verify
  <2>3. leaves = others
    BY <1>6, <2>2 DEF RootFixesSet
  <2>4. i + 1 \in 1..Len(others)
    BY <1>4 DEF Leaves, IsList
  <2> QED
    BY <2>3, <2>4
<1> QED
  BY <1>2, <1>3, <1>5, <1>6, <1>7 DEF CommitmentIsExact

-------------------------------------------------------------------------------
IsPrint(d) ==
    /\ d = [made |-> d.made, files |-> d.files, snapshot |-> d.snapshot, shown |-> d.shown]
    /\ d.snapshot <= d.shown
IsReceipt(r) ==
    r = [report |-> r.report, leaves |-> r.leaves, root |-> r.root, snapshot |-> r.snapshot]

\* A printed file and a receipt are something.
LEMMA SomethingThere ==
    /\ \A d : IsPrint(d) => d # None
    /\ \A r : IsReceipt(r) => r # None
<1>1. ASSUME NEW d, IsPrint(d), d = None PROVE FALSE
  <2>1. "made" \in DOMAIN [made |-> d.made, files |-> d.files, snapshot |-> d.snapshot, shown |-> d.shown]
    OBVIOUS
  <2>2. "made" \in DOMAIN <<>>
    BY <1>1, <2>1 DEF IsPrint, None
  <2> QED
    BY <2>2
<1>2. ASSUME NEW r, IsReceipt(r), r = None PROVE FALSE
  <2>1. "report" \in DOMAIN [report |-> r.report, leaves |-> r.leaves, root |-> r.root, snapshot |-> r.snapshot]
    OBVIOUS
  <2>2. "report" \in DOMAIN <<>>
    BY <1>2, <2>1 DEF IsReceipt, None
  <2> QED
    BY <2>2
<1> QED
  BY <1>1, <1>2

\* What a concatenation holds, place by place.
LEMMA Joined ==
    ASSUME NEW S, NEW s \in Seq(S), NEW t \in Seq(S)
    PROVE  /\ s \o t \in Seq(S) /\ Len(s \o t) = Len(s) + Len(t)
           /\ \A i \in 1..Len(s) : (s \o t)[i] = s[i]
           /\ \A i \in 1..Len(t) : (s \o t)[Len(s) + i] = t[i]
  OBVIOUS

\* A file that joins the case leaves the others in it, and the list a list.
LEMMA FilesGrow ==
    ASSUME evidence \in Seq(Files), NEW f \in Files, NEW place \in 1..(Len(evidence) + 1)
    PROVE  /\ InsertAt(evidence, place, f) \in Seq(Files)
           /\ Listed(evidence) \subseteq Listed(InsertAt(evidence, place, f))
<1> DEFINE n == Len(evidence)
           a == SubSeq(evidence, 1, place - 1)
           c == SubSeq(evidence, place, n)
           ab == a \o <<f>>
           new == ab \o c
<1>1. n \in Nat /\ place \in Nat /\ place >= 1 /\ place <= n + 1
  OBVIOUS
<1>2. /\ a \in Seq(Files) /\ Len(a) = place - 1
      /\ \A i \in 1..(place - 1) : a[i] = evidence[i]
  BY <1>1
<1>3. /\ c \in Seq(Files) /\ Len(c) = n - place + 1
      /\ \A i \in 1..(n - place + 1) : c[i] = evidence[place + i - 1]
  BY <1>1
<1>4. new = InsertAt(evidence, place, f)
  BY DEF InsertAt
<1> HIDE DEF a, c, n
<1>5. ab \in Seq(Files) /\ Len(ab) = place /\ \A i \in 1..(place - 1) : ab[i] = evidence[i]
  BY <1>1, <1>2
<1> HIDE DEF ab
<1>6. /\ new \in Seq(Files) /\ Len(new) = n + 1
      /\ \A i \in 1..place : new[i] = ab[i]
      /\ \A i \in 1..(n - place + 1) : new[place + i] = c[i]
  BY <1>1, <1>3, <1>5, Joined
<1> HIDE DEF new
<1>7. ASSUME NEW i \in 1..n PROVE \E j \in 1..Len(new) : new[j] = evidence[i]
  <2>1. CASE i < place
    <3>1. i \in 1..place /\ i \in 1..(place - 1) /\ i \in 1..Len(new)
      BY <1>1, <1>6, <2>1
    <3> QED
      BY <1>5, <1>6, <3>1
  <2>2. CASE ~(i < place)
    <3>1. i - place + 1 \in 1..(n - place + 1) /\ i + 1 \in 1..Len(new)
      BY <1>1, <1>6, <2>2
    <3>2. place + (i - place + 1) = i + 1 /\ place + (i - place + 1) - 1 = i
      BY <1>1
    <3> QED
      BY <1>3, <1>6, <3>1, <3>2
  <2> QED
    BY <2>1, <2>2
<1> QED
  BY <1>4, <1>6, <1>7 DEF Listed, n

\* What is recorded of a worker stays a record of one while reports and
\* rulings grow in number.
LEMMA WorkStays ==
    ASSUME TypeOK, work' = work, reviews' \in Nat, reviews <= reviews',
           Len(reports') \in Nat, Len(reports) <= Len(reports')
    PROVE  DOMAIN work' = Workers /\ \A w \in Workers : IsWork(work[w])'
<1>1. reviews \in Nat /\ Len(reports) \in Nat
  BY DEF TypeOK
<1>2. ASSUME NEW w \in Workers PROVE IsWork(work[w])'
  <2>1. IsWork(work[w])
    BY DEF TypeOK
  <2> QED
    BY <1>1, <2>1 DEF IsWork, NoWork
<1> QED
  BY <1>2 DEF TypeOK

\* A worker's step to a well formed state keeps all workers well formed.
LEMMA WorkMoves ==
    ASSUME TypeOK, NEW w \in Workers, NEW t, IsWork(t), work' = [work EXCEPT ![w] = t],
           reviews' = reviews, Len(reports') = Len(reports)
    PROVE  DOMAIN work' = Workers /\ \A x \in Workers : IsWork(work[x])'
<1>1. ASSUME NEW x \in Workers PROVE IsWork(work[x])'
  <2>1. work'[x] = IF x = w THEN t ELSE work[x]
    BY DEF TypeOK
  <2>2. IsWork(work'[x])
    BY <2>1 DEF TypeOK
  <2> QED
    BY <2>2 DEF IsWork, NoWork
<1> QED
  BY <1>1 DEF TypeOK

\* A worker that has nothing to do is well formed.
LEMMA IdleWork == ASSUME TypeOK PROVE IsWork(NoWork)
<1>1. 0 \in 0..reviews /\ 0 \in 0..MaxRetries
  BY SealingAssumption DEF TypeOK
<1>2. /\ NoWork.pc = "idle" /\ NoWork.retries = 0 /\ NoWork.snapshot = 0
      /\ NoWork = [pc |-> NoWork.pc, version |-> NoWork.version, retries |-> NoWork.retries,
                   snapshot |-> NoWork.snapshot, receipt |-> NoWork.receipt]
  BY DEF NoWork
<1> QED
  BY <1>1, <1>2 DEF IsWork, Steps

\* A busy worker's fields, one by one.
LEMMA BusyWork ==
    ASSUME TypeOK, NEW w \in Workers, work[w].pc # "idle"
    PROVE  /\ IsWork(work[w]) /\ work[w].pc \in Steps
           /\ work[w].version \in 1..Len(reports) /\ work[w].version \in Versions
           /\ work[w].retries \in 0..MaxRetries
           /\ work[w].snapshot \in 0..reviews
<1>1. IsWork(work[w])
  BY DEF TypeOK
<1>2. work[w].version \in 1..Len(reports)
  BY <1>1 DEF IsWork
<1> QED
  BY <1>1, <1>2, SealingAssumption DEF IsWork, TypeOK, Versions

\* A worker goes on to another step, with another snapshot or receipt perhaps.
LEMMA StepWork ==
    ASSUME TypeOK, NEW w \in Workers, work[w].pc # "idle", NEW pc \in Steps \ {"idle"}
    PROVE  /\ IsWork([work[w] EXCEPT !.pc = pc])
           /\ IsWork([work[w] EXCEPT !.pc = pc, !.snapshot = reviews])
           /\ \A r : IsWork([work[w] EXCEPT !.pc = pc, !.receipt = r])
<1> DEFINE t == work[w]
           a == [t EXCEPT !.pc = pc]
           b == [a EXCEPT !.snapshot = reviews]
           c(r) == [a EXCEPT !.receipt = r]
<1>1. /\ t = [pc |-> t.pc, version |-> t.version, retries |-> t.retries, snapshot |-> t.snapshot,
              receipt |-> t.receipt]
      /\ t.version \in 1..Len(reports) /\ t.retries \in 0..MaxRetries /\ t.snapshot \in 0..reviews
  BY BusyWork DEF IsWork
<1>2. reviews \in 0..reviews
  BY DEF TypeOK
<1>3. a = [pc |-> pc, version |-> t.version, retries |-> t.retries,
           snapshot |-> t.snapshot, receipt |-> t.receipt]
  BY <1>1
<1>4. /\ [t EXCEPT !.pc = pc, !.snapshot = reviews] = b
      /\ \A r : [t EXCEPT !.pc = pc, !.receipt = r] = c(r)
  OBVIOUS
<1> HIDE DEF a
<1>5. b = [pc |-> pc, version |-> t.version, retries |-> t.retries,
           snapshot |-> reviews, receipt |-> t.receipt]
  BY <1>3
<1>6. \A r : c(r) = [pc |-> pc, version |-> t.version, retries |-> t.retries,
                    snapshot |-> t.snapshot, receipt |-> r]
  BY <1>3
<1> HIDE DEF b, c, t
<1>7. IsWork(a) /\ IsWork(b) /\ \A r : IsWork(c(r))
  BY <1>1, <1>2, <1>3, <1>5, <1>6 DEF IsWork
<1> QED
  BY <1>4, <1>7 DEF t, a

-------------------------------------------------------------------------------
\* A request that is under way asks for a version the table can hold, and one
\* that is to be posted has its row.
RequestsKnown ==
    \A c \in Clients :
        /\ request[c].pc = "creating" => request[c].version \in Versions
        /\ request[c].pc = "posting" => request[c].version \in 1..Len(reports)

Basics == TypeOK /\ RequestsKnown

LEMMA Widening ==
    ASSUME NEW S, NEW T, S \subseteq T, NEW s \in Seq(S) PROVE s \in Seq(T)
<1>1. Len(s) \in Nat /\ s = [i \in 1..Len(s) |-> s[i]] /\ \A i \in 1..Len(s) : s[i] \in T
  OBVIOUS
<1> QED
  BY <1>1

\* Rows, requests and tasks that nobody touches stay what they are while
\* reports and rulings grow in number.
LEMMA RowsStay ==
    ASSUME TypeOK, reviews' \in Nat, reviews <= reviews',
           Len(reports') \in Nat, Len(reports) <= Len(reports')
    PROVE  /\ Reports \subseteq Reports' /\ Requests \subseteq Requests' /\ Tasks \subseteq Tasks'
           /\ reports \in Seq(Reports')
<1>1. reviews \in Nat /\ Len(reports) \in Nat /\ reports \in Seq(Reports)
  BY DEF TypeOK
<1>2. Reports \subseteq Reports'
  BY <1>1 DEF Reports, Statuses
<1>3. Requests \subseteq Requests'
  BY <1>1 DEF Requests
<1>4. Tasks \subseteq Tasks'
  BY <1>1 DEF Tasks
<1> QED
  BY <1>1, <1>2, <1>3, <1>4, Widening

\* A row's change of state keeps the table well formed.
LEMMA RowChanges ==
    ASSUME TypeOK, NEW v \in 1..Len(reports), NEW r \in Reports,
           reports' = [reports EXCEPT ![v] = r], reviews' = reviews
    PROVE  /\ Len(reports') = Len(reports) /\ Reports' = Reports /\ reports' \in Seq(Reports')
           /\ reports'[v] = r
           /\ \A x \in 1..Len(reports) : x # v => reports'[x] = reports[x]
<1>1. reports \in Seq(Reports) /\ Reports' = Reports
  BY DEF TypeOK, Reports, Statuses
<1> QED
  BY <1>1

\* The state of a row is one of the four, and its record is a row again.
LEMMA RowMarked ==
    ASSUME TypeOK, NEW v \in 1..Len(reports), NEW s \in Statuses
    PROVE  /\ [reports[v] EXCEPT !.status = s] \in Reports
           /\ [reports EXCEPT ![v].status = s] = [reports EXCEPT ![v] = [reports[v] EXCEPT !.status = s]]
<1>1. reports[v] \in Reports
  BY DEF TypeOK
<1> QED
  BY <1>1 DEF Reports

\* Where nothing but files, objects and workers moves, the rest stays typed.
LEMMA RestStays ==
    ASSUME Basics, UNCHANGED <<reviews, request>>, Len(reports') = Len(reports)
    PROVE  /\ reviews' \in 0..MaxReviews /\ request' \in [Clients -> Requests'] /\ RequestsKnown'
           /\ Tasks' = Tasks /\ Reports' = Reports
  BY DEF Basics, TypeOK, RequestsKnown, Requests, Tasks, Reports, Statuses, Versions

-------------------------------------------------------------------------------
LEMMA BasicsStart == Init => Basics
<1> SUFFICES ASSUME Init PROVE Basics
  OBVIOUS
<1> USE SealingAssumption DEF Init
<1>1. reports = <<>> /\ reports \in Seq(Reports) /\ Len(reports) = 0
  OBVIOUS
<1>2. request \in [Clients -> Requests]
  BY <1>1 DEF Requests, NoRequest
<1>3. DOMAIN work = Workers /\ \A w \in Workers : IsWork(work[w])
  <2>1. IsWork(NoWork)
    BY DEF IsWork, NoWork, Steps
  <2> QED
    BY <2>1
<1>4. queue \subseteq Tasks /\ DOMAIN receipts = Versions /\ DOMAIN disk = Names /\ DOMAIN objects = Names
  OBVIOUS
<1>5. RequestsKnown
  BY DEF RequestsKnown, NoRequest
<1>6. \A v \in Versions : receipts[v] = None
  OBVIOUS
<1>7. evidence \in Seq(Files) /\ remote \in BOOLEAN
  OBVIOUS
<1>8. reviews \in 0..MaxReviews /\ renders \in 0..MaxRenders /\ Len(reports) <= MaxReports
  BY <1>1
<1> QED
  BY <1>1, <1>2, <1>3, <1>4, <1>5, <1>6, <1>7, <1>8 DEF Basics, TypeOK

LEMMA BasicsKeptByCase ==
    ASSUME Basics,
           \/ \E f \in Files, place \in 1..(Len(evidence) + 1) : AddFile(f, place)
           \/ Review
    PROVE  Basics'
<1>1. ASSUME NEW f \in Files, NEW place \in 1..(Len(evidence) + 1), AddFile(f, place) PROVE Basics'
  <2>1. evidence' \in Seq(Files)
    BY <1>1, FilesGrow DEF AddFile, Basics, TypeOK
  <2>2. DOMAIN work' = Workers /\ \A w \in Workers : IsWork(work[w])'
    BY <1>1, WorkStays DEF AddFile, Basics, TypeOK
  <2>3. /\ reviews' \in 0..MaxReviews /\ request' \in [Clients -> Requests'] /\ RequestsKnown'
        /\ Tasks' = Tasks /\ Reports' = Reports
    BY <1>1, RestStays DEF AddFile
  <2> QED
    BY <1>1, <2>1, <2>2, <2>3 DEF AddFile, Basics, TypeOK
<1>2. CASE Review
  <2>1. reviews' \in 0..MaxReviews /\ reviews <= reviews'
    BY <1>2, SealingAssumption DEF Review, Basics, TypeOK
  <2>2. DOMAIN work' = Workers /\ \A w \in Workers : IsWork(work[w])'
    BY <1>2, <2>1, WorkStays DEF Review, Basics, TypeOK
  <2>3. Requests \subseteq Requests' /\ Tasks \subseteq Tasks' /\ reports \in Seq(Reports')
    BY <1>2, <2>1, RowsStay DEF Review, Basics, TypeOK
  <2>4. request' \in [Clients -> Requests'] /\ RequestsKnown'
    BY <1>2, <2>3 DEF Review, Basics, TypeOK, RequestsKnown, Versions
  <2> QED
    BY <1>2, <2>1, <2>2, <2>3, <2>4 DEF Review, Basics, TypeOK
<1> QED
  BY <1>1, <1>2

LEMMA BasicsKeptByRequest ==
    ASSUME Basics, NEW c \in Clients, BeginCreate(c) \/ Answer(c)
    PROVE  Basics'
<1> USE SealingAssumption
<1>0. /\ TypeOK /\ RequestsKnown /\ Len(reports) \in Nat /\ reviews \in Nat /\ request[c] \in Requests
      /\ reviews \in 0..reviews
  BY DEF Basics, TypeOK
<1>1. CASE BeginCreate(c)
  <2>1. DOMAIN work' = Workers /\ \A w \in Workers : IsWork(work[w])'
    BY <1>0, <1>1, WorkStays DEF BeginCreate
  <2>2. Requests' = Requests /\ Tasks' = Tasks /\ Reports' = Reports
    BY <1>1 DEF BeginCreate, Requests, Tasks, Reports, Statuses
  <2>3. [pc |-> "creating", version |-> Len(reports) + 1, snapshot |-> reviews] \in Requests
    BY <1>0 DEF Requests
  <2>4. request' \in [Clients -> Requests]
    BY <1>0, <1>1, <2>3 DEF BeginCreate, TypeOK
  <2>5. RequestsKnown'
    <3> SUFFICES ASSUME NEW d \in Clients
                 PROVE  /\ request'[d].pc = "creating" => request'[d].version \in Versions
                        /\ request'[d].pc = "posting" => request'[d].version \in 1..Len(reports)
      BY <1>1 DEF BeginCreate, RequestsKnown, Versions
    <3>1. CASE d = c
      BY <1>0, <1>1, <3>1 DEF BeginCreate, TypeOK, Versions
    <3>2. CASE d # c
      BY <1>0, <1>1, <3>2 DEF BeginCreate, TypeOK, RequestsKnown
    <3> QED
      BY <3>1, <3>2
  <2> QED
    BY <1>0, <1>1, <2>1, <2>2, <2>4, <2>5 DEF BeginCreate, Basics, TypeOK
<1>2. CASE CommitCreate(c) /\ request[c].version > Len(reports)
  <2> DEFINE r == [status |-> "pending", snapshot |-> request[c].snapshot, published |-> FALSE]
             q == [request[c] EXCEPT !.pc = "posting"]
  <2>1. /\ reports' = Append(reports, r) /\ request' = [request EXCEPT ![c] = q]
        /\ UNCHANGED <<remote, evidence, reviews, receipts, queue, work, disk, objects, renders, lost>>
        /\ request[c].pc = "creating"
    BY <1>0, <1>2 DEF CommitCreate, TypeOK
  <2>2. r \in Reports
    BY <1>0 DEF Reports, Requests, Statuses
  <2>3. request[c].version \in Versions /\ request[c].version = Len(reports) + 1
    BY <1>0, <1>2, <2>1 DEF RequestsKnown, Requests, Versions
  <2> HIDE DEF r
  <2>4. reports' \in Seq(Reports) /\ Len(reports') = Len(reports) + 1 /\ Len(reports') <= MaxReports
    BY <1>0, <2>1, <2>2, <2>3 DEF TypeOK, Versions
  <2>5. DOMAIN work' = Workers /\ \A w \in Workers : IsWork(work[w])'
    BY <1>0, <2>1, <2>4, WorkStays
  <2>6. Requests \subseteq Requests' /\ Tasks \subseteq Tasks' /\ Reports \subseteq Reports'
    BY <1>0, <2>1, <2>4, RowsStay
  <2>7. q \in Requests /\ q.pc = "posting" /\ q.version = request[c].version
    BY <1>0 DEF Requests
  <2> HIDE DEF q
  <2>8. request' \in [Clients -> Requests']
    BY <1>0, <2>1, <2>6, <2>7 DEF TypeOK
  <2>9. RequestsKnown'
    <3> SUFFICES ASSUME NEW d \in Clients
                 PROVE  /\ request'[d].pc = "creating" => request'[d].version \in Versions
                        /\ request'[d].pc = "posting" => request'[d].version \in 1..Len(reports')
      BY DEF RequestsKnown, Versions
    <3>1. CASE d = c
      BY <1>0, <2>1, <2>3, <2>4, <2>7, <3>1 DEF TypeOK
    <3>2. CASE d # c
      BY <1>0, <2>1, <2>4, <3>2 DEF TypeOK, RequestsKnown
    <3> QED
      BY <3>1, <3>2
  <2>10. reports' \in Seq(Reports')
    BY <2>4, <2>6, Widening
  <2>11. DOMAIN receipts' = Versions /\ \A v \in Versions : receipts'[v] # None => v <= Len(reports')
    BY <1>0, <2>1, <2>4 DEF TypeOK, Versions
  <2>12. /\ remote' \in BOOLEAN /\ evidence' \in Seq(Files) /\ queue' \subseteq Tasks'
         /\ reviews' \in 0..MaxReviews /\ renders' \in 0..MaxRenders
         /\ DOMAIN disk' = Names /\ DOMAIN objects' = Names
    BY <1>0, <2>1, <2>6 DEF TypeOK
  <2>13. Versions' = Versions /\ Names' = Names
    BY DEF Versions, Names
  <2> QED
    BY <2>4, <2>5, <2>8, <2>9, <2>10, <2>11, <2>12, <2>13 DEF Basics, TypeOK
<1>3. CASE \/ CommitCreate(c) /\ ~(request[c].version > Len(reports))
           \/ \E ok \in BOOLEAN : Post(c, ok)
  <2>1. /\ request' = [request EXCEPT ![c] = NoRequest]
        /\ UNCHANGED <<remote, evidence, reviews, reports, receipts, work, disk, objects, renders>>
    BY <1>3 DEF CommitCreate, Post
  <2>2. queue' \subseteq Tasks
    <3>1. CASE queue' = queue
      BY <1>0, <3>1 DEF TypeOK
    <3>2. CASE /\ request[c].pc = "posting"
               /\ queue' = queue \cup {[version |-> request[c].version, retries |-> 0]}
      <4>1. [version |-> request[c].version, retries |-> 0] \in Tasks
        BY <1>0, <3>2 DEF RequestsKnown, Tasks
      <4> QED
        BY <1>0, <3>2, <4>1 DEF TypeOK
    <3> QED
      BY <1>3, <3>1, <3>2 DEF CommitCreate, Post
  <2>3. DOMAIN work' = Workers /\ \A w \in Workers : IsWork(work[w])'
    BY <1>0, <2>1, WorkStays
  <2>4. Requests' = Requests /\ Tasks' = Tasks /\ Reports' = Reports
    BY <2>1 DEF Requests, Tasks, Reports, Statuses
  <2>5. NoRequest \in Requests /\ NoRequest.pc = "idle"
    BY <1>0 DEF Requests, NoRequest
  <2>6. request' \in [Clients -> Requests]
    BY <1>0, <2>1, <2>5 DEF TypeOK
  <2>7. RequestsKnown'
    BY <1>0, <2>1, <2>5 DEF RequestsKnown, TypeOK, Versions
  <2> QED
    BY <1>0, <2>1, <2>2, <2>3, <2>4, <2>6, <2>7 DEF Basics, TypeOK
<1> QED
  BY <1>1, <1>2, <1>3 DEF Answer, CommitCreate

\* A worker's step, from what it does to each table.
LEMMA WorkerStep ==
    ASSUME Basics, NEW w \in Workers, NEW t, IsWork(t), work' = [work EXCEPT ![w] = t],
           UNCHANGED <<remote, evidence, reviews, request>>,
           reports' \in Seq(Reports), Len(reports') = Len(reports),
           queue' \subseteq Tasks, renders' \in 0..MaxRenders,
           DOMAIN receipts' = Versions, \A v \in Versions : receipts'[v] # None => v <= Len(reports),
           DOMAIN disk' = Names, DOMAIN objects' = Names
    PROVE  Basics'
<1>1. DOMAIN work' = Workers /\ \A x \in Workers : IsWork(work[x])'
  BY WorkMoves DEF Basics
<1>2. /\ reviews' \in 0..MaxReviews /\ request' \in [Clients -> Requests'] /\ RequestsKnown'
      /\ Tasks' = Tasks /\ Reports' = Reports
  BY RestStays
<1>3. remote' \in BOOLEAN /\ evidence' \in Seq(Files) /\ Len(reports') <= MaxReports
  BY DEF Basics, TypeOK
<1>4. Versions' = Versions /\ Names' = Names
  BY DEF Versions, Names
<1> QED
  BY <1>1, <1>2, <1>3, <1>4 DEF Basics, TypeOK

LEMMA BasicsKeptByWorker ==
    ASSUME Basics, NEW w \in Workers, Generate(w) \/ Crash(w)
    PROVE  Basics'
<1> USE SealingAssumption
<1>0. /\ TypeOK /\ Len(reports) \in Nat /\ reviews \in Nat /\ reports \in Seq(Reports) /\ queue \subseteq Tasks
      /\ renders \in 0..MaxRenders /\ IsWork(NoWork)
      /\ DOMAIN receipts = Versions /\ DOMAIN disk = Names /\ DOMAIN objects = Names
      /\ \A v \in Versions : receipts[v] # None => v <= Len(reports)
  BY IdleWork DEF Basics, TypeOK
<1>1. ASSUME NEW task \in queue, Begin(w, task) PROVE Basics'
  <2> DEFINE t == [pc |-> "rendering", version |-> task.version, retries |-> task.retries,
                   snapshot |-> reports[task.version].snapshot, receipt |-> None]
             r == [reports[task.version] EXCEPT !.status = "running"]
  <2>1. task \in Tasks /\ task.version \in 1..Len(reports) /\ task.retries \in 0..MaxRetries
    BY <1>0 DEF Tasks
  <2>2. r \in Reports /\ reports' = [reports EXCEPT ![task.version] = r]
    BY <1>0, <1>1, <2>1, RowMarked DEF Begin, Statuses
  <2>3. reports[task.version].snapshot \in 0..reviews
    <3>1. reports[task.version] \in Reports
      BY <1>0, <2>1
    <3> QED
      BY <3>1 DEF Reports
  <2>4. IsWork(t)
    BY <2>1, <2>3 DEF IsWork, Steps
  <2>5. work' = [work EXCEPT ![w] = t]
    BY <1>1 DEF Begin
  <2> HIDE DEF t, r
  <2>6. reports' \in Seq(Reports) /\ Len(reports') = Len(reports)
    BY <1>0, <1>1, <2>1, <2>2, RowChanges DEF Begin
  <2> QED
    BY <1>0, <1>1, <2>4, <2>5, <2>6, WorkerStep DEF Begin
<1>12. CASE TakeSnapshot(w)
  <2> DEFINE t == [work[w] EXCEPT !.pc = "printing", !.snapshot = reviews]
  <2>1. IsWork(t) /\ work' = [work EXCEPT ![w] = t]
    BY <1>0, <1>12, StepWork DEF TakeSnapshot, Steps
  <2> HIDE DEF t
  <2> QED
    BY <1>0, <1>12, <2>1, WorkerStep DEF TakeSnapshot
<1>2. CASE LayOut(w)
  <2> DEFINE t == [work[w] EXCEPT !.pc = "sealing"]
  <2>1. IsWork(t) /\ work' = [work EXCEPT ![w] = t]
    BY <1>0, <1>2, StepWork DEF LayOut, Steps
  <2> HIDE DEF t
  <2>2. renders' \in 0..MaxRenders /\ DOMAIN disk' = Names
    BY <1>0, <1>2 DEF LayOut
  <2> QED
    BY <1>0, <1>2, <2>1, <2>2, WorkerStep DEF LayOut
<1>3. CASE Seal(w)
  <2> DEFINE t == [work[w] EXCEPT !.pc = "publishing pdf", !.receipt = ReceiptFor(w)]
  <2>1. IsWork(t) /\ work' = [work EXCEPT ![w] = t]
    BY <1>0, <1>3, StepWork DEF Seal, Steps
  <2> HIDE DEF t
  <2> QED
    BY <1>0, <1>3, <2>1, WorkerStep DEF Seal
<1>4. ASSUME NEW from, NEW to \in Steps \ {"idle"}, NEW name, from # "idle", Publish(w, from, to, name)
      PROVE  Basics'
  <2> DEFINE t == [work[w] EXCEPT !.pc = to]
  <2>1. IsWork(t) /\ work' = [work EXCEPT ![w] = t]
    BY <1>0, <1>4, StepWork DEF Publish
  <2>2. DOMAIN objects' = Names
    BY <1>0, <1>4 DEF Publish, Uploaded
  <2> HIDE DEF t
  <2> QED
    BY <1>0, <1>4, <2>1, <2>2, WorkerStep DEF Publish
<1>5. CASE Commit(w)
  <2> DEFINE r == [status |-> "succeeded", snapshot |-> work[w].snapshot, published |-> TRUE]
             v == work[w].version
  <2>1. v \in 1..Len(reports) /\ v \in Versions /\ work[w].snapshot \in 0..reviews
    BY <1>0, <1>5, BusyWork DEF Commit
  <2>2. r \in Reports /\ reports' = [reports EXCEPT ![v] = r] /\ work' = [work EXCEPT ![w] = NoWork]
    BY <1>5, <2>1 DEF Reports, Statuses, Commit
  <2>3. DOMAIN receipts' = Versions /\ \A x \in Versions : receipts'[x] # None => x <= Len(reports)
    BY <1>0, <1>5, <2>1 DEF Commit
  <2> HIDE DEF r, v
  <2>4. reports' \in Seq(Reports) /\ Len(reports') = Len(reports)
    BY <1>0, <1>5, <2>1, <2>2, RowChanges DEF Commit
  <2> QED
    BY <1>0, <1>5, <2>2, <2>3, <2>4, WorkerStep DEF Commit
<1>6. ASSUME work[w].pc # "idle", reports' = Failed(w), reviews' = reviews
      PROVE  reports' \in Seq(Reports) /\ Len(reports') = Len(reports)
  <2> DEFINE v == work[w].version
             r == [reports[v] EXCEPT !.status = "failed"]
  <2>1. v \in 1..Len(reports)
    BY <1>0, <1>6, BusyWork
  <2>2. r \in Reports /\ reports' = [reports EXCEPT ![v] = r]
    BY <1>0, <1>6, <2>1, RowMarked DEF Failed, Statuses
  <2> HIDE DEF r, v
  <2> QED
    BY <1>0, <1>6, <2>1, <2>2, RowChanges
<1>7. CASE DiskFails(w)
  <2>1. work[w].version \in 1..Len(reports) /\ work[w].retries \in 0..MaxRetries
    BY <1>0, <1>7, BusyWork DEF DiskFails
  <2>2. queue' \subseteq Tasks
    <3>1. CASE queue' = queue
      BY <1>0, <3>1
    <3>2. CASE /\ work[w].retries < MaxRetries
               /\ queue' = queue \cup {[version |-> work[w].version, retries |-> work[w].retries + 1]}
      <4>1. work[w].retries + 1 \in 0..MaxRetries
        BY <2>1, <3>2
      <4>2. [version |-> work[w].version, retries |-> work[w].retries + 1] \in Tasks
        BY <2>1, <4>1 DEF Tasks
      <4> QED
        BY <1>0, <3>2, <4>2
    <3> QED
      BY <1>7, <3>1, <3>2 DEF DiskFails
  <2>3. work' = [work EXCEPT ![w] = NoWork] /\ work[w].pc # "idle"
    BY <1>7 DEF DiskFails
  <2> QED
    BY <1>0, <1>6, <1>7, <2>2, <2>3, WorkerStep DEF DiskFails
<1>8. ASSUME NEW taken \in BOOLEAN, Fails(w, taken) PROVE Basics'
  <2>1. DOMAIN objects' = Names
    BY <1>0, <1>8 DEF Fails, Uploaded
  <2> QED
    BY <1>0, <1>6, <1>8, <2>1, WorkerStep DEF Fails
<1>9. CASE Crash(w)
  BY <1>0, <1>9, WorkerStep DEF Crash
<1>10. CASE PublishPdf(w)
  BY <1>4, <1>10 DEF PublishPdf, Steps
<1>11. CASE PublishManifest(w)
  BY <1>4, <1>11 DEF PublishManifest, Steps
<1> QED
  BY <1>1, <1>2, <1>3, <1>5, <1>7, <1>8, <1>9, <1>10, <1>11, <1>12 DEF Generate

LEMMA BasicsKept == Basics /\ [Next]_reportVars => Basics'
<1> SUFFICES ASSUME Basics, [Next]_reportVars PROVE Basics'
  OBVIOUS
<1>1. CASE UNCHANGED reportVars
  BY <1>1 DEF reportVars, Basics, TypeOK, RequestsKnown, Requests, Reports, Tasks, Statuses, Versions,
              Names, IsWork, NoWork, Steps
<1>2. CASE \E f \in Files, place \in 1..(Len(evidence) + 1) : AddFile(f, place)
  BY <1>2, BasicsKeptByCase
<1>3. CASE Review
  BY <1>3, BasicsKeptByCase
<1>4. CASE \E c \in Clients : BeginCreate(c) \/ Answer(c)
  BY <1>4, BasicsKeptByRequest
<1>5. CASE \E w \in Workers : Generate(w) \/ Crash(w)
  BY <1>5, BasicsKeptByWorker
<1> QED
  BY <1>1, <1>2, <1>3, <1>4, <1>5 DEF Next

\* Rows, receipts, requests, tasks and workers hold only what the code can put
\* there, whatever fails and however often.
THEOREM SealingTypeCorrect == Spec => []TypeOK
<1>1. Basics => TypeOK
  BY DEF Basics
<1> QED
  BY BasicsStart, BasicsKept, <1>1, PTL DEF Spec

-------------------------------------------------------------------------------
\* Whose hands a report is in: a request that is to post its task, the task in
\* the queue, a worker. It is in no more than one, and in none once it
\* succeeded: that is what makes its seal safe from a second attempt.
Posting(c, v) == request[c].pc = "posting" /\ request[c].version = v
Busy(w, v) == work[w].pc # "idle" /\ work[w].version = v

OneRequest == \A c, d \in Clients, v \in Versions : Posting(c, v) /\ Posting(d, v) => c = d
OneTask == \A s, t \in queue : s.version = t.version => s = t
OneWorker == \A w, x \in Workers, v \in Versions : Busy(w, v) /\ Busy(x, v) => w = x
PostedOnce ==
    \A c \in Clients, v \in Versions : Posting(c, v) =>
        (\A t \in queue : t.version # v) /\ (\A w \in Workers : ~Busy(w, v))
TakenOnce == \A t \in queue, w \in Workers : ~Busy(w, t.version)
LeftAlone ==
    \A v \in Succeeded :
        /\ \A c \in Clients : ~Posting(c, v)
        /\ \A t \in queue : t.version # v
        /\ \A w \in Workers : ~Busy(w, v)

OneHand == OneRequest /\ OneTask /\ OneWorker /\ PostedOnce /\ TakenOnce /\ LeftAlone

\* Every holder's version has a row.
LEMMA HeldVersions ==
    ASSUME Basics
    PROVE  /\ \A c \in Clients : \A v : Posting(c, v) => v \in Versions /\ v \in 1..Len(reports)
           /\ \A t \in queue : t.version \in Versions /\ t.version \in 1..Len(reports)
           /\ \A w \in Workers : \A v : Busy(w, v) => v \in Versions /\ v \in 1..Len(reports)
<1>1. 1..Len(reports) \subseteq Versions
  BY SealingAssumption DEF Basics, TypeOK, Versions
<1>2. ASSUME NEW t \in queue PROVE t.version \in 1..Len(reports)
  BY DEF Basics, TypeOK, Tasks
<1>3. ASSUME NEW c \in Clients, NEW v, Posting(c, v) PROVE v \in 1..Len(reports)
  BY <1>3 DEF Basics, RequestsKnown, Posting
<1>4. ASSUME NEW w \in Workers, NEW v, Busy(w, v) PROVE v \in 1..Len(reports)
  BY <1>4, BusyWork DEF Basics, Busy
<1> QED
  BY <1>1, <1>2, <1>3, <1>4

LEMMA OneHandStart == Init => OneHand
  BY DEF Init, OneHand, OneRequest, OneTask, OneWorker, PostedOnce, TakenOnce, LeftAlone, Posting, Busy,
         Succeeded, NoRequest, NoWork

\* A request that fails, or that hands its version to the queue.
LEMMA OneHandKeptByPost ==
    ASSUME Basics, OneHand, NEW c \in Clients, NEW accepted \in BOOLEAN, Post(c, accepted)
    PROVE  OneHand'
<1> PICK n : n = request[c].version
  OBVIOUS
<1> DEFINE new == [version |-> n, retries |-> 0]
<1>1. /\ request[c].pc = "posting" /\ request' = [request EXCEPT ![c] = NoRequest]
      /\ queue' \subseteq queue \cup {new} /\ new.version = n
      /\ UNCHANGED <<reports, work>>
  BY DEF Post
<1>2. Posting(c, n) /\ n \in Versions /\ n \in 1..Len(reports)
  BY <1>1, HeldVersions DEF Posting
<1> HIDE DEF new
<1>3. /\ \A d \in Clients : \A v : Posting(d, v)' => d # c /\ Posting(d, v)
      /\ \A w, v : Busy(w, v)' = Busy(w, v)
      /\ Succeeded' = Succeeded
  BY <1>1 DEF Basics, TypeOK, Posting, Busy, Succeeded, NoRequest
<1>4. (\A t \in queue : t.version # n) /\ (\A w \in Workers : ~Busy(w, n)) /\ n \notin Succeeded
  BY <1>2 DEF OneHand, PostedOnce, LeftAlone
<1>5. \A d \in Clients : ~Posting(d, n)'
  BY <1>2, <1>3 DEF OneHand, OneRequest
<1>6. OneRequest'
  BY <1>3 DEF OneHand, OneRequest, Versions
<1>7. OneTask'
  BY <1>1, <1>4 DEF OneHand, OneTask
<1>8. OneWorker'
  BY <1>3 DEF OneHand, OneWorker, Versions
<1>9. PostedOnce'
  BY <1>1, <1>3, <1>5 DEF OneHand, PostedOnce, Versions
<1>10. TakenOnce'
  BY <1>1, <1>3, <1>4 DEF OneHand, TakenOnce
<1>11. LeftAlone'
  BY <1>1, <1>3, <1>4 DEF OneHand, LeftAlone
<1> QED
  BY <1>6, <1>7, <1>8, <1>9, <1>10, <1>11 DEF OneHand

\* A new version is in nobody's hands but those of the request that made it.
LEMMA OneHandKeptByCreate ==
    ASSUME Basics, OneHand, NEW c \in Clients, BeginCreate(c) \/ CommitCreate(c)
    PROVE  OneHand'
<1>0. Len(reports) \in Nat /\ reports \in Seq(Reports) /\ request \in [Clients -> Requests]
  BY DEF Basics, TypeOK
<1>1. /\ UNCHANGED <<queue, work>>
      /\ Succeeded' = Succeeded
      /\ \A w, v : Busy(w, v)' = Busy(w, v)
  <2>1. UNCHANGED <<queue, work>>
    BY DEF BeginCreate, CommitCreate
  <2>2. CASE reports' = reports
    BY <2>1, <2>2 DEF Succeeded, Busy
  <2>3. CASE reports' = Append(reports, [status |-> "pending", snapshot |-> request[c].snapshot, published |-> FALSE])
    <3>1. /\ Len(reports') = Len(reports) + 1
          /\ \A v \in 1..Len(reports) : reports'[v] = reports[v]
          /\ reports'[Len(reports) + 1] = [status |-> "pending", snapshot |-> request[c].snapshot, published |-> FALSE]
      BY <1>0, <2>3
    <3>2. \A v \in 1..(Len(reports) + 1) : v \in 1..Len(reports) \/ v = Len(reports) + 1
      BY <1>0
    <3>3. reports'[Len(reports) + 1].status # "succeeded"
      BY <3>1
    <3>4. 1..Len(reports) \subseteq 1..Len(reports')
      BY <1>0, <3>1
    <3> QED
      BY <2>1, <3>1, <3>2, <3>3, <3>4 DEF Succeeded, Busy
  <2> QED
    BY <2>2, <2>3 DEF BeginCreate, CommitCreate
<1>2. \/ \A d \in Clients : \A v : Posting(d, v)' => Posting(d, v)
      \/ \A d \in Clients : \A v : Posting(d, v)'
                => (Posting(d, v) /\ d # c) \/ (d = c /\ v = Len(reports) + 1)
  <2>1. CASE \/ request' = [request EXCEPT ![c] = [pc |-> "creating", version |-> Len(reports) + 1, snapshot |-> reviews]]
             \/ request' = [request EXCEPT ![c] = NoRequest]
    BY <1>0, <2>1 DEF Posting, NoRequest
  <2>2. CASE request[c].version > Len(reports) /\ request' = [request EXCEPT ![c].pc = "posting"]
    <3>1. request[c] \in Requests
      BY <1>0
    <3>2. request[c].version = Len(reports) + 1
      BY <1>0, <2>2, <3>1 DEF Requests
    <3>3. \A d \in Clients : request'[d] = IF d = c THEN [request[c] EXCEPT !.pc = "posting"] ELSE request[d]
      BY <1>0, <2>2
    <3>4. [request[c] EXCEPT !.pc = "posting"].version = request[c].version
      BY <3>1 DEF Requests
    <3> QED
      BY <3>2, <3>3, <3>4 DEF Posting
  <2> QED
    BY <2>1, <2>2 DEF BeginCreate, CommitCreate
<1>3. \A t \in queue : t.version # Len(reports) + 1
  BY <1>0, HeldVersions
<1>4. \A w \in Workers : ~Busy(w, Len(reports) + 1)
  BY <1>0, HeldVersions
<1>5. \A d \in Clients : ~Posting(d, Len(reports) + 1)
  BY <1>0, HeldVersions
<1>6. Len(reports) + 1 \notin Succeeded
  BY <1>0 DEF Succeeded
<1>7. OneRequest' /\ PostedOnce'
  BY <1>1, <1>2, <1>3, <1>4, <1>5 DEF OneHand, OneRequest, PostedOnce, Versions
<1>8. OneTask' /\ OneWorker' /\ TakenOnce'
  BY <1>1 DEF OneHand, OneTask, OneWorker, TakenOnce, Versions
<1>9. LeftAlone'
  BY <1>1, <1>2, <1>6 DEF OneHand, LeftAlone
<1> QED
  BY <1>7, <1>8, <1>9 DEF OneHand

\* A worker takes a task from the queue.
LEMMA OneHandKeptByBegin ==
    ASSUME Basics, OneHand, NEW w \in Workers, NEW task \in queue, Begin(w, task)
    PROVE  OneHand'
<1> DEFINE n == task.version
<1>0. n \in Versions /\ n \in 1..Len(reports)
  BY HeldVersions
<1>1. /\ queue' = queue \ {task} /\ UNCHANGED request
      /\ \A x \in Workers : \A v : Busy(x, v)' => Busy(x, v) \/ (x = w /\ v = n)
      /\ \A v : ~Busy(w, v)
  BY DEF Begin, Basics, TypeOK, Busy, NoWork
<1>2. Succeeded' \subseteq Succeeded
  <2>1. /\ reports' = [reports EXCEPT ![n] = [reports[n] EXCEPT !.status = "running"]]
        /\ UNCHANGED reviews /\ [reports[n] EXCEPT !.status = "running"] \in Reports
    BY <1>0, RowMarked DEF Begin, Basics, Statuses
  <2>2. reports[n] \in Reports
    BY <1>0 DEF Basics, TypeOK
  <2>3. [reports[n] EXCEPT !.status = "running"].status = "running"
    BY <2>2 DEF Reports
  <2> QED
    BY <1>0, <2>1, <2>3, RowChanges DEF Basics, Succeeded
<1> HIDE DEF n
<1>3. /\ \A c \in Clients : ~Posting(c, n)
      /\ \A x \in Workers : ~Busy(x, n)
      /\ \A t \in queue' : t.version # n
      /\ n \notin Succeeded
  BY <1>0, <1>1 DEF n, OneHand, PostedOnce, OneTask, TakenOnce, LeftAlone
<1>4. \A c, v : Posting(c, v)' = Posting(c, v)
  BY <1>1 DEF Posting
<1>5. OneRequest' /\ OneTask'
  BY <1>1, <1>4 DEF OneHand, OneRequest, OneTask, Versions
<1>6. OneWorker'
  BY <1>1, <1>3 DEF OneHand, OneWorker, Versions
<1>7. PostedOnce'
  BY <1>1, <1>3, <1>4 DEF OneHand, PostedOnce, Versions
<1>8. TakenOnce'
  BY <1>1, <1>3 DEF OneHand, TakenOnce
<1>9. LeftAlone'
  BY <1>1, <1>2, <1>3, <1>4 DEF OneHand, LeftAlone
<1> QED
  BY <1>5, <1>6, <1>7, <1>8, <1>9 DEF OneHand

\* A worker goes on with its report, and no row changes.
LEMMA OneHandKeptByStep ==
    ASSUME Basics, OneHand, NEW w \in Workers, work[w].pc # "idle",
           NEW t, work' = [work EXCEPT ![w] = t], t.version = work[w].version,
           UNCHANGED <<reports, request, queue>>
    PROVE  OneHand'
<1>1. /\ Succeeded' = Succeeded
      /\ \A c, v : Posting(c, v)' = Posting(c, v)
      /\ \A x \in Workers : \A v : Busy(x, v)' => Busy(x, v)
  BY DEF Basics, TypeOK, Succeeded, Posting, Busy
<1>2. OneRequest' /\ OneTask' /\ OneWorker'
  BY <1>1 DEF OneHand, OneRequest, OneTask, OneWorker, Versions
<1>3. PostedOnce' /\ TakenOnce' /\ LeftAlone'
  BY <1>1 DEF OneHand, PostedOnce, TakenOnce, LeftAlone, Versions
<1> QED
  BY <1>2, <1>3 DEF OneHand

\* A worker is done with its report: for good, or to have it queued again.
LEMMA OneHandKeptByEnd ==
    ASSUME Basics, OneHand, NEW w \in Workers, work[w].pc # "idle",
           work' = [work EXCEPT ![w] = NoWork], UNCHANGED request,
           NEW t, t.version = work[w].version,
           \/ queue' = queue /\ Succeeded' \subseteq Succeeded \cup {work[w].version}
           \/ queue' = queue \cup {t} /\ Succeeded' \subseteq Succeeded
    PROVE  OneHand'
<1> PICK n : n = work[w].version
  OBVIOUS
<1>0. Busy(w, n) /\ n \in Versions
  BY HeldVersions DEF Busy
<1>1. /\ \A c, v : Posting(c, v)' = Posting(c, v)
      /\ \A x \in Workers : \A v : Busy(x, v)' => Busy(x, v) /\ x # w
      /\ \A x \in queue' : x \in queue \/ x = t
  BY DEF Basics, TypeOK, Posting, Busy, NoWork
<1>2. /\ \A x \in queue : x.version # n
      /\ \A c \in Clients : ~Posting(c, n)
      /\ \A x \in Workers : Busy(x, n) => x = w
      /\ n \notin Succeeded
  BY <1>0 DEF OneHand, TakenOnce, PostedOnce, OneWorker, LeftAlone
<1>3. \A x \in Workers : ~Busy(x, n)'
  BY <1>1, <1>2
<1>4. OneRequest' /\ OneWorker'
  BY <1>1 DEF OneHand, OneRequest, OneWorker, Versions
<1>5. OneTask'
  BY <1>1, <1>2 DEF OneHand, OneTask
<1>6. PostedOnce'
  BY <1>1, <1>2 DEF OneHand, PostedOnce, Versions
<1>7. TakenOnce'
  BY <1>1, <1>3 DEF OneHand, TakenOnce
<1>8. LeftAlone'
  BY <1>1, <1>2, <1>3 DEF OneHand, LeftAlone
<1> QED
  BY <1>4, <1>5, <1>6, <1>7, <1>8 DEF OneHand

\* A row marked as failed is not one that succeeded.
LEMMA MarkedFailed ==
    ASSUME Basics, NEW w \in Workers, work[w].pc # "idle", reports' = Failed(w), UNCHANGED reviews
    PROVE  /\ Succeeded' \subseteq Succeeded
           /\ \A v \in 1..Len(reports) : v # work[w].version => reports'[v] = reports[v]
<1> PICK n : n = work[w].version
  OBVIOUS
<1>1. n \in 1..Len(reports)
  BY BusyWork DEF Basics
<1>2. /\ reports' = [reports EXCEPT ![n] = [reports[n] EXCEPT !.status = "failed"]]
      /\ [reports[n] EXCEPT !.status = "failed"] \in Reports
  BY <1>1, RowMarked DEF Failed, Basics, Statuses
<1>3. [reports[n] EXCEPT !.status = "failed"].status = "failed"
  <2>1. reports[n] \in Reports
    BY <1>1 DEF Basics, TypeOK
  <2> QED
    BY <2>1 DEF Reports
<1> QED
  BY <1>1, <1>2, <1>3, RowChanges DEF Basics, Succeeded

LEMMA OneHandKept == Basics /\ OneHand /\ [Next]_reportVars => OneHand'
<1> SUFFICES ASSUME Basics, OneHand, [Next]_reportVars PROVE OneHand'
  OBVIOUS
<1>1. ASSUME UNCHANGED <<reports, request, queue, work>> PROVE OneHand'
  BY <1>1 DEF OneHand, OneRequest, OneTask, OneWorker, PostedOnce, TakenOnce, LeftAlone, Posting, Busy,
              Succeeded, Versions
<1>2. CASE \/ UNCHANGED reportVars \/ Review
           \/ \E f \in Files, place \in 1..(Len(evidence) + 1) : AddFile(f, place)
  BY <1>1, <1>2 DEF reportVars, Review, AddFile
<1>3. CASE \E c \in Clients : BeginCreate(c) \/ Answer(c)
  BY <1>3, OneHandKeptByPost, OneHandKeptByCreate DEF Answer
<1>4. ASSUME NEW w \in Workers, Generate(w) \/ Crash(w) PROVE OneHand'
  <2>1. CASE \E task \in queue : Begin(w, task)
    BY <2>1, OneHandKeptByBegin
  <2>2. CASE TakeSnapshot(w) \/ LayOut(w) \/ Seal(w) \/ PublishPdf(w) \/ PublishManifest(w)
    <3>0. /\ work[w].pc # "idle" /\ UNCHANGED <<reports, request, queue>>
          /\ IsWork(work[w])
      BY <2>2 DEF Basics, TypeOK, TakeSnapshot, LayOut, Seal, PublishPdf, PublishManifest, Publish
    <3>1. \E t : work' = [work EXCEPT ![w] = t] /\ t.version = work[w].version
      <4> DEFINE a(pc) == [work[w] EXCEPT !.pc = pc]
                 b(pc) == [a(pc) EXCEPT !.snapshot = reviews]
                 c(pc) == [a(pc) EXCEPT !.receipt = ReceiptFor(w)]
      <4>1. \A pc : a(pc).version = work[w].version /\ b(pc).version = work[w].version
                    /\ c(pc).version = work[w].version
        BY <3>0 DEF IsWork
      <4>5. CASE LayOut(w)
        <5>1. work' = [work EXCEPT ![w] = a("sealing")]
          BY <4>5 DEF LayOut
        <5> HIDE DEF a
        <5> QED
          BY <4>1, <5>1
      <4>2. CASE TakeSnapshot(w)
        <5>1. work' = [work EXCEPT ![w] = b("printing")]
          BY <4>2 DEF TakeSnapshot
        <5> HIDE DEF a, b
        <5> QED
          BY <4>1, <5>1
      <4>3. CASE Seal(w)
        <5>1. work' = [work EXCEPT ![w] = c("publishing pdf")]
          BY <4>3 DEF Seal
        <5> HIDE DEF a, c
        <5> QED
          BY <4>1, <5>1
      <4>4. CASE PublishPdf(w) \/ PublishManifest(w)
        <5>1. \E pc : work' = [work EXCEPT ![w] = a(pc)]
          BY <4>4 DEF PublishPdf, PublishManifest, Publish
        <5> HIDE DEF a
        <5> QED
          BY <4>1, <5>1
      <4> QED
        BY <2>2, <4>2, <4>3, <4>4, <4>5
    <3> QED
      BY <3>0, <3>1, OneHandKeptByStep
  <2>3. CASE Commit(w)
    <3>1. Succeeded' \subseteq Succeeded \cup {work[w].version}
      <4>1. work[w].version \in 1..Len(reports)
        BY <2>3, BusyWork DEF Commit, Basics
      <4> QED
        BY <2>3, <4>1 DEF Commit, Basics, TypeOK, Succeeded
    <3>2. /\ work[w].pc # "idle" /\ work' = [work EXCEPT ![w] = NoWork] /\ UNCHANGED request
          /\ queue' = queue /\ [version |-> work[w].version].version = work[w].version
      BY <2>3 DEF Commit
    <3> QED
      BY <3>1, <3>2, OneHandKeptByEnd
  <2>4. CASE DiskFails(w)
    <3>1. Succeeded' \subseteq Succeeded
      BY <2>4, MarkedFailed DEF DiskFails
    <3> DEFINE t == [version |-> work[w].version, retries |-> work[w].retries + 1]
    <3>2. /\ work[w].pc # "idle" /\ work' = [work EXCEPT ![w] = NoWork] /\ UNCHANGED request
          /\ queue' = queue \/ queue' = queue \cup {t}
          /\ t.version = work[w].version
      BY <2>4 DEF DiskFails
    <3> HIDE DEF t
    <3> QED
      BY <3>1, <3>2, OneHandKeptByEnd
  <2>5. CASE (\E taken \in BOOLEAN : Fails(w, taken)) \/ Crash(w)
    <3>1. Succeeded' \subseteq Succeeded
      BY <2>5, MarkedFailed DEF Fails, Crash, Succeeded
    <3>2. /\ work[w].pc # "idle" /\ work' = [work EXCEPT ![w] = NoWork] /\ UNCHANGED request
          /\ queue' = queue /\ [version |-> work[w].version].version = work[w].version
      BY <2>5 DEF Fails, Crash
    <3> QED
      BY <3>1, <3>2, OneHandKeptByEnd
  <2> QED
    BY <1>4, <2>1, <2>2, <2>3, <2>4, <2>5 DEF Generate
<1> QED
  BY <1>2, <1>3, <1>4 DEF Next

-------------------------------------------------------------------------------
\* How far a worker has come with its seal, and what it has on disk and in the
\* store by then.
Sealing(w) ==
    LET v == work[w].version
    IN  work[w].pc = "sealing" =>
            /\ IsPrint(disk[Pdf(v)]) /\ disk[Pdf(v)].snapshot = work[w].snapshot
            /\ disk[Pdf(v)].files \subseteq Listed(evidence)

\* The receipt is of the print on the disk, and lies next to it.
Receipted(v, r, s) ==
    /\ IsPrint(disk[Pdf(v)]) /\ disk[Pdf(v)].snapshot = s
    /\ IsReceipt(r) /\ r.report = disk[Pdf(v)].made /\ r.snapshot = s
    /\ \A f \in disk[Pdf(v)].files : Leaf(f) \in Listed(r.leaves)
    /\ Leaves(r.leaves) /\ r.root = root(r.leaves)
    /\ disk[Manifest(v)] = r

WorkSealed(w) ==
    LET v == work[w].version
    IN  /\ work[w].pc \in {"publishing pdf", "publishing manifest", "committing"}
             => Receipted(v, work[w].receipt, work[w].snapshot)
        /\ work[w].pc \in {"publishing manifest", "committing"} /\ remote
             => objects[Pdf(v)] = disk[Pdf(v)]
        /\ work[w].pc = "committing" /\ remote => objects[Manifest(v)] = disk[Manifest(v)]

\* A report that succeeded: its receipt is of the print, and both are published.
Published(v) ==
    /\ Receipted(v, receipts[v], reports[v].snapshot)
    /\ remote => objects[Pdf(v)] = disk[Pdf(v)] /\ objects[Manifest(v)] = disk[Manifest(v)]

Seals == (\A w \in Workers : Sealing(w) /\ WorkSealed(w)) /\ (\A v \in Succeeded : Published(v))

\* The inductive invariant of a case's reports.
SealInv == Basics /\ OneHand /\ Seals

LEMMA SealsStart == Init => Seals
<1> SUFFICES ASSUME Init PROVE Seals
  OBVIOUS
<1>1. \A w \in Workers : work[w].pc = "idle"
  BY DEF Init, NoWork
<1>2. \A w \in Workers : Sealing(w) /\ WorkSealed(w)
  BY <1>1 DEF Sealing, WorkSealed
<1>3. Succeeded = {}
  BY DEF Init, Succeeded
<1> QED
  BY <1>2, <1>3 DEF Seals

\* A step that writes under one version's names only.
WritesOnly(n) ==
    \A v \in Versions : v # n =>
        /\ disk'[Pdf(v)] = disk[Pdf(v)] /\ disk'[Manifest(v)] = disk[Manifest(v)]
        /\ objects'[Pdf(v)] = objects[Pdf(v)] /\ objects'[Manifest(v)] = objects[Manifest(v)]

\* Such a step leaves every other version's seal what it was.
LEMMA OthersStay ==
    ASSUME Basics, Seals, NEW n, WritesOnly(n), UNCHANGED remote, Listed(evidence) \subseteq Listed(evidence)'
    PROVE  /\ \A x \in Workers : work'[x] = work[x] /\ ~Busy(x, n) => Sealing(x)' /\ WorkSealed(x)'
           /\ \A v \in Succeeded :
                v # n /\ reports'[v] = reports[v] /\ receipts'[v] = receipts[v] => Published(v)'
<1>1. ASSUME NEW x \in Workers, work'[x] = work[x], ~Busy(x, n) PROVE Sealing(x)' /\ WorkSealed(x)'
  <2>1. CASE work[x].pc = "idle"
    BY <1>1, <2>1 DEF Sealing, WorkSealed
  <2>2. CASE work[x].pc # "idle"
    <3>1. work[x].version \in Versions /\ work[x].version # n
      BY <1>1, <2>2, BusyWork DEF Basics, Busy
    <3>2. Sealing(x) /\ WorkSealed(x)
      BY DEF Seals
    <3>3. Sealing(x)'
      BY <1>1, <3>1, <3>2 DEF Sealing, WritesOnly, IsPrint
    <3>4. WorkSealed(x)'
      BY <1>1, <3>1, <3>2 DEF WorkSealed, Receipted, WritesOnly, IsPrint, IsReceipt
    <3> QED
      BY <3>3, <3>4
  <2> QED
    BY <2>1, <2>2
<1>2. ASSUME NEW v \in Succeeded, v # n, reports'[v] = reports[v], receipts'[v] = receipts[v]
      PROVE  Published(v)'
  <2>1. v \in Versions
    BY SealingAssumption DEF Basics, TypeOK, Versions, Succeeded
  <2>2. Published(v)
    BY DEF Seals
  <2> QED
    BY <1>2, <2>1, <2>2 DEF Published, Receipted, WritesOnly, IsPrint, IsReceipt
<1> QED
  BY <1>1, <1>2

\* The names of different versions, and of a report and its manifest, differ.
LEMMA NamesDiffer ==
    /\ \A v \in Versions : Pdf(v) \in Names /\ Manifest(v) \in Names
    /\ \A v, x : Pdf(v) # Manifest(x) /\ Manifest(v) # Pdf(x)
    /\ \A v, x : v # x => Pdf(v) # Pdf(x) /\ Manifest(v) # Manifest(x)
  BY DEF Pdf, Manifest, Names

\* The worker of a version is the only one, and the version has not succeeded.
LEMMA WorkersOwn ==
    ASSUME Basics, OneHand, NEW w \in Workers, work[w].pc # "idle"
    PROVE  /\ work[w].version \in Versions /\ work[w].version \in 1..Len(reports)
           /\ \A x \in Workers : x # w => ~Busy(x, work[w].version)
           /\ work[w].version \notin Succeeded
<1>1. work[w].version \in Versions /\ work[w].version \in 1..Len(reports) /\ Busy(w, work[w].version)
  BY BusyWork DEF Basics, Busy
<1> QED
  BY <1>1 DEF OneHand, OneWorker, LeftAlone

\* Every file of the case has its leaf among the leaves.
LEMMA LeavesOfAll ==
    ASSUME evidence \in Seq(Files), NEW f \in Listed(evidence)
    PROVE  Leaf(f) \in Listed([i \in 1..Len(evidence) |-> Leaf(evidence[i])])
<1> DEFINE leaves == [i \in 1..Len(evidence) |-> Leaf(evidence[i])]
<1>1. Len(evidence) \in Nat /\ leaves \in Seq({Leaf(x) : x \in Files}) /\ Len(leaves) = Len(evidence)
  OBVIOUS
<1>2. PICK i \in 1..Len(evidence) : f = evidence[i]
  BY DEF Listed
<1>3. leaves[i] = Leaf(f)
  BY <1>2
<1> HIDE DEF leaves
<1> QED
  BY <1>1, <1>2, <1>3 DEF Listed, leaves

\* The case and its requests go on while reports are sealed.
LEMMA SealsKeptByCase ==
    ASSUME Basics, Seals,
           \/ \E f \in Files, place \in 1..(Len(evidence) + 1) : AddFile(f, place)
           \/ Review
           \/ \E c \in Clients : BeginCreate(c) \/ Answer(c)
    PROVE  Seals'
<1>1. UNCHANGED <<remote, receipts, work, disk, objects>>
  BY DEF AddFile, Review, BeginCreate, Answer, CommitCreate, Post
<1>2. Listed(evidence) \subseteq Listed(evidence)'
  <2>1. CASE evidence' = evidence
    BY <2>1 DEF Listed
  <2>2. ASSUME NEW f \in Files, NEW place \in 1..(Len(evidence) + 1), AddFile(f, place)
        PROVE  Listed(evidence) \subseteq Listed(evidence)'
    BY <2>2, FilesGrow DEF AddFile, Basics, TypeOK
  <2> QED
    BY <2>1, <2>2 DEF Review, BeginCreate, Answer, CommitCreate, Post
<1>3. Succeeded' \subseteq Succeeded /\ \A v \in Succeeded' : reports'[v] = reports[v]
  <2>1. CASE reports' = reports
    BY <2>1 DEF Succeeded
  <2>2. ASSUME NEW r, r.status # "succeeded", reports' = Append(reports, r) PROVE <1>3
    <3>1. Len(reports) \in Nat /\ reports \in Seq(Reports)
      BY DEF Basics, TypeOK
    <3>2. /\ Len(reports') = Len(reports) + 1 /\ reports'[Len(reports) + 1] = r
          /\ \A v \in 1..Len(reports) : reports'[v] = reports[v]
      BY <2>2, <3>1
    <3>3. \A v \in 1..(Len(reports) + 1) : v \in 1..Len(reports) \/ v = Len(reports) + 1
      BY <3>1
    <3> QED
      BY <2>2, <3>2, <3>3 DEF Succeeded
  <2>3. \/ reports' = reports
        \/ \E s : reports' = Append(reports, [status |-> "pending", snapshot |-> s, published |-> FALSE])
    BY DEF AddFile, Review, BeginCreate, Answer, CommitCreate, Post
  <2>4. \A s : [status |-> "pending", snapshot |-> s, published |-> FALSE].status # "succeeded"
    OBVIOUS
  <2> QED
    BY <2>1, <2>2, <2>3, <2>4
<1>4. WritesOnly(0) /\ \A x \in Workers : ~Busy(x, 0)
  BY <1>1, BusyWork, SealingAssumption DEF WritesOnly, Basics, Busy, Versions
<1>5. 0 \notin Succeeded
  BY DEF Succeeded
<1> QED
  BY <1>1, <1>2, <1>3, <1>4, <1>5, OthersStay DEF Seals

\* A worker's step keeps the seals when it keeps its own, and the row and
\* receipt of its own version, if that succeeds, are published.
LEMMA SealsKeptByOwner ==
    ASSUME Basics, OneHand, Seals, NEW w \in Workers, NEW n, NEW t, work' = [work EXCEPT ![w] = t],
           \/ work[w].pc # "idle" /\ n = work[w].version
           \/ work[w].pc = "idle" /\ n \in Versions /\ n \notin Succeeded /\ \A x \in Workers : ~Busy(x, n),
           WritesOnly(n), UNCHANGED <<remote, evidence>>, Len(reports') = Len(reports),
           \A v \in 1..Len(reports) : v # n => reports'[v] = reports[v] /\ receipts'[v] = receipts[v],
           t.pc # "idle" => Sealing(w)' /\ WorkSealed(w)',
           n \in Succeeded' => Published(n)'
    PROVE  Seals'
<1>1. /\ n \notin Succeeded /\ \A x \in Workers : x # w => ~Busy(x, n)
  BY WorkersOwn
<1>2. Listed(evidence) \subseteq Listed(evidence)'
  BY DEF Listed
<1>3. ASSUME NEW x \in Workers PROVE Sealing(x)' /\ WorkSealed(x)'
  <2>1. CASE x # w
    BY <1>1, <1>2, <2>1, OthersStay DEF Basics, TypeOK
  <2>2. CASE x = w /\ t.pc # "idle"
    BY <2>2
  <2>3. CASE x = w /\ t.pc = "idle"
    <3>1. work'[x].pc = "idle"
      BY <2>3 DEF Basics, TypeOK
    <3> QED
      BY <3>1 DEF Sealing, WorkSealed
  <2> QED
    BY <2>1, <2>2, <2>3
<1>4. ASSUME NEW v \in Succeeded', v # n PROVE Published(v)'
  <2>1. v \in Succeeded /\ reports'[v] = reports[v] /\ receipts'[v] = receipts[v]
    BY <1>4 DEF Succeeded
  <2> QED
    BY <1>2, <1>4, <2>1, OthersStay
<1> QED
  BY <1>3, <1>4 DEF Seals

\* A worker's fields after a step of its seal: the step alone, with the
\* snapshot that was printed, with the receipt.
LEMMA NextStep ==
    ASSUME Basics, NEW w \in Workers, NEW to, work' = [work EXCEPT ![w].pc = to]
    PROVE  /\ \E t : work' = [work EXCEPT ![w] = t]
           /\ work'[w].pc = to /\ work'[w].version = work[w].version
           /\ work'[w].snapshot = work[w].snapshot /\ work'[w].receipt = work[w].receipt
<1> DEFINE a == [work[w] EXCEPT !.pc = to]
<1>0. IsWork(work[w]) /\ DOMAIN work = Workers
  BY DEF Basics, TypeOK
<1>1. /\ a.pc = to /\ a.version = work[w].version /\ a.snapshot = work[w].snapshot
      /\ a.receipt = work[w].receipt
  BY <1>0 DEF IsWork
<1>2. work' = [work EXCEPT ![w] = a]
  OBVIOUS
<1> HIDE DEF a
<1>3. work'[w] = a
  BY <1>0, <1>2
<1> QED
  BY <1>1, <1>2, <1>3

LEMMA NextSnapshot ==
    ASSUME Basics, NEW w \in Workers, NEW to, NEW s,
           work' = [work EXCEPT ![w].pc = to, ![w].snapshot = s]
    PROVE  /\ \E t : work' = [work EXCEPT ![w] = t]
           /\ work'[w].pc = to /\ work'[w].version = work[w].version /\ work'[w].snapshot = s
<1> DEFINE a == [work[w] EXCEPT !.pc = to]
           b == [a EXCEPT !.snapshot = s]
<1>0. IsWork(work[w]) /\ DOMAIN work = Workers
  BY DEF Basics, TypeOK
<1>1. b.pc = to /\ b.version = work[w].version /\ b.snapshot = s
  BY <1>0 DEF IsWork
<1>2. work' = [work EXCEPT ![w] = b]
  BY <1>0
<1> HIDE DEF a, b
<1>3. work'[w] = b
  BY <1>0, <1>2
<1> QED
  BY <1>1, <1>2, <1>3

LEMMA NextReceipt ==
    ASSUME Basics, NEW w \in Workers, Seal(w)
    PROVE  /\ \E t : work' = [work EXCEPT ![w] = t]
           /\ work'[w].pc = "publishing pdf" /\ work'[w].version = work[w].version
           /\ work'[w].snapshot = work[w].snapshot /\ work'[w].receipt = ReceiptFor(w)
<1> DEFINE a == [work[w] EXCEPT !.pc = "publishing pdf"]
           c == [a EXCEPT !.receipt = ReceiptFor(w)]
<1>0. IsWork(work[w]) /\ DOMAIN work = Workers
  BY DEF Basics, TypeOK
<1>1. /\ c.pc = "publishing pdf" /\ c.version = work[w].version /\ c.snapshot = work[w].snapshot
      /\ c.receipt = ReceiptFor(w)
  BY <1>0 DEF IsWork
<1>2. work' = [work EXCEPT ![w] = c]
  BY <1>0 DEF Seal
<1> HIDE DEF a, c
<1>3. work'[w] = c
  BY <1>0, <1>2
<1> QED
  BY <1>1, <1>2, <1>3

\* Where a worker leaves its report without sealing it.
LEMMA SealsKeptByLeaving ==
    ASSUME Basics, OneHand, Seals, NEW w \in Workers,
           DiskFails(w) \/ (\E taken \in BOOLEAN : Fails(w, taken)) \/ Crash(w)
    PROVE  Seals'
<1> PICK n : n = work[w].version
  OBVIOUS
<1>1. /\ work[w].pc # "idle" /\ work' = [work EXCEPT ![w] = NoWork] /\ NoWork.pc = "idle"
      /\ UNCHANGED <<remote, evidence, reviews, receipts, disk>>
      /\ reports' = Failed(w) \/ reports' = reports
      /\ objects' = objects \/ objects' = [objects EXCEPT ![Pdf(n)] = disk[Pdf(n)]]
  BY DEF DiskFails, Fails, Crash, NoWork, Uploaded
<1>2. n \in Versions /\ n \in 1..Len(reports) /\ n \notin Succeeded
  BY <1>1, WorkersOwn
<1>3. WritesOnly(n)
  BY <1>1, <1>2, NamesDiffer DEF WritesOnly, Basics, TypeOK
<1>4. /\ Succeeded' \subseteq Succeeded /\ Len(reports') = Len(reports)
      /\ \A v \in 1..Len(reports) : v # n => reports'[v] = reports[v]
  <2>1. CASE reports' = reports
    BY <2>1 DEF Succeeded
  <2>2. CASE reports' = Failed(w)
    <3>1. Len(reports') = Len(reports)
      BY <2>2 DEF Failed, Basics, TypeOK
    <3> QED
      BY <1>1, <2>2, <3>1, MarkedFailed
  <2> QED
    BY <1>1, <2>1, <2>2
<1> QED
  BY <1>1, <1>2, <1>3, <1>4, SealsKeptByOwner

\* A worker takes a task.
LEMMA SealsKeptByBegin ==
    ASSUME Basics, OneHand, Seals, NEW w \in Workers, NEW task \in queue, Begin(w, task)
    PROVE  Seals'
<1> PICK n : n = task.version
  OBVIOUS
<1>1. n \in Versions /\ n \in 1..Len(reports) /\ n \notin Succeeded /\ (\A x \in Workers : ~Busy(x, n))
  BY HeldVersions DEF OneHand, TakenOnce, LeftAlone
<1>2. PICK t : work' = [work EXCEPT ![w] = t] /\ t.pc = "rendering"
  <2> DEFINE t == [pc |-> "rendering", version |-> task.version, retries |-> task.retries,
                   snapshot |-> reports[task.version].snapshot, receipt |-> None]
  <2>1. work' = [work EXCEPT ![w] = t] /\ t.pc = "rendering"
    BY DEF Begin
  <2> HIDE DEF t
  <2> QED
    BY <2>1
<1>3. work'[w].pc = "rendering" /\ work[w].pc = "idle"
  BY <1>2 DEF Begin, Basics, TypeOK, NoWork
<1>4. Sealing(w)' /\ WorkSealed(w)'
  BY <1>3 DEF Sealing, WorkSealed
<1>5. /\ Len(reports') = Len(reports) /\ reports'[n].status = "running"
      /\ \A v \in 1..Len(reports) : v # n => reports'[v] = reports[v] /\ receipts'[v] = receipts[v]
  <2>1. /\ reports' = [reports EXCEPT ![n] = [reports[n] EXCEPT !.status = "running"]]
        /\ UNCHANGED <<reviews, receipts>> /\ [reports[n] EXCEPT !.status = "running"] \in Reports
    BY <1>1, RowMarked DEF Begin, Basics, Statuses
  <2>2. reports[n] \in Reports
    BY <1>1 DEF Basics, TypeOK
  <2>3. [reports[n] EXCEPT !.status = "running"].status = "running"
    BY <2>2 DEF Reports
  <2> QED
    BY <1>1, <2>1, <2>3, RowChanges DEF Basics
<1>6. n \notin Succeeded'
  BY <1>5 DEF Succeeded
<1>7. WritesOnly(n) /\ UNCHANGED <<remote, evidence>>
  BY DEF WritesOnly, Begin
<1> QED
  BY <1>1, <1>2, <1>3, <1>4, <1>5, <1>6, <1>7, SealsKeptByOwner

\* A worker reads, lays out, seals, publishes and commits its report.
LEMMA SealsKeptBySealing ==
    ASSUME Basics, OneHand, Seals, NEW w \in Workers,
           \/ TakeSnapshot(w) \/ LayOut(w) \/ Seal(w)
           \/ PublishPdf(w) \/ PublishManifest(w) \/ Commit(w)
    PROVE  Seals'
<1> PICK n : n = work[w].version
  OBVIOUS
<1>0. /\ work[w].pc # "idle" /\ UNCHANGED <<remote, evidence>>
      /\ Sealing(w) /\ WorkSealed(w) /\ IsWork(work[w])
      /\ DOMAIN disk = Names /\ DOMAIN objects = Names /\ DOMAIN receipts = Versions /\ DOMAIN work = Workers
      /\ evidence \in Seq(Files) /\ reports \in Seq(Reports) /\ remote \in BOOLEAN
  BY DEF TakeSnapshot, LayOut, Seal, PublishPdf, PublishManifest, Publish, Commit, Seals, Basics, TypeOK
<1>1. n \in Versions /\ n \in 1..Len(reports) /\ n \notin Succeeded
  BY <1>0, WorkersOwn
<1>2. Pdf(n) \in Names /\ Manifest(n) \in Names /\ Pdf(n) # Manifest(n)
  BY <1>1, NamesDiffer
<1>3. ASSUME UNCHANGED <<reports, receipts>>, WritesOnly(n), NEW t, work' = [work EXCEPT ![w] = t],
             Sealing(w)', WorkSealed(w)'
      PROVE  Seals'
  <2>1. n \notin Succeeded'
    BY <1>1, <1>3 DEF Succeeded
  <2> QED
    BY <1>0, <1>3, <2>1, SealsKeptByOwner
<1>9. CASE TakeSnapshot(w)
  <2>1. /\ work' = [work EXCEPT ![w].pc = "printing", ![w].snapshot = reviews]
        /\ UNCHANGED <<reports, receipts, disk, objects>>
    BY <1>9 DEF TakeSnapshot
  <2>2. /\ \E t : work' = [work EXCEPT ![w] = t]
        /\ work'[w].pc = "printing"
    BY ZenonT(30), <2>1, NextSnapshot
  <2>3. WritesOnly(n)
    BY <2>1 DEF WritesOnly
  <2>4. Sealing(w)' /\ WorkSealed(w)'
    BY <2>2 DEF Sealing, WorkSealed
  <2> QED
    BY <1>3, <2>1, <2>2, <2>3, <2>4
<1>4. CASE LayOut(w)
  <2> DEFINE d == [made |-> renders + 1, files |-> Listed(evidence), snapshot |-> work[w].snapshot,
                   shown |-> reviews]
  <2>1. /\ work' = [work EXCEPT ![w].pc = "sealing"]
        /\ UNCHANGED <<reports, receipts, objects>>
        /\ disk' = [disk EXCEPT ![Pdf(n)] = d]
    BY <1>4 DEF LayOut
  <2>2. /\ \E t : work' = [work EXCEPT ![w] = t]
        /\ work'[w].pc = "sealing" /\ work'[w].version = n /\ work'[w].snapshot = work[w].snapshot
    BY <2>1, NextStep
  <2>7. d.snapshot <= d.shown /\ d.snapshot = work[w].snapshot /\ d.files = Listed(evidence)
        /\ d = [made |-> d.made, files |-> d.files, snapshot |-> d.snapshot, shown |-> d.shown]
    <3>1. work[w].snapshot \in 0..reviews
      BY <1>0, BusyWork DEF Basics
    <3> QED
      BY <3>1
  <2> HIDE DEF d
  <2>3. /\ IsPrint(disk'[Pdf(n)]) /\ disk'[Pdf(n)].snapshot = work[w].snapshot
        /\ disk'[Pdf(n)].files = Listed(evidence)
    <3>1. disk'[Pdf(n)] = d
      BY <1>0, <1>2, <2>1
    <3> QED
      BY <2>7, <3>1 DEF IsPrint
  <2>4. WritesOnly(n)
    BY <1>0, <1>2, <2>1, NamesDiffer DEF WritesOnly
  <2>5. Listed(evidence') = Listed(evidence)
    BY <1>0
  <2>6. Sealing(w)' /\ WorkSealed(w)'
    BY <2>2, <2>3, <2>5 DEF Sealing, WorkSealed, IsPrint
  <2> QED
    BY <1>3, <2>1, <2>2, <2>4, <2>6
<1>5. CASE Seal(w)
  <2> PICK r : r = ReceiptFor(w)
    OBVIOUS
  <2>1. /\ work' = [work EXCEPT ![w].pc = "publishing pdf", ![w].receipt = r]
        /\ UNCHANGED <<reports, receipts, objects>>
        /\ disk' = [disk EXCEPT ![Manifest(n)] = r]
    BY <1>5 DEF Seal
  <2>2. /\ \E t : work' = [work EXCEPT ![w] = t]
        /\ work'[w].pc = "publishing pdf" /\ work'[w].version = n /\ work'[w].receipt = r
        /\ work'[w].snapshot = work[w].snapshot
    BY <1>5, NextReceipt
  <2>3. disk'[Pdf(n)] = disk[Pdf(n)] /\ disk'[Manifest(n)] = r
    BY <1>0, <1>2, <2>1
  <2>4. WritesOnly(n)
    BY <1>0, <1>2, <2>1, NamesDiffer DEF WritesOnly
  <2>5. /\ IsPrint(disk[Pdf(n)]) /\ disk[Pdf(n)].snapshot = work[w].snapshot
        /\ disk[Pdf(n)].files \subseteq Listed(evidence)
    BY <1>0, <1>5 DEF Seal, Sealing
  <2>6. IsReceipt(r) /\ r.report = disk[Pdf(n)].made /\ r.snapshot = work[w].snapshot
    BY DEF ReceiptFor, IsReceipt
  <2>7. r.leaves = [i \in 1..Len(evidence) |-> Leaf(evidence[i])]
    BY DEF ReceiptFor
  <2>8. \A f \in disk[Pdf(n)].files : Leaf(f) \in Listed(r.leaves)
    BY <1>0, <2>5, <2>7, LeavesOfAll
  <2>9. Sealing(w)'
    BY <2>2 DEF Sealing
  <2>11. Leaves(r.leaves) /\ r.root = root(r.leaves)
    BY <1>0, <2>7, LeavesOfFiles DEF ReceiptFor
  <2>10. WorkSealed(w)'
    BY <2>2, <2>3, <2>5, <2>6, <2>8, <2>11 DEF WorkSealed, Receipted, IsPrint
  <2> QED
    BY <1>3, <2>1, <2>2, <2>4, <2>9, <2>10
<1>6. CASE PublishPdf(w)
  <2>1. /\ work' = [work EXCEPT ![w].pc = "publishing manifest"]
        /\ UNCHANGED <<reports, receipts, disk>>
        /\ objects' = IF remote THEN [objects EXCEPT ![Pdf(n)] = disk[Pdf(n)]] ELSE objects
        /\ work[w].pc = "publishing pdf"
    BY <1>6 DEF PublishPdf, Publish, Uploaded
  <2>2. /\ \E t : work' = [work EXCEPT ![w] = t]
        /\ work'[w].pc = "publishing manifest" /\ work'[w].version = n /\ work'[w].receipt = work[w].receipt
        /\ work'[w].snapshot = work[w].snapshot
    BY <2>1, NextStep
  <2>3. WritesOnly(n)
    BY <1>0, <1>2, <2>1, NamesDiffer DEF WritesOnly
  <2>4. remote => objects'[Pdf(n)] = disk[Pdf(n)]
    BY <1>0, <1>2, <2>1
  <2>5. Sealing(w)'
    BY <2>2 DEF Sealing
  <2>7. Receipted(n, work[w].receipt, work[w].snapshot)
    BY <1>0, <2>1 DEF WorkSealed
  <2>8. Receipted(n, work[w].receipt, work[w].snapshot)'
    BY <2>1, <2>2, <2>7 DEF Receipted, IsPrint, IsReceipt
  <2>6. WorkSealed(w)'
    BY ZenonT(30), <1>0, <2>1, <2>2, <2>4, <2>8 DEF WorkSealed
  <2> QED
    BY <1>3, <2>1, <2>2, <2>3, <2>5, <2>6
<1>7. CASE PublishManifest(w)
  <2>1. /\ work' = [work EXCEPT ![w].pc = "committing"]
        /\ UNCHANGED <<reports, receipts, disk>>
        /\ objects' = IF remote THEN [objects EXCEPT ![Manifest(n)] = disk[Manifest(n)]] ELSE objects
        /\ work[w].pc = "publishing manifest"
    BY <1>7 DEF PublishManifest, Publish, Uploaded
  <2>2. /\ \E t : work' = [work EXCEPT ![w] = t]
        /\ work'[w].pc = "committing" /\ work'[w].version = n /\ work'[w].receipt = work[w].receipt
        /\ work'[w].snapshot = work[w].snapshot
    BY <2>1, NextStep
  <2>3. WritesOnly(n)
    BY <1>0, <1>2, <2>1, NamesDiffer DEF WritesOnly
  <2>4. remote => objects'[Manifest(n)] = disk[Manifest(n)] /\ objects'[Pdf(n)] = objects[Pdf(n)]
    BY <1>0, <1>2, <2>1
  <2>5. Sealing(w)'
    BY <2>2 DEF Sealing
  <2>7. Receipted(n, work[w].receipt, work[w].snapshot)
    BY <1>0, <2>1 DEF WorkSealed
  <2>8. Receipted(n, work[w].receipt, work[w].snapshot)'
    BY <2>1, <2>2, <2>7 DEF Receipted, IsPrint, IsReceipt
  <2>6. WorkSealed(w)'
    BY ZenonT(30), <1>0, <2>1, <2>2, <2>4, <2>8 DEF WorkSealed
  <2> QED
    BY <1>3, <2>1, <2>2, <2>3, <2>5, <2>6
<1>8. CASE Commit(w)
  <2>1. /\ work' = [work EXCEPT ![w] = NoWork] /\ NoWork.pc = "idle"
        /\ UNCHANGED <<disk, objects>> /\ work[w].pc = "committing"
        /\ receipts' = [receipts EXCEPT ![n] = work[w].receipt]
        /\ reports' = [reports EXCEPT ![n] =
                        [status |-> "succeeded", snapshot |-> work[w].snapshot, published |-> TRUE]]
    BY <1>8 DEF Commit, NoWork
  <2>2. /\ receipts'[n] = work[w].receipt /\ reports'[n].snapshot = work[w].snapshot
        /\ Len(reports') = Len(reports)
        /\ \A v \in 1..Len(reports) : v # n => reports'[v] = reports[v] /\ receipts'[v] = receipts[v]
    BY <1>0, <1>1, <2>1
  <2>3. WritesOnly(n)
    BY <2>1 DEF WritesOnly
  <2>4. Published(n)'
    BY <1>0, <2>1, <2>2 DEF Published, WorkSealed, Receipted, IsPrint, IsReceipt
  <2> QED
    BY <1>0, <2>1, <2>2, <2>3, <2>4, SealsKeptByOwner
<1> QED
  BY <1>4, <1>5, <1>6, <1>7, <1>8, <1>9

LEMMA SealsKept == SealInv /\ [Next]_reportVars => Seals'
<1> SUFFICES ASSUME Basics, OneHand, Seals, [Next]_reportVars PROVE Seals'
  BY DEF SealInv
<1>1. CASE UNCHANGED reportVars
  <2>1. UNCHANGED <<remote, evidence, reports, receipts, work, disk, objects>>
    BY <1>1 DEF reportVars
  <2>2. WritesOnly(0) /\ (\A x \in Workers : ~Busy(x, 0)) /\ 0 \notin Succeeded
    BY <2>1, BusyWork, SealingAssumption DEF WritesOnly, Basics, Busy, Versions, Succeeded
  <2>3. Listed(evidence)' = Listed(evidence) /\ Succeeded' = Succeeded
    BY <2>1 DEF Listed, Succeeded
  <2> QED
    BY <2>1, <2>2, <2>3, OthersStay DEF Seals
<1>2. CASE \/ \E f \in Files, place \in 1..(Len(evidence) + 1) : AddFile(f, place)
           \/ Review
           \/ \E c \in Clients : BeginCreate(c) \/ Answer(c)
  BY <1>2, SealsKeptByCase
<1>3. CASE \E w \in Workers : Generate(w) \/ Crash(w)
  BY <1>3, SealsKeptByBegin, SealsKeptBySealing, SealsKeptByLeaving DEF Generate
<1> QED
  BY <1>1, <1>2, <1>3 DEF Next

LEMMA SealInvariant == Spec => []SealInv
<1>1. Init => SealInv
  BY BasicsStart, OneHandStart, SealsStart DEF SealInv
<1>2. SealInv /\ [Next]_reportVars => SealInv'
  BY BasicsKept, OneHandKept, SealsKept DEF SealInv
<1> QED
  BY <1>1, <1>2, PTL DEF Spec

\* What is stored of a report that succeeded.
LEMMA PublishedFiles ==
    ASSUME SealInv, NEW v \in Succeeded
    PROVE  /\ Receipted(v, receipts[v], reports[v].snapshot)
           /\ Stored(Pdf(v)) = disk[Pdf(v)] /\ Stored(Manifest(v)) = disk[Manifest(v)]
  BY DEF SealInv, Seals, Published, Stored

\* A report that succeeded verifies, at once and ever after, for any number of
\* files, requests, workers and attempts: what the store holds is what its
\* receipt was made from (generate_report, _finalise, publish_private_file). And
\* the receipt is of what was printed: it carries the hash of the snapshot the
\* pages are laid out from, whose rulings the pages all show, and a leaf for every
\* file they list (create_receipt). What the pages show beyond that snapshot is
\* not hashed.
THEOREM SealedReportsStayVerified == Spec => []SealsHold
<1>1. SealInv => SealDescribesPrint
  BY PublishedFiles DEF SealDescribesPrint, Receipted, IsPrint
<1>2. SealInv => SealsHold
  <2> SUFFICES ASSUME SealInv, NEW v \in Succeeded PROVE receipts[v] # None /\ ReceiptVerifies(v)
    BY <1>1 DEF SealsHold, SealedReportsVerify, SealInv, Basics
  <2> QED
    BY PublishedFiles, SomethingThere DEF Receipted, ReceiptVerifies
<1> QED
  BY SealInvariant, <1>2, PTL

\* A file has a proof in a report exactly if it was among the files at the sealing,
\* whatever was uploaded since, and the proof verifies against the sealed root; for
\* cases of any number of files (inclusion_proof).
THEOREM MembershipIsTold == Spec => []ProofsTellMembership
<1>1. SealInv => ProofsTellMembership
  <2> SUFFICES ASSUME SealInv, NEW v \in Succeeded, NEW f \in Listed(evidence)
               PROVE  LET told == InclusionProof(v, f)
                      IN  /\ told.available <=> Leaf(f) \in Listed(receipts[v].leaves)
                          /\ told.available => told.verified
    BY DEF ProofsTellMembership
  <2> PICK leaves : leaves = receipts[v].leaves
    OBVIOUS
  <2>1. Leaves(leaves) /\ receipts[v].root = root(leaves)
    BY PublishedFiles DEF Receipted
  <2>2. CASE Leaf(f) \notin Listed(leaves)
    <3>1. InclusionProof(v, f) = [available |-> FALSE, verified |-> FALSE]
      BY <2>2 DEF InclusionProof
    <3> QED
      BY <2>2, <3>1
  <2>3. CASE Leaf(f) \in Listed(leaves)
    <3> DEFINE at == CHOOSE i \in 1..Len(leaves) : leaves[i] = Leaf(f)
    <3>1. at \in 1..Len(leaves) /\ leaves[at] = Leaf(f)
      BY <2>3 DEF Listed
    <3>2. InclusionProof(v, f) = [available |-> TRUE,
                                  verified |-> verify(Leaf(f), proof(leaves, at - 1), receipts[v].root)]
      BY <2>3, Zenon DEF InclusionProof
    <3> HIDE DEF at
    <3>3. Len(leaves) \in Nat /\ IsList(leaves)
      BY <2>1 DEF Leaves, IsList
    <3>4. at - 1 \in 0..(Len(leaves) - 1) /\ (at - 1) + 1 = at
      BY <3>1, <3>3
    <3>5. verify(leaves[(at - 1) + 1], proof(leaves, at - 1), root(leaves))
      BY <3>3, <3>4, LeavesProve
    <3>6. verify(Leaf(f), proof(leaves, at - 1), receipts[v].root)
      BY <2>1, <3>1, <3>4, <3>5
    <3> QED
      BY <2>3, <3>2, <3>6
  <2> QED
    BY <2>2, <2>3
<1> QED
  BY SealInvariant, <1>1, PTL

\* No attempt that comes late touches the row or the receipt of a report that
\* succeeded: whoever works on a version has it alone, and nobody works on one
\* that is done.
THEOREM SuccessStays == Spec => SuccessIsFinal
<1> DEFINE Kept == \A v \in Succeeded : reports'[v] = reports[v] /\ receipts'[v] = receipts[v]
<1>1. SealInv /\ [Next]_reportVars => [Kept]_reportVars
  <2> SUFFICES ASSUME SealInv, Next, NEW v \in Succeeded
               PROVE  reports'[v] = reports[v] /\ receipts'[v] = receipts[v]
    OBVIOUS
  <2>0. /\ v \in 1..Len(reports) /\ reports \in Seq(Reports) /\ DOMAIN receipts = Versions
        /\ Basics /\ OneHand
    BY DEF Succeeded, SealInv, Basics, TypeOK
  <2>1. CASE UNCHANGED <<reports, receipts>>
    BY <2>1
  <2>2. ASSUME NEW c \in Clients, CommitCreate(c)
        PROVE  reports'[v] = reports[v] /\ receipts'[v] = receipts[v]
    BY <2>0, <2>2 DEF CommitCreate
  <2>3. ASSUME NEW w \in Workers, NEW task \in queue, Begin(w, task)
        PROVE  reports'[v] = reports[v] /\ receipts'[v] = receipts[v]
    <3>1. task.version # v
      BY <2>0 DEF OneHand, LeftAlone
    <3> QED
      BY <2>0, <2>3, <3>1 DEF Begin
  <2>4. ASSUME NEW w \in Workers, work[w].pc # "idle",
               \/ reports' = Failed(w) /\ receipts' = receipts
               \/ Commit(w)
        PROVE  reports'[v] = reports[v] /\ receipts'[v] = receipts[v]
    <3>1. work[w].version # v
      BY <2>0, <2>4, WorkersOwn
    <3>2. CASE reports' = Failed(w) /\ receipts' = receipts
      BY <2>0, <3>1, <3>2 DEF Failed
    <3>3. CASE Commit(w)
      <4> DEFINE r == [status |-> "succeeded", snapshot |-> work[w].snapshot, published |-> TRUE]
      <4>1. /\ receipts' = [receipts EXCEPT ![work[w].version] = work[w].receipt]
            /\ reports' = [reports EXCEPT ![work[w].version] = r]
        BY <3>3 DEF Commit
      <4> HIDE DEF r
      <4> QED
        BY <2>0, <3>1, <4>1
    <3> QED
      BY <2>4, <3>2, <3>3
  <2>5. CASE \/ Review \/ \E f \in Files, place \in 1..(Len(evidence) + 1) : AddFile(f, place)
             \/ \E c \in Clients : BeginCreate(c) \/ Answer(c)
    BY <2>1, <2>2, <2>5 DEF Review, AddFile, BeginCreate, Answer, Post
  <2>6. ASSUME NEW w \in Workers, Generate(w) \/ Crash(w)
        PROVE  reports'[v] = reports[v] /\ receipts'[v] = receipts[v]
    BY <2>1, <2>3, <2>4, <2>6
       DEF Generate, Crash, TakeSnapshot, LayOut, Seal, PublishPdf, PublishManifest, Publish, DiskFails, Fails, Commit
  <2> QED
    BY <2>5, <2>6 DEF Next
<1> QED
  BY SealInvariant, <1>1, PTL DEF Spec, SuccessIsFinal

-------------------------------------------------------------------------------
\* The shared ledger.

\* Of the rows in a set one is newest.
LEMMA NewestExists ==
    ASSUME NEW S, S # {}, NEW n \in Nat, \A r \in S : r.at \in 1..n
    PROVE  \E r \in S : \A q \in S : q.at <= r.at
<1> DEFINE T == {n - r.at : r \in S}
           Less == OpToRel(<, Nat)
<1>1. T \subseteq Nat /\ T # {}
  OBVIOUS
<1>2. PICK x \in T : \A y \in T : <<y, x>> \notin Less
  <2>1. IsWellFoundedOn(Less, Nat)
    BY NatLessThanWellFounded
  <2> HIDE DEF T, Less
  <2> QED
    BY <1>1, <2>1, WFMin
<1>3. \A y \in T : ~(y < x)
  BY <1>1, <1>2 DEF OpToRel
<1>4. PICK r \in S : x = n - r.at
  BY <1>2
<1>5. ASSUME NEW q \in S PROVE q.at <= r.at
  <2>1. ~(n - q.at < n - r.at)
    BY <1>3, <1>4
  <2> QED
    BY <2>1
<1> QED
  BY <1>5

\* A session typed before a row is sealed is typed after it.
LEMMA SealedGrow ==
    ASSUME LedgerTypeOK, sealed' = sealed \/ \E x : sealed' = Append(sealed, x)
    PROVE  /\ Len(sealed) \in Nat /\ Len(sealed') \in Nat
           /\ Hashes \subseteq Hashes' /\ Rows \subseteq Rows'
           /\ LedgerRequests \subseteq LedgerRequests' /\ Payloads \subseteq Payloads'
<1>1. Len(sealed) \in Nat /\ Len(sealed') \in Nat /\ Len(sealed) <= Len(sealed')
  BY DEF LedgerTypeOK
<1>2. Hashes \subseteq Hashes'
  BY <1>1 DEF Hashes
<1>3. Rows \subseteq Rows' /\ Payloads \subseteq Payloads'
  BY <1>2 DEF Rows, Payloads
<1>4. LedgerRequests \subseteq LedgerRequests'
  BY <1>3 DEF LedgerRequests
<1> QED
  BY <1>1, <1>2, <1>3, <1>4

\* An idle request is well formed.
LEMMA NoLedgerRequestType ==
    /\ NoLedgerRequest \in LedgerRequests
    /\ NoLedgerRequest.does = "nothing" /\ NoLedgerRequest.pending = {} /\ NoLedgerRequest.case = NoHash
  BY DEF NoLedgerRequest, LedgerRequests

\* The identities of a case are canonical pairs.
LEMMA IdentitiesType ==
    ASSUME LedgerTypeOK, NEW case \in Cases
    PROVE  IdentitiesOf(case) \subseteq Identities
  BY LedgerAssumption DEF LedgerTypeOK, IdentitiesOf

\* The head a request follows is the hash of a row it sees, or there is none.
LEMMA HeadType ==
    ASSUME LedgerTypeOK, NEW p \in Publishers
    PROVE  LET seen == rows \cup session[p].pending
           IN  IF seen = {} THEN HeadOf(p) = NoHash
               ELSE \E q \in seen : HeadOf(p) = q.hash /\ \A x \in seen : x.at <= q.at
<1> DEFINE seen == rows \cup session[p].pending
<1>1. seen \subseteq Rows
  BY DEF LedgerTypeOK, LedgerRequests
<1>2. CASE seen = {}
  BY <1>2 DEF HeadOf
<1>3. CASE seen # {}
  <2>1. Len(sealed) \in Nat
    BY DEF LedgerTypeOK
  <2>2. \A r \in seen : r.at \in 1..Len(sealed)
    BY <1>1 DEF Rows, Hashes
  <2>3. \E q \in seen : \A x \in seen : x.at <= q.at
    <3> HIDE DEF seen
    <3> QED
      BY <1>3, <2>1, <2>2, NewestExists
  <2>4. HeadOf(p) = (CHOOSE q \in seen : \A x \in seen : x.at <= q.at).hash
    BY <1>3 DEF HeadOf
  <2> QED
    BY <1>3, <2>3, <2>4
<1> QED
  BY <1>2, <1>3

\* The row a request adds is a row of the ledger as the ledger then is.
LEMMA EntryType ==
    ASSUME LedgerTypeOK, NEW p \in Publishers, NEW identity \in Identities,
           session[p].case \in Cases, AddIdentity(p, identity)
    PROVE  LET n == Len(sealed) + 1
               row == [digest |-> identity, case |-> session[p].case,
                       previous |-> HeadOf(p), at |-> n, hash |-> n]
           IN  /\ row \in Rows'
               /\ sealed' = Append(sealed, ChainPayload(row))
               /\ sealed' \in Seq(Payloads') /\ Len(sealed') = n
               /\ session' = [session EXCEPT ![p].todo = @ \ {identity},
                                             ![p].pending = @ \cup {row}]
               /\ row.previous = NoHash \/ row.previous < row.hash
<1> DEFINE n == Len(sealed) + 1
           row == [digest |-> identity, case |-> session[p].case,
                   previous |-> HeadOf(p), at |-> n, hash |-> n]
<1>0. /\ row = RowFor(EntryFor(p, identity))
      /\ ChainPayload(row) = EntryFor(p, identity).payload
  BY DEF EntryFor, RowFor, ChainPayload
<1>1. sealed' = Append(sealed, ChainPayload(row))
  BY <1>0 DEF AddIdentity, Sealed
<1>2. session' = [session EXCEPT ![p].todo = @ \ {identity}, ![p].pending = @ \cup {row}]
  BY <1>0 DEF AddIdentity
<1>3. /\ Len(sealed) \in Nat /\ Hashes \subseteq Hashes' /\ Payloads \subseteq Payloads'
  BY <1>1, SealedGrow
<1>4. Len(sealed') = n /\ n \in Hashes'
  BY <1>1, <1>3 DEF LedgerTypeOK, Hashes
<1>5. HeadOf(p) = NoHash \/ HeadOf(p) \in Hashes
  BY HeadType DEF LedgerTypeOK, LedgerRequests, Rows
<1>6. HeadOf(p) = NoHash \/ HeadOf(p) < n
  BY <1>3, <1>5 DEF Hashes
<1>7. row \in Rows'
  BY <1>3, <1>4, <1>5 DEF Rows
<1>8. ChainPayload(row) \in Payloads'
  BY <1>3, <1>4, <1>5 DEF Payloads, ChainPayload
<1>9. sealed' \in Seq(Payloads')
  BY <1>1, <1>3, <1>8 DEF LedgerTypeOK
<1> QED
  BY <1>1, <1>2, <1>4, <1>6, <1>7, <1>9

(***************************************************************************)
(* The inductive invariant of every run, in parts: every row, committed or   *)
(* not, is the one its hash was taken over, its hash being handed out with   *)
(* its time; a request keeps to its own case and accounts for all it found,  *)
(* unless it was overtaken; a case has one row per identifier; and no row    *)
(* that was withdrawn comes back.                                            *)
(***************************************************************************)
RowSealed(r) ==
    /\ r.hash = r.at
    /\ sealed[r.hash] = ChainPayload(r)
    /\ r.previous = NoHash \/ r.previous < r.hash

AllSealed ==
    /\ \A r \in rows : RowSealed(r)
    /\ \A p \in Publishers : \A r \in session[p].pending : RowSealed(r)

\* A request, with the committed rows it was made among.
IsPublication(s, stored) ==
    s.does = "publish" =>
        /\ s.todo \subseteq s.identities
        /\ \A r \in s.pending : r.digest \notin s.todo
        /\ \A r, q \in s.pending : r.digest = q.digest => r = q
        /\ \/ s.overtaken
           \/ \A i \in s.identities :
                i \in s.todo \/ \E r \in s.pending \cup stored : r.digest = i /\ r.case = s.case

IsWithdrawal(s, stored) ==
    s.does = "withdraw" =>
        s.overtaken \/ (s.pending \subseteq stored /\ \A i \in s.identities : \E r \in s.pending : r.digest = i)

IsRequest(s, stored) ==
    /\ s.does = "nothing" => s = NoLedgerRequest
    /\ s.does # "nothing" => s.case \in Cases
    /\ \A r \in s.pending : r.case = s.case /\ r.digest \in s.identities
    /\ IsPublication(s, stored)
    /\ IsWithdrawal(s, stored)

OwnRows == \A p \in Publishers : IsRequest(session[p], rows)

\* No hash is both of a stored or pending row and withdrawn, or of two of them.
Apart ==
    /\ \A r \in rows : r.hash \notin withdrawn
    /\ \A p \in Publishers : Publishing(p) =>
        \A r \in session[p].pending : r.hash \notin withdrawn /\ \A q \in rows : q.hash # r.hash
    /\ \A p, q \in Publishers : Publishing(p) /\ Publishing(q) /\ p # q =>
        \A r \in session[p].pending, x \in session[q].pending : r.hash # x.hash
    /\ \A p \in Publishers : Withdrawing(p) =>
        \A r \in session[p].pending : r \in rows \/ r.hash \in withdrawn

LedgerInv == LedgerTypeOK /\ AllSealed /\ OwnRows /\ OneRowPerIdentifier /\ Apart

\* What a row's hash was taken over does not change as more rows are sealed.
LEMMA SealsStay ==
    ASSUME LedgerTypeOK, NEW x, sealed' = Append(sealed, x), NEW r \in Rows, RowSealed(r)
    PROVE  RowSealed(r)'
<1>1. r.hash \in 1..Len(sealed)
  BY DEF Rows, Hashes
<1>2. sealed'[r.hash] = sealed[r.hash]
  BY <1>1 DEF LedgerTypeOK
<1> QED
  BY <1>2 DEF RowSealed, ChainPayload

\* A row is known by its hash.
LEMMA HashNamesRow ==
    ASSUME NEW r \in Rows, NEW q \in Rows, RowSealed(r), RowSealed(q), r.hash = q.hash
    PROVE  r = q
<1>1. ChainPayload(r) = ChainPayload(q) /\ r.at = q.at
  BY DEF RowSealed
<1>2. r.digest = q.digest /\ r.case = q.case /\ r.previous = q.previous
  BY <1>1 DEF ChainPayload
<1> QED
  BY <1>1, <1>2 DEF Rows

\* A step that seals nothing keeps the tables well formed and sealed.
LEMMA TablesKept ==
    ASSUME LedgerTypeOK, UNCHANGED <<gate, sealed>>, holds' \in [Cases -> SUBSET Entities],
           overlapped' \in BOOLEAN, withdrawn' \subseteq Hashes, session' \in [Publishers -> LedgerRequests],
           rows' \subseteq Rows, \A r \in rows' : RowSealed(r),
           \A p \in Publishers : \A r \in session'[p].pending : RowSealed(r)
    PROVE  LedgerTypeOK' /\ AllSealed'
<1>1. Rows' = Rows /\ LedgerRequests' = LedgerRequests /\ Payloads' = Payloads /\ Hashes' = Hashes
  BY DEF Rows, LedgerRequests, Payloads, Hashes
<1>2. \A r : RowSealed(r) <=> RowSealed(r)'
  BY DEF RowSealed, ChainPayload
<1>3. LedgerTypeOK'
  BY <1>1 DEF LedgerTypeOK
<1>4. AllSealed'
  BY <1>2 DEF AllSealed
<1> QED
  BY <1>3, <1>4

\* A request is what it was when more rows have been committed.
LEMMA RequestAmongMore ==
    ASSUME NEW s, NEW stored, NEW more, IsRequest(s, stored), stored \subseteq more
    PROVE  IsRequest(s, more)
<1>1. IsPublication(s, more)
  BY DEF IsRequest, IsPublication
<1>2. IsWithdrawal(s, more)
  BY DEF IsRequest, IsWithdrawal
<1> QED
  BY <1>1, <1>2 DEF IsRequest

\* An idle request is one.
LEMMA IdleRequest == \A stored : IsRequest(NoLedgerRequest, stored)
  BY DEF IsRequest, IsPublication, IsWithdrawal, NoLedgerRequest
-------------------------------------------------------------------------------
LEMMA LedgerStarts == LedgerInit => LedgerInv
<1> SUFFICES ASSUME LedgerInit PROVE LedgerInv
  OBVIOUS
<1> USE LedgerAssumption
<1>1. sealed \in Seq(Payloads) /\ Len(sealed) <= MaxRows
  BY DEF LedgerInit
<1>2. session \in [Publishers -> LedgerRequests] /\ \A p \in Publishers : session[p] = NoLedgerRequest
  BY NoLedgerRequestType DEF LedgerInit
<1>3. LedgerTypeOK
  BY <1>1, <1>2 DEF LedgerInit, LedgerTypeOK
<1>4. AllSealed
  BY <1>2, NoLedgerRequestType DEF LedgerInit, AllSealed
<1>5. OwnRows
  BY <1>2, IdleRequest DEF OwnRows
<1>6. OneRowPerIdentifier /\ Apart
  BY <1>2, NoLedgerRequestType DEF LedgerInit, OneRowPerIdentifier, Apart, Publishing, Withdrawing
<1> QED
  BY <1>3, <1>4, <1>5, <1>6 DEF LedgerInv

\* Entities are found, or nothing happens.
LEMMA LedgerKeptByFinding ==
    ASSUME LedgerInv, \/ UNCHANGED ledgerVars
                      \/ \E case \in Cases, e \in Entities : FindEntity(case, e)
    PROVE  LedgerInv'
<1>1. /\ UNCHANGED <<gate, rows, session, sealed, overlapped, withdrawn>>
      /\ holds' \in [Cases -> SUBSET Entities]
  <2>1. CASE UNCHANGED ledgerVars
    BY <2>1 DEF ledgerVars, LedgerInv, LedgerTypeOK
  <2>2. CASE \E case \in Cases, e \in Entities : FindEntity(case, e)
    BY <2>2 DEF FindEntity, LedgerInv, LedgerTypeOK
  <2> QED
    BY <2>1, <2>2
<1>2. LedgerTypeOK' /\ AllSealed'
  BY <1>1, TablesKept DEF LedgerInv, LedgerTypeOK, AllSealed
<1>3. OwnRows' /\ OneRowPerIdentifier' /\ Apart'
  BY <1>1 DEF LedgerInv, OwnRows, OneRowPerIdentifier, Apart, Publishing, Withdrawing
<1> QED
  BY <1>2, <1>3 DEF LedgerInv

\* A request that changes no row becomes another: it begins, passes an
\* identifier over or fails.
LEMMA RequestStep ==
    ASSUME LedgerInv, NEW p \in Publishers, NEW s \in LedgerRequests, IsRequest(s, rows),
           session' = [session EXCEPT ![p] = s], UNCHANGED <<gate, holds, rows, sealed, withdrawn>>,
           overlapped' \in BOOLEAN,
           \/ s.pending = {}
           \/ s.pending = session[p].pending /\ s.does = session[p].does
           \/ s.pending \subseteq rows /\ s.does # "publish"
    PROVE  LedgerInv'
<1>1. /\ session \in [Publishers -> LedgerRequests] /\ session' \in [Publishers -> LedgerRequests]
      /\ session'[p] = s /\ \A q \in Publishers \ {p} : session'[q] = session[q]
  BY DEF LedgerInv, LedgerTypeOK
<1>2. \A q \in Publishers : \A r \in session'[q].pending : RowSealed(r)
  BY <1>1 DEF LedgerInv, AllSealed
<1>3. LedgerTypeOK' /\ AllSealed'
  BY <1>1, <1>2, TablesKept DEF LedgerInv, LedgerTypeOK, AllSealed
<1>4. OwnRows'
  BY <1>1 DEF LedgerInv, OwnRows
<1>5. OneRowPerIdentifier'
  BY DEF LedgerInv, OneRowPerIdentifier
<1>6. \A q \in Publishers :
        /\ session'[q].does = "publish" => session'[q].pending = {} \/ (Publishing(q) /\ session'[q].pending = session[q].pending)
        /\ session'[q].does = "withdraw" => session'[q].pending \subseteq rows \/ (Withdrawing(q) /\ session'[q].pending = session[q].pending)
  BY <1>1 DEF Publishing, Withdrawing
<1>7. Apart'
  BY <1>6 DEF LedgerInv, Apart, Publishing, Withdrawing
<1> QED
  BY <1>3, <1>4, <1>5, <1>7 DEF LedgerInv

LEMMA LedgerKeptByRequests ==
    ASSUME LedgerInv, NEW p \in Publishers,
           \/ \E case \in Cases : BeginPublish(p, case) \/ BeginWithdraw(p, case)
           \/ \E identity \in Identities : SkipIdentity(p, identity)
           \/ FailRequest(p)
    PROVE  LedgerInv'
<1>1. ASSUME NEW case \in Cases, BeginPublish(p, case) PROVE LedgerInv'
  <2> DEFINE s == [does |-> "publish", case |-> case, identities |-> IdentitiesOf(case),
                   todo |-> IdentitiesOf(case), pending |-> {}, overtaken |-> FALSE]
  <2>1. s \in LedgerRequests /\ IsRequest(s, rows) /\ s.pending = {}
    BY IdentitiesType DEF LedgerRequests, LedgerInv, IsRequest, IsPublication, IsWithdrawal
  <2>2. /\ session' = [session EXCEPT ![p] = s] /\ UNCHANGED <<gate, holds, rows, sealed, withdrawn>>
        /\ overlapped' \in BOOLEAN
    BY <1>1 DEF BeginPublish, LedgerInv, LedgerTypeOK
  <2> HIDE DEF s
  <2> QED
    BY <2>1, <2>2, RequestStep
<1>2. ASSUME NEW case \in Cases, BeginWithdraw(p, case) PROVE LedgerInv'
  <2> DEFINE s == [does |-> "withdraw", case |-> case, identities |-> {r.digest : r \in RowsOf(case)},
                   todo |-> {}, pending |-> RowsOf(case), overtaken |-> FALSE]
  <2>1. s \in LedgerRequests
    BY DEF LedgerRequests, LedgerInv, LedgerTypeOK, RowsOf, Rows
  <2>2. IsRequest(s, rows) /\ s.pending \subseteq rows /\ s.does # "publish"
    BY DEF IsRequest, IsPublication, IsWithdrawal, RowsOf
  <2>3. /\ session' = [session EXCEPT ![p] = s] /\ UNCHANGED <<gate, holds, rows, sealed, withdrawn>>
        /\ overlapped' \in BOOLEAN
    BY <1>2 DEF BeginWithdraw, LedgerInv, LedgerTypeOK
  <2> HIDE DEF s
  <2> QED
    BY <2>1, <2>2, <2>3, RequestStep
<1>3. ASSUME NEW identity \in Identities, SkipIdentity(p, identity) PROVE LedgerInv'
  <2> DEFINE t == session[p]
             s == [t EXCEPT !.todo = @ \ {identity}]
  <2>0. t \in LedgerRequests /\ IsRequest(t, rows) /\ t.does = "publish"
    BY <1>3 DEF SkipIdentity, Publishing, LedgerInv, LedgerTypeOK, OwnRows
  <2>1. /\ s \in LedgerRequests /\ s.does = t.does /\ s.case = t.case /\ s.identities = t.identities
        /\ s.todo = t.todo \ {identity} /\ s.pending = t.pending /\ s.overtaken = t.overtaken
    BY <2>0 DEF LedgerRequests
  <2>2. \E r \in rows : r.digest = identity /\ r.case = t.case
    BY <1>3 DEF SkipIdentity, AlreadyPresent
  <2>3. session' = [session EXCEPT ![p] = s] /\ UNCHANGED <<gate, holds, rows, sealed, withdrawn, overlapped>>
    BY <1>3 DEF SkipIdentity
  <2> HIDE DEF s, t
  <2>4. IsPublication(s, rows)
    BY <2>0, <2>1, <2>2 DEF IsRequest, IsPublication
  <2>5. IsRequest(s, rows)
    BY <2>0, <2>1, <2>4 DEF IsRequest, IsWithdrawal
  <2> QED
    BY <2>1, <2>3, <2>5, RequestStep DEF LedgerInv, LedgerTypeOK, t
<1>4. CASE FailRequest(p)
  BY <1>4, RequestStep, IdleRequest, NoLedgerRequestType DEF FailRequest, LedgerInv, LedgerTypeOK
<1> QED
  BY <1>1, <1>2, <1>3, <1>4

\* A row is added to a request.
LEMMA LedgerKeptByAdding ==
    ASSUME LedgerInv, NEW p \in Publishers, NEW identity \in Identities, AddIdentity(p, identity)
    PROVE  LedgerInv'
<1> USE DEF LedgerInv
<1> DEFINE t == session[p]
<1>0. PICK n, row :
         /\ n = Len(sealed) + 1
         /\ row = [digest |-> identity, case |-> t.case, previous |-> HeadOf(p), at |-> n, hash |-> n]
  OBVIOUS
<1>1. t \in LedgerRequests /\ IsRequest(t, rows) /\ t.does = "publish" /\ t.case \in Cases /\ identity \in t.todo
  BY DEF AddIdentity, Publishing, LedgerTypeOK, OwnRows, IsRequest
<1>2. /\ row \in Rows'
      /\ sealed' = Append(sealed, ChainPayload(row))
      /\ sealed' \in Seq(Payloads') /\ Len(sealed') = n
      /\ session' = [session EXCEPT ![p].todo = @ \ {identity}, ![p].pending = @ \cup {row}]
      /\ row.previous = NoHash \/ row.previous < row.hash
  BY <1>0, <1>1, EntryType
<1>3. /\ Rows \subseteq Rows' /\ LedgerRequests \subseteq LedgerRequests' /\ Hashes \subseteq Hashes'
      /\ Len(sealed) \in Nat
  BY <1>2, SealedGrow
<1> DEFINE s == [does |-> t.does, case |-> t.case, identities |-> t.identities, todo |-> t.todo \ {identity},
                 pending |-> t.pending \cup {row}, overtaken |-> t.overtaken]
<1>4. session'[p] = s /\ \A q \in Publishers \ {p} : session'[q] = session[q]
  BY <1>1, <1>2 DEF LedgerTypeOK, LedgerRequests
<1>5. s \in LedgerRequests'
  BY <1>1, <1>2, <1>3 DEF LedgerRequests
<1>6. session' \in [Publishers -> LedgerRequests']
  BY <1>2, <1>3, <1>4, <1>5 DEF LedgerTypeOK
<1>7. RowSealed(row)'
  <2>1. sealed'[n] = ChainPayload(row)
    BY <1>0, <1>2, <1>3 DEF LedgerTypeOK
  <2> QED
    BY <1>0, <1>2, <2>1 DEF RowSealed, ChainPayload
<1>8. UNCHANGED <<gate, holds, rows, overlapped, withdrawn>> /\ Len(sealed) < MaxRows
  BY DEF AddIdentity
<1>9. s.pending = t.pending \cup {row} /\ s.todo = t.todo \ {identity} /\ s.does = "publish"
      /\ s.case = t.case /\ s.identities = t.identities /\ s.overtaken = t.overtaken
  BY <1>1
<1> HIDE DEF s
<1>10. LedgerTypeOK'
  <2>1. n <= MaxRows
    BY <1>0, <1>3, <1>8, LedgerAssumption
  <2> QED
    BY <1>2, <1>3, <1>6, <1>8, <2>1 DEF LedgerTypeOK
<1>11. AllSealed'
  <2>1. \A q \in Publishers : \A r \in session[q].pending : r \in Rows /\ RowSealed(r)'
    BY <1>2, SealsStay DEF AllSealed, LedgerTypeOK, LedgerRequests
  <2>2. \A r \in rows : RowSealed(r)'
    BY <1>2, SealsStay DEF AllSealed, LedgerTypeOK
  <2> QED
    BY <1>4, <1>7, <1>8, <1>9, <2>1, <2>2 DEF AllSealed
<1>12. IsRequest(s, rows)
  <2>1. row.digest = identity /\ row.case = t.case /\ row.digest \notin s.todo
    BY <1>0, <1>9
  <2>2. identity \in t.identities
    BY <1>1 DEF IsRequest, IsPublication
  <2>3. IsPublication(s, rows)
    <3>1. \A r \in s.pending : r.digest \notin s.todo
      BY <1>1, <1>9, <2>1 DEF IsRequest, IsPublication
    <3>2. \A r, q \in s.pending : r.digest = q.digest => r = q
      BY <1>1, <1>9, <2>1 DEF IsRequest, IsPublication
    <3>3. \/ s.overtaken
          \/ \A i \in s.identities : i \in s.todo \/ \E r \in s.pending \cup rows : r.digest = i /\ r.case = s.case
      BY <1>1, <1>9, <2>1 DEF IsRequest, IsPublication
    <3>4. s.todo \subseteq s.identities
      BY <1>1, <1>9 DEF IsRequest, IsPublication
    <3> QED
      BY <3>1, <3>2, <3>3, <3>4 DEF IsPublication
  <2> QED
    BY <1>1, <1>9, <2>1, <2>2, <2>3 DEF IsRequest, IsWithdrawal, NoLedgerRequest
<1>13. OwnRows'
  BY <1>4, <1>8, <1>12 DEF OwnRows
<1>14. OneRowPerIdentifier'
  BY <1>8 DEF OneRowPerIdentifier
<1>15. Apart'
  <2>1. /\ \A r \in rows : r.hash \in Nat /\ r.hash < n
        /\ \A q \in Publishers : \A r \in session[q].pending : r.hash \in Nat /\ r.hash < n
        /\ \A h \in withdrawn : h \in Nat /\ h < n
    BY <1>0, <1>3 DEF LedgerTypeOK, LedgerRequests, Rows, Hashes
  <2>2. row.hash = n
    BY <1>0
  <2>3. \A q \in Publishers : /\ session'[q].does = session[q].does
                              /\ q # p => session'[q].pending = session[q].pending
    BY <1>1, <1>4, <1>9
  <2>4. Publishing(p) /\ session'[p].pending = session[p].pending \cup {row}
    BY <1>1, <1>4, <1>9 DEF Publishing
  <2> HIDE DEF t
  <2>5. \A q \in Publishers : Publishing(q)' = Publishing(q) /\ Withdrawing(q)' = Withdrawing(q)
    BY <2>3 DEF Publishing, Withdrawing
  <2>6. ~Withdrawing(p)
    BY <2>4 DEF Publishing, Withdrawing
  <2>7. \A q \in Publishers : Publishing(q)' =>
          \A r \in session'[q].pending : r.hash \notin withdrawn /\ \A x \in rows : x.hash # r.hash
    BY <2>1, <2>2, <2>3, <2>4, <2>5 DEF Apart
  <2>8. \A q, u \in Publishers : Publishing(q)' /\ Publishing(u)' /\ q # u =>
          \A r \in session'[q].pending, x \in session'[u].pending : r.hash # x.hash
    BY <2>1, <2>2, <2>3, <2>4, <2>5 DEF Apart
  <2>9. \A q \in Publishers : Withdrawing(q)' =>
          \A r \in session'[q].pending : r \in rows \/ r.hash \in withdrawn
    BY <2>3, <2>5, <2>6 DEF Apart
  <2> QED
    BY <1>8, <2>7, <2>8, <2>9 DEF Apart
<1> QED
  BY <1>10, <1>11, <1>13, <1>14, <1>15

\* A publication commits.
LEMMA LedgerKeptByCommit ==
    ASSUME LedgerInv, NEW p \in Publishers, CommitPublish(p)
    PROVE  LedgerInv'
<1> USE DEF LedgerInv
<1>1. /\ Publishing(p) /\ rows' = rows \cup session[p].pending
      /\ session' = [session EXCEPT ![p] = NoLedgerRequest]
      /\ UNCHANGED <<gate, holds, sealed, overlapped, withdrawn>>
      /\ \A r \in session[p].pending : ~\E q \in rows : q.digest = r.digest /\ q.case = r.case
  BY DEF CommitPublish, Refused, AlreadyPresent
<1>2. /\ session'[p] = NoLedgerRequest /\ \A q \in Publishers \ {p} : session'[q] = session[q]
      /\ session' \in [Publishers -> LedgerRequests]
  BY <1>1, NoLedgerRequestType DEF LedgerTypeOK
<1>3. session[p] \in LedgerRequests /\ IsRequest(session[p], rows)
  BY DEF LedgerTypeOK, OwnRows
<1>4. LedgerTypeOK' /\ AllSealed'
  <2>1. rows' \subseteq Rows /\ \A r \in rows' : RowSealed(r)
    BY <1>1, <1>3 DEF LedgerTypeOK, LedgerRequests, AllSealed
  <2>2. \A q \in Publishers : \A r \in session'[q].pending : RowSealed(r)
    BY <1>2, NoLedgerRequestType DEF AllSealed
  <2> QED
    BY <1>1, <1>2, <2>1, <2>2, TablesKept DEF LedgerTypeOK
<1>5. OwnRows'
  <2>1. \A q \in Publishers : IsRequest(session'[q], rows)
    BY <1>2, IdleRequest DEF OwnRows
  <2> QED
    BY <1>1, <2>1, RequestAmongMore DEF OwnRows
<1>6. OneRowPerIdentifier'
  <2>1. \A r, q \in session[p].pending : r.digest = q.digest => r = q
    BY <1>1, <1>3 DEF IsRequest, IsPublication, Publishing
  <2> QED
    BY <1>1, <2>1 DEF OneRowPerIdentifier
<1>7. Apart'
  <2>1. ~Publishing(p)' /\ ~Withdrawing(p)'
    BY <1>2, NoLedgerRequestType DEF Publishing, Withdrawing
  <2>2. \A q \in Publishers \ {p} : Publishing(q)' = Publishing(q) /\ Withdrawing(q)' = Withdrawing(q)
    BY <1>2 DEF Publishing, Withdrawing
  <2>3. \A r \in rows' : r.hash \notin withdrawn
    BY <1>1 DEF Apart
  <2>4. \A q \in Publishers : Publishing(q)' =>
          \A r \in session'[q].pending : r.hash \notin withdrawn /\ \A x \in rows' : x.hash # r.hash
    BY <1>1, <1>2, <2>1, <2>2 DEF Apart
  <2>5. \A q, u \in Publishers : Publishing(q)' /\ Publishing(u)' /\ q # u =>
          \A r \in session'[q].pending, x \in session'[u].pending : r.hash # x.hash
    BY <1>2, <2>1, <2>2 DEF Apart
  <2>6. \A q \in Publishers : Withdrawing(q)' =>
          \A r \in session'[q].pending : r \in rows' \/ r.hash \in withdrawn
    BY <1>1, <1>2, <2>1, <2>2 DEF Apart
  <2> QED
    BY <1>1, <2>3, <2>4, <2>5, <2>6 DEF Apart
<1> QED
  BY <1>4, <1>5, <1>6, <1>7

\* What a withdrawal does to the other requests.
LEMMA Overtaking ==
    ASSUME LedgerTypeOK, NEW p \in Publishers, CommitWithdraw(p)
    PROVE  /\ session' \in [Publishers -> LedgerRequests] /\ session'[p] = NoLedgerRequest
           /\ \A q \in Publishers \ {p} :
                /\ session'[q].does = session[q].does /\ session'[q].case = session[q].case
                /\ session'[q].identities = session[q].identities /\ session'[q].todo = session[q].todo
                /\ session'[q].pending = session[q].pending
                /\ session'[q].overtaken <=> (session[q].overtaken \/ session[q].case = session[p].case)
                /\ session[q].case # session[p].case => session'[q] = session[q]
<1>1. ASSUME NEW q \in Publishers \ {p}
      PROVE  /\ session'[q] \in LedgerRequests
             /\ session'[q].does = session[q].does /\ session'[q].case = session[q].case
             /\ session'[q].identities = session[q].identities /\ session'[q].todo = session[q].todo
             /\ session'[q].pending = session[q].pending
             /\ session'[q].overtaken <=> (session[q].overtaken \/ session[q].case = session[p].case)
             /\ session[q].case # session[p].case => session'[q] = session[q]
  <2> DEFINE t == session[q]
             o == t.overtaken \/ t.case = session[p].case
  <2>1. t \in LedgerRequests /\ o \in BOOLEAN
    BY DEF LedgerTypeOK
  <2>2. session'[q] = [t EXCEPT !.overtaken = o]
    BY DEF CommitWithdraw
  <2>3. session[q].case # session[p].case => o = t.overtaken
    BY <2>1 DEF LedgerRequests
  <2> HIDE DEF o
  <2>4. [t EXCEPT !.overtaken = o] = [does |-> t.does, case |-> t.case, identities |-> t.identities,
                                      todo |-> t.todo, pending |-> t.pending, overtaken |-> o]
    BY <2>1 DEF LedgerRequests
  <2>5. [t EXCEPT !.overtaken = t.overtaken] = t
    BY <2>1 DEF LedgerRequests
  <2>6. session'[q] \in LedgerRequests
    BY <2>1, <2>2, <2>4 DEF LedgerRequests
  <2>7. session[q].case # session[p].case => session'[q] = session[q]
    BY <2>2, <2>3, <2>5
  <2> QED
    BY <2>2, <2>4, <2>6, <2>7 DEF o
<1>2. session'[p] = NoLedgerRequest /\ DOMAIN session' = Publishers
      /\ session' = [q \in Publishers |-> session'[q]]
  BY DEF CommitWithdraw
<1> QED
  BY <1>1, <1>2, NoLedgerRequestType

\* A withdrawal commits.
LEMMA LedgerKeptByWithdrawal ==
    ASSUME LedgerInv, NEW p \in Publishers, CommitWithdraw(p)
    PROVE  LedgerInv'
<1> USE DEF LedgerInv
<1> DEFINE t == session[p]
<1>1. /\ Withdrawing(p) /\ rows' = rows \ t.pending
      /\ withdrawn' = withdrawn \cup {r.hash : r \in t.pending}
      /\ UNCHANGED <<gate, holds, sealed, overlapped>>
  BY DEF CommitWithdraw
<1>2. t \in LedgerRequests /\ IsRequest(t, rows) /\ t.pending \subseteq Rows /\ t.case \in Cases
      /\ rows \subseteq Rows
  BY <1>1 DEF LedgerTypeOK, LedgerRequests, OwnRows, IsRequest, Withdrawing
<1>3. \A r, q \in rows \cup t.pending : r.hash = q.hash => r = q
  BY <1>2, HashNamesRow DEF AllSealed
<1>4. LedgerTypeOK' /\ AllSealed'
  <2>1. withdrawn' \subseteq Hashes
    BY <1>1, <1>2 DEF LedgerTypeOK, Rows
  <2>2. \A q \in Publishers : \A r \in session'[q].pending : RowSealed(r)
    BY Overtaking, NoLedgerRequestType DEF AllSealed
  <2>3. rows' \subseteq Rows /\ \A r \in rows' : RowSealed(r)
    BY <1>1, <1>2 DEF AllSealed
  <2> QED
    BY <1>1, <2>1, <2>2, <2>3, Overtaking, TablesKept DEF LedgerTypeOK
<1>5. OwnRows'
  <2> SUFFICES ASSUME NEW q \in Publishers \ {p} PROVE IsRequest(session'[q], rows')
    BY Overtaking, IdleRequest DEF OwnRows
  <2>1. IsRequest(session[q], rows)
    BY DEF OwnRows
  <2>2. CASE session[q].case # t.case
    <3>1. \A r \in rows : r.case = session[q].case => r \in rows'
      BY <1>1, <1>2, <2>2 DEF IsRequest
    <3>2. \A r \in session[q].pending : r.case = session[q].case
      BY <2>1 DEF IsRequest
    <3>3. IsPublication(session[q], rows') /\ IsWithdrawal(session[q], rows')
      BY <2>1, <3>1, <3>2 DEF IsRequest, IsPublication, IsWithdrawal
    <3> QED
      BY <2>1, <2>2, <3>3, Overtaking DEF IsRequest
  <2>3. CASE session[q].case = t.case
    <3>1. session[q].does # "nothing"
      BY <1>2, <2>1, <2>3, LedgerAssumption, NoLedgerRequestType DEF IsRequest
    <3> QED
      BY <2>1, <2>3, <3>1, Overtaking DEF IsRequest, IsPublication, IsWithdrawal
  <2> QED
    BY <2>2, <2>3
<1>6. OneRowPerIdentifier'
  BY <1>1 DEF OneRowPerIdentifier
<1>7. Apart'
  <2>1. ~Publishing(p)' /\ ~Withdrawing(p)'
    BY Overtaking, NoLedgerRequestType DEF Publishing, Withdrawing
  <2>2. \A q \in Publishers \ {p} :
          Publishing(q)' = Publishing(q) /\ Withdrawing(q)' = Withdrawing(q) /\ session'[q].pending = session[q].pending
    BY Overtaking DEF Publishing, Withdrawing
  <2>3. \A r \in t.pending : r \in rows \/ r.hash \in withdrawn
    BY <1>1 DEF Apart
  <2> HIDE DEF t
  <2>4. \A r \in rows' : r.hash \notin withdrawn'
    BY <1>1, <1>3 DEF Apart
  <2>5. \A q \in Publishers : Publishing(q) =>
          \A r \in session[q].pending : r.hash \notin withdrawn'
    BY <1>1, <2>3 DEF Apart
  <2>6. \A q \in Publishers : Publishing(q)' =>
          \A r \in session'[q].pending : r.hash \notin withdrawn' /\ \A x \in rows' : x.hash # r.hash
    BY <1>1, <2>1, <2>2, <2>5 DEF Apart
  <2>7. \A q, u \in Publishers : Publishing(q)' /\ Publishing(u)' /\ q # u =>
          \A r \in session'[q].pending, x \in session'[u].pending : r.hash # x.hash
    BY <2>1, <2>2 DEF Apart
  <2>8. \A q \in Publishers : Withdrawing(q)' =>
          \A r \in session'[q].pending : r \in rows' \/ r.hash \in withdrawn'
    BY <1>1, <2>1, <2>2 DEF Apart
  <2> QED
    BY <2>4, <2>6, <2>7, <2>8 DEF Apart
<1> QED
  BY <1>4, <1>5, <1>6, <1>7

\* The inductive invariant holds in every run, whatever cases, entities and
\* publishers there are.
LEMMA LedgerStep == LedgerInv /\ [LedgerNext]_ledgerVars => LedgerInv'
  BY LedgerKeptByFinding, LedgerKeptByRequests, LedgerKeptByAdding, LedgerKeptByCommit,
     LedgerKeptByWithdrawal DEF LedgerNext

LEMMA LedgerInvariant == LedgerSpec => []LedgerInv
  BY LedgerStarts, LedgerStep, PTL DEF LedgerSpec

\* Whatever districts publish and withdraw at once, the tables of the ledger
\* and the rows of unfinished requests are what publish_case and withdraw_case
\* can write.
THEOREM LedgerTypeCorrect == LedgerSpec => []LedgerTypeOK
<1>1. LedgerInv => LedgerTypeOK
  BY DEF LedgerInv
<1> QED
  BY <1>1, LedgerInvariant, PTL

\* A row's place in the chain, as verify computes it, is after a stored row.
LEMMA ExpectedRow ==
    ASSUME LedgerTypeOK, NEW row \in rows, Before(row) # {}
    PROVE  \E q \in Before(row) :
               Expected(row) = q.hash /\ \A x \in Before(row) : x.at <= q.at
<1>1. Len(sealed) \in Nat /\ \A r \in Before(row) : r.at \in 1..Len(sealed)
  BY DEF LedgerTypeOK, Before, Rows, Hashes
<1>2. \E q \in Before(row) : \A x \in Before(row) : x.at <= q.at
  BY <1>1, NewestExists
<1>3. Expected(row) = (CHOOSE q \in Before(row) : \A x \in Before(row) : x.at <= q.at).hash
  BY DEF Expected
<1> QED
  BY <1>2, <1>3

(***************************************************************************)
(* The refinement: what is posted on the board is what the committed rows     *)
(* say, what a case knows are the canonical forms of its entities, and a      *)
(* request is what it set out to do; pending rows, passed-over identifiers    *)
(* and the chain are hidden.                                                  *)
(***************************************************************************)

\* One request changes, and the board's view of it with it.
LEMMA AskedOf ==
    ASSUME NEW p \in Publishers, NEW s, session' = [session EXCEPT ![p] = s],
           DOMAIN session = Publishers
    PROVE  Asked' = [Asked EXCEPT ![p] = [does |-> s.does, case |-> s.case, identities |-> s.identities,
                                          overtaken |-> s.overtaken]]
  BY DEF Asked

LEMMA AskedNothing ==
    /\ Board!Nothing = [does |-> NoLedgerRequest.does, case |-> NoLedgerRequest.case,
                        identities |-> NoLedgerRequest.identities, overtaken |-> NoLedgerRequest.overtaken]
    /\ \A p \in Publishers : session[p] = NoLedgerRequest => Asked[p] = Board!Nothing
<1>1. Board!Nothing = [does |-> NoLedgerRequest.does, case |-> NoLedgerRequest.case,
                       identities |-> NoLedgerRequest.identities, overtaken |-> NoLedgerRequest.overtaken]
  BY DEF Board!Nothing, NoLedgerRequest
<1>2. \A p \in Publishers :
        Asked[p] = [does |-> session[p].does, case |-> session[p].case,
                    identities |-> session[p].identities, overtaken |-> session[p].overtaken]
  BY DEF Asked
<1> QED
  BY <1>1, <1>2

\* A case learns what its new entity is in canonical form, if it has one.
LEMMA FindingLearns ==
    ASSUME LedgerInv, NEW case \in Cases, NEW e \in Entities, FindEntity(case, e)
    PROVE  [Board!Next]_Board!boardVars
<1>1. /\ holds' = [holds EXCEPT ![case] = @ \cup {e}] /\ UNCHANGED <<rows, session>>
      /\ DOMAIN holds = Cases
  BY DEF FindEntity, LedgerInv, LedgerTypeOK
<1>2. Posted' = Posted /\ Asked' = Asked
  BY <1>1 DEF Posted, Asked
<1>3. CASE Canonical[e] = Unmatchable
  <2>1. \A c \in Cases : IdentitiesOf(c)' = IdentitiesOf(c)
    BY <1>1, <1>3 DEF IdentitiesOf
  <2>2. Known' = Known
    BY <2>1 DEF Known
  <2> QED
    BY <1>2, <2>2 DEF Board!boardVars
<1>4. CASE Canonical[e] # Unmatchable
  <2>1. Canonical[e] \in Identities
    BY <1>4, LedgerAssumption
  <2>2. /\ IdentitiesOf(case)' = IdentitiesOf(case) \cup {Canonical[e]}
        /\ \A c \in Cases \ {case} : IdentitiesOf(c)' = IdentitiesOf(c)
    BY <1>1, <1>4 DEF IdentitiesOf
  <2>3. Known' = [Known EXCEPT ![case] = @ \cup {Canonical[e]}]
    BY <2>2 DEF Known
  <2> QED
    BY <1>2, <2>1, <2>3 DEF Board!Next, Board!Learn
<1> QED
  BY <1>3, <1>4

\* A request begins.
LEMMA BeginningAsks ==
    ASSUME LedgerInv, NEW p \in Publishers, NEW case \in Cases, BeginPublish(p, case) \/ BeginWithdraw(p, case)
    PROVE  Board!Next
<1>0. DOMAIN session = Publishers /\ session[p] = NoLedgerRequest /\ UNCHANGED <<rows, holds>>
  BY DEF BeginPublish, BeginWithdraw, LedgerInv, LedgerTypeOK
<1>1. Posted' = Posted /\ Known' = Known /\ Asked[p] = Board!Nothing
  BY <1>0, AskedNothing DEF Posted, Known, IdentitiesOf
<1>2. CASE BeginPublish(p, case)
  <2>1. Asked' = [Asked EXCEPT ![p] = [does |-> "publish", case |-> case, identities |-> IdentitiesOf(case),
                                       overtaken |-> FALSE]]
    BY <1>0, <1>2 DEF BeginPublish, Asked
  <2>2. Known[case] = IdentitiesOf(case)
    BY DEF Known
  <2> QED
    BY <1>1, <2>1, <2>2 DEF Board!Next, Board!AskToPost, Board!Ask
<1>3. CASE BeginWithdraw(p, case)
  <2>1. Asked' = [Asked EXCEPT ![p] = [does |-> "withdraw", case |-> case, identities |-> {r.digest : r \in RowsOf(case)},
                                       overtaken |-> FALSE]]
    BY <1>0, <1>3 DEF BeginWithdraw, Asked
  <2>2. {r.digest : r \in RowsOf(case)} = {n[1] : n \in Board!Notices(case)}
    <3>1. ASSUME NEW r \in RowsOf(case) PROVE \E n \in Board!Notices(case) : n[1] = r.digest
      <4>1. <<r.digest, r.case>> \in Board!Notices(case)
        BY DEF Board!Notices, Posted, RowsOf
      <4> QED
        BY <4>1
    <3>2. ASSUME NEW n \in Board!Notices(case) PROVE \E r \in RowsOf(case) : n[1] = r.digest
      <4>1. PICK r \in rows : n = <<r.digest, r.case>> /\ n[2] = case
        BY DEF Board!Notices, Posted
      <4> QED
        BY <4>1 DEF RowsOf
    <3> QED
      BY <3>1, <3>2
  <2> QED
    BY <1>1, <2>1, <2>2 DEF Board!Next, Board!AskBack, Board!Ask
<1> QED
  BY <1>2, <1>3

\* What goes on inside a request is not seen on the board, and a failure is a
\* request given up.
LEMMA InsideARequest ==
    ASSUME LedgerInv, NEW p \in Publishers, NEW identity \in Identities,
           SkipIdentity(p, identity) \/ AddIdentity(p, identity)
    PROVE  UNCHANGED Board!boardVars
<1>1. UNCHANGED <<rows, holds>>
  BY DEF SkipIdentity, AddIdentity
<1>2. /\ \A q \in Publishers \ {p} : session'[q] = session[q]
      /\ session'[p].does = session[p].does /\ session'[p].case = session[p].case
      /\ session'[p].identities = session[p].identities /\ session'[p].overtaken = session[p].overtaken
  BY DEF SkipIdentity, AddIdentity, LedgerInv, LedgerTypeOK, LedgerRequests
<1>3. Asked' = Asked
  BY <1>2 DEF Asked
<1> QED
  BY <1>1, <1>3 DEF Board!boardVars, Posted, Known, IdentitiesOf

LEMMA FailingGivesUp ==
    ASSUME LedgerInv, NEW p \in Publishers, FailRequest(p)
    PROVE  Board!Next
<1>1. Asked' = [Asked EXCEPT ![p] = Board!Nothing]
  BY AskedOf, AskedNothing DEF FailRequest, LedgerInv, LedgerTypeOK
<1>2. Posted' = Posted /\ Known' = Known
  BY DEF FailRequest, Posted, Known, IdentitiesOf
<1> QED
  BY <1>1, <1>2 DEF Board!Next, Board!GiveUp

\* A commit posts all the request found, or what an overtaken one still had to.
LEMMA CommitPosts ==
    ASSUME LedgerInv, NEW p \in Publishers, CommitPublish(p)
    PROVE  Board!Next
<1> DEFINE t == session[p]
           ids == {r.digest : r \in t.pending}
<1>1. /\ t.does = "publish" /\ t.todo = {} /\ rows' = rows \cup t.pending /\ UNCHANGED holds
      /\ session' = [session EXCEPT ![p] = NoLedgerRequest]
  BY DEF CommitPublish, Publishing
<1>2. IsRequest(t, rows) /\ DOMAIN session = Publishers /\ t \in LedgerRequests
  BY DEF LedgerInv, OwnRows, LedgerTypeOK
<1>3. /\ \A r \in t.pending : r.case = t.case /\ r.digest \in t.identities
      /\ t.overtaken \/ \A i \in t.identities : \E r \in t.pending \cup rows : r.digest = i /\ r.case = t.case
  BY <1>1, <1>2 DEF IsRequest, IsPublication
<1>4. /\ Asked' = [Asked EXCEPT ![p] = Board!Nothing] /\ Known' = Known
  BY <1>1, <1>2, AskedOf, AskedNothing DEF Known, IdentitiesOf
<1>5. Asked[p].does = "publish" /\ Asked[p].case = t.case /\ Asked[p].identities = t.identities
      /\ Asked[p].overtaken = t.overtaken
  BY <1>1 DEF Asked
<1>6. Posted' = Posted \cup (ids \X {t.case})
  BY <1>1, <1>3 DEF Posted
<1>7. \E notices \in Board!Part(p) : Posted' = Posted \cup notices
  <2>1. CASE t.overtaken
    <3>1. ids \in SUBSET t.identities
      BY <1>3
    <3>2. ids \X {t.case} \in Board!Part(p)
      BY <1>5, <2>1, <3>1 DEF Board!Part
    <3> QED
      BY <1>6, <3>2
  <2>2. CASE ~t.overtaken
    <3>1. Posted' = Posted \cup (t.identities \X {t.case})
      <4>1. ids \subseteq t.identities
        BY <1>3
      <4>2. \A i \in t.identities : <<i, t.case>> \in Posted'
        BY <1>1, <1>3, <2>2 DEF Posted
      <4> QED
        BY <1>6, <4>1, <4>2
    <3>2. t.identities \X {t.case} \in Board!Part(p)
      BY <1>5, <2>2 DEF Board!Part
    <3> QED
      BY <3>1, <3>2
  <2> QED
    BY <2>1, <2>2
<1> HIDE DEF t
<1> QED
  BY <1>4, <1>5, <1>7 DEF Board!Next, Board!Post

\* A withdrawal takes back all it found, or what an overtaken one still finds.
LEMMA WithdrawTakesBack ==
    ASSUME LedgerInv, NEW p \in Publishers, CommitWithdraw(p)
    PROVE  Board!Next
<1> DEFINE t == session[p]
           gone == t.pending \cap rows
           ids == {r.digest : r \in gone}
<1>1. t.does = "withdraw" /\ rows' = rows \ t.pending /\ UNCHANGED holds
  BY DEF CommitWithdraw, Withdrawing
<1>2. IsRequest(t, rows) /\ t \in LedgerRequests /\ LedgerTypeOK
  BY DEF LedgerInv, OwnRows, LedgerTypeOK
<1>3. /\ \A r \in t.pending : r.case = t.case /\ r.digest \in t.identities
      /\ t.overtaken \/ (t.pending \subseteq rows /\ \A i \in t.identities : \E r \in t.pending : r.digest = i)
  BY <1>1, <1>2 DEF IsRequest, IsWithdrawal
<1>4. Asked' = [q \in Publishers |->
                   IF q = p THEN Board!Nothing
                   ELSE [Asked[q] EXCEPT !.overtaken = @ \/ Asked[q].case = Asked[p].case]]
  <2>1. Asked'[p] = Board!Nothing
    BY <1>2, Overtaking, AskedNothing DEF Asked
  <2>2. ASSUME NEW q \in Publishers \ {p}
        PROVE  Asked'[q] = [Asked[q] EXCEPT !.overtaken = @ \/ Asked[q].case = Asked[p].case]
    <3> DEFINE o == session[q].overtaken \/ session[q].case = session[p].case
    <3>1. session'[q].overtaken = o
      BY <1>2, Overtaking DEF LedgerTypeOK, LedgerRequests
    <3>2. Asked[q].overtaken = session[q].overtaken /\ Asked[q].case = session[q].case /\ Asked[p].case = session[p].case
      BY DEF Asked
    <3>3. (Asked[q].overtaken \/ Asked[q].case = Asked[p].case) = o
      BY <3>2
    <3> HIDE DEF o
    <3>4. Asked'[q] = [does |-> session[q].does, case |-> session[q].case,
                       identities |-> session[q].identities, overtaken |-> o]
      BY <1>2, <3>1, Overtaking DEF Asked
    <3>5. [Asked[q] EXCEPT !.overtaken = o] = [does |-> session[q].does, case |-> session[q].case,
                                               identities |-> session[q].identities, overtaken |-> o]
      BY DEF Asked
    <3> QED
      BY <3>3, <3>4, <3>5
  <2>3. Asked' = [q \in Publishers |-> Asked'[q]]
    BY DEF Asked
  <2> QED
    BY <2>1, <2>2, <2>3
<1>5. Asked[p].does = "withdraw" /\ Asked[p].case = t.case /\ Asked[p].identities = t.identities
      /\ Asked[p].overtaken = t.overtaken /\ Known' = Known
  BY <1>1 DEF Asked, Known, IdentitiesOf
<1>6. Posted' = Posted \ (ids \X {t.case})
  <2>1. ASSUME NEW r \in rows, NEW q \in gone, r.digest = q.digest, r.case = q.case PROVE r \notin rows'
    BY <1>1, <2>1 DEF LedgerInv, OneRowPerIdentifier
  <2>2. \A q \in gone : q.case = t.case
    BY <1>3
  <2>3. \A r \in rows \ rows' : r \in gone
    BY <1>1
  <2>4. rows' \subseteq rows
    BY <1>1
  <2>5. \A r \in rows' : <<r.digest, r.case>> \notin ids \X {t.case}
    BY <2>1, <2>2, <2>4
  <2>6. \A r \in rows \ rows' : <<r.digest, r.case>> \in ids \X {t.case}
    BY <2>2, <2>3
  <2> HIDE DEF ids, gone, t
  <2> QED
    BY <2>4, <2>5, <2>6 DEF Posted
<1>7. \E notices \in Board!Part(p) : Posted' = Posted \ notices
  <2>1. CASE t.overtaken
    <3>1. ids \in SUBSET t.identities
      BY <1>3
    <3>2. ids \X {t.case} \in Board!Part(p)
      BY <1>5, <2>1, <3>1 DEF Board!Part
    <3> QED
      BY <1>6, <3>2
  <2>2. CASE ~t.overtaken
    <3>1. ids = t.identities
      BY <1>3, <2>2
    <3>2. ids \X {t.case} \in Board!Part(p)
      BY <1>5, <2>2, <3>1 DEF Board!Part
    <3> QED
      BY <1>6, <3>2
  <2> QED
    BY <2>1, <2>2
<1> HIDE DEF t
<1> QED
  BY <1>4, <1>5, <1>7 DEF Board!Next, Board!TakeBack

\* The shared ledger implements the notice board: with any number of districts
\* publishing and withdrawing at once, what a case holds appears on the ledger
\* all at once or not at all, and disappears so, unless another withdrawal of
\* that case came between; and no request touches another case's rows
\* (publish_case and withdraw_case, each with its commit).
THEOREM LedgerImplementsBoard == LedgerSpec => ImplementsNoticeBoard
<1>1. LedgerInit => Board!Init
  <2> SUFFICES ASSUME LedgerInit PROVE Board!Init
    OBVIOUS
  <2>1. Posted = {} /\ Known = [c \in Cases |-> {}]
    BY DEF LedgerInit, Posted, Known, IdentitiesOf
  <2>2. \A p \in Publishers : Asked[p] = Board!Nothing
    BY AskedNothing DEF LedgerInit
  <2>3. Asked = [p \in Publishers |-> Asked[p]]
    BY DEF Asked
  <2> QED
    BY <2>1, <2>2, <2>3 DEF Board!Init
<1>2. LedgerInv /\ [LedgerNext]_ledgerVars => [Board!Next]_Board!boardVars
  <2> SUFFICES ASSUME LedgerInv, [LedgerNext]_ledgerVars PROVE [Board!Next]_Board!boardVars
    OBVIOUS
  <2>1. CASE UNCHANGED ledgerVars
    BY <2>1 DEF ledgerVars, Board!boardVars, Posted, Known, Asked, IdentitiesOf
  <2> QED
    BY <2>1, FindingLearns, BeginningAsks, InsideARequest, FailingGivesUp, CommitPosts, WithdrawTakesBack
       DEF LedgerNext
<1> QED
  BY <1>1, <1>2, LedgerInvariant, PTL DEF LedgerSpec, ImplementsNoticeBoard, Board!Spec

(***************************************************************************)
(* Publications that came one at a time: the pending rows of the one request *)
(* are newer than all committed ones, and each row it sees follows the       *)
(* newest row before it, or one that was withdrawn.                          *)
(***************************************************************************)
Earlier(r, S) == {q \in S : q.at < r.at}

Follows(r, S, gone) ==
    \/ r.previous \in gone
    \/ IF Earlier(r, S) = {} THEN r.previous = NoHash
       ELSE \E q \in Earlier(r, S) :
                /\ r.previous = q.hash
                /\ \A x \in Earlier(r, S) : x.at <= q.at

Chained(S, gone) == \A r \in S : Follows(r, S, gone)

Seen(p) == rows \cup session[p].pending

SerialInv ==
    ~overlapped =>
        /\ Chained(rows, withdrawn)
        /\ \A p, q \in Publishers : Publishing(p) /\ Publishing(q) => p = q
        /\ \A p \in Publishers : Publishing(p) =>
              /\ \A r \in session[p].pending, q \in rows : q.at < r.at
              /\ Chained(Seen(p), withdrawn)

\* A chain grows by a row newer than all its rows that follows a newest one.
LEMMA ChainGrows ==
    ASSUME NEW S, NEW row, NEW gone, Chained(S, gone), row.at \in Nat,
           \A r \in S : r.at \in Nat /\ r.at < row.at,
           IF S = {} THEN row.previous = NoHash
           ELSE \E q \in S : row.previous = q.hash /\ \A x \in S : x.at <= q.at
    PROVE  Chained(S \cup {row}, gone)
<1> SUFFICES ASSUME NEW r \in S \cup {row} PROVE Follows(r, S \cup {row}, gone)
  BY DEF Chained
<1>1. CASE r \in S
  <2>1. Earlier(r, S \cup {row}) = Earlier(r, S)
    BY <1>1 DEF Earlier
  <2> QED
    BY <1>1, <2>1 DEF Chained, Follows
<1>2. CASE r = row
  <2>1. Earlier(row, S \cup {row}) = S
    BY DEF Earlier
  <2> QED
    BY <1>2, <2>1 DEF Follows
<1> QED
  BY <1>1, <1>2

\* A chain stays one when rows are taken out of it and remembered.
LEMMA ChainShrinks ==
    ASSUME NEW S, NEW T, NEW gone, NEW more, Chained(S, gone), T \subseteq S, gone \subseteq more,
           \A r \in S \ T : r.hash \in more
    PROVE  Chained(T, more)
<1> SUFFICES ASSUME NEW r \in T, r.previous \notin more PROVE Follows(r, T, more)
  BY DEF Chained, Follows
<1>1. Earlier(r, T) \subseteq Earlier(r, S)
  BY DEF Earlier
<1>2. Follows(r, S, gone) /\ r.previous \notin gone
  BY DEF Chained
<1>3. CASE Earlier(r, S) = {}
  <2>1. Earlier(r, T) = {}
    BY <1>1, <1>3
  <2> QED
    BY <1>2, <1>3, <2>1 DEF Follows
<1>4. CASE Earlier(r, S) # {}
  <2>1. PICK q \in Earlier(r, S) : r.previous = q.hash /\ \A x \in Earlier(r, S) : x.at <= q.at
    BY <1>2, <1>4 DEF Follows
  <2>2. q \in Earlier(r, T)
    BY <2>1 DEF Earlier
  <2> QED
    BY <1>1, <2>1, <2>2 DEF Follows
<1> QED
  BY <1>3, <1>4

\* The serial invariant depends on the rows, the requests and what has
\* happened to them.
LEMMA SerialFrame ==
    ASSUME SerialInv, UNCHANGED <<rows, session, overlapped, withdrawn>>
    PROVE  SerialInv'
  BY DEF SerialInv, Seen, Publishing

\* A request that begins to publish sees the committed rows.
LEMMA BeginKeepsSerial ==
    ASSUME LedgerInv, SerialInv, NEW p \in Publishers, NEW case \in Cases, BeginPublish(p, case)
    PROVE  SerialInv'
<1> SUFFICES ASSUME ~overlapped' PROVE SerialInv'
  BY DEF SerialInv
<1>1. /\ ~overlapped /\ \A q \in Publishers : ~Publishing(q)
      /\ UNCHANGED <<rows, withdrawn>>
  BY DEF BeginPublish
<1>2. /\ session'[p].pending = {}
      /\ \A q \in Publishers \ {p} : session'[q] = session[q]
  BY DEF BeginPublish, LedgerInv, LedgerTypeOK
<1>3. \A q \in Publishers : Publishing(q)' => q = p
  BY <1>1, <1>2 DEF Publishing
<1>4. Seen(p)' = rows
  BY <1>1, <1>2 DEF Seen
<1> QED
  BY <1>1, <1>2, <1>3, <1>4 DEF SerialInv

\* A request that begins to withdraw, passes an identifier over or fails leaves
\* at most what was there to publish.
LEMMA OthersKeepSerial ==
    ASSUME LedgerInv, SerialInv, NEW p \in Publishers,
           \/ \E case \in Cases : BeginWithdraw(p, case)
           \/ \E identity \in Identities : SkipIdentity(p, identity)
           \/ FailRequest(p)
    PROVE  SerialInv'
<1>1. UNCHANGED <<rows, overlapped, withdrawn>>
  BY DEF BeginWithdraw, SkipIdentity, FailRequest
<1>2. \A q \in Publishers : Publishing(q)' => Publishing(q) /\ session'[q].pending = session[q].pending
  <2>1. CASE \E case \in Cases : BeginWithdraw(p, case)
    BY <2>1 DEF BeginWithdraw, LedgerInv, LedgerTypeOK, Publishing
  <2>2. CASE \E identity \in Identities : SkipIdentity(p, identity)
    BY <2>2 DEF SkipIdentity, LedgerInv, LedgerTypeOK, LedgerRequests, Publishing
  <2>3. CASE FailRequest(p)
    BY <2>3, NoLedgerRequestType DEF FailRequest, LedgerInv, LedgerTypeOK, Publishing
  <2> QED
    BY <2>1, <2>2, <2>3
<1>3. \A q \in Publishers : Publishing(q)' => Seen(q)' = Seen(q)
  BY <1>1, <1>2 DEF Seen
<1> QED
  BY <1>1, <1>2, <1>3 DEF SerialInv

\* The row that is added follows the newest row of what the request sees.
LEMMA AddKeepsSerial ==
    ASSUME LedgerInv, SerialInv, NEW p \in Publishers, NEW identity \in Identities,
           AddIdentity(p, identity)
    PROVE  SerialInv'
<1> SUFFICES ASSUME ~overlapped PROVE SerialInv'
  BY DEF SerialInv, AddIdentity
<1>1. PICK n, row :
         /\ n = Len(sealed) + 1
         /\ row = [digest |-> identity, case |-> session[p].case,
                   previous |-> HeadOf(p), at |-> n, hash |-> n]
  OBVIOUS
<1>2. /\ session[p] \in LedgerRequests /\ session[p].case \in Cases /\ Publishing(p)
      /\ session \in [Publishers -> LedgerRequests]
  BY DEF AddIdentity, LedgerInv, LedgerTypeOK, OwnRows, IsRequest, Publishing
<1>3. /\ session' = [session EXCEPT ![p].todo = @ \ {identity}, ![p].pending = @ \cup {row}]
      /\ UNCHANGED <<rows, overlapped, withdrawn>>
  BY <1>1, <1>2, EntryType DEF AddIdentity, LedgerInv
<1>4. /\ session'[p].pending = session[p].pending \cup {row}
      /\ \A q \in Publishers \ {p} : session'[q] = session[q]
  BY <1>2, <1>3 DEF LedgerRequests
<1>5. \A q \in Publishers : Publishing(q)' => q = p
  BY <1>2, <1>4 DEF SerialInv, Publishing
<1>6. Seen(p)' = Seen(p) \cup {row}
  BY <1>3, <1>4 DEF Seen
<1>7. row.at \in Nat /\ \A r \in Seen(p) : r.at \in Nat /\ r.at < row.at
  BY <1>1 DEF Seen, LedgerInv, LedgerTypeOK, LedgerRequests, Rows, Hashes
<1>8. Chained(Seen(p)', withdrawn)
  <2>1. IF Seen(p) = {} THEN row.previous = NoHash
        ELSE \E q \in Seen(p) : row.previous = q.hash /\ \A x \in Seen(p) : x.at <= q.at
    BY <1>1, HeadType DEF LedgerInv, Seen
  <2>2. Chained(Seen(p), withdrawn)
    BY <1>2 DEF SerialInv
  <2> QED
    BY <1>6, <1>7, <2>1, <2>2, ChainGrows
<1>9. \A r \in session'[p].pending, q \in rows : q.at < r.at
  BY <1>2, <1>4, <1>7 DEF SerialInv, Seen
<1> QED
  BY <1>3, <1>5, <1>8, <1>9 DEF SerialInv

\* A publication that commits leaves what it saw.
LEMMA CommitKeepsSerial ==
    ASSUME LedgerInv, SerialInv, NEW p \in Publishers, CommitPublish(p)
    PROVE  SerialInv'
<1> SUFFICES ASSUME ~overlapped PROVE SerialInv'
  BY DEF SerialInv, CommitPublish
<1>1. /\ Publishing(p) /\ session' = [session EXCEPT ![p] = NoLedgerRequest]
      /\ UNCHANGED <<overlapped, withdrawn>> /\ rows' = Seen(p)
  BY DEF CommitPublish, Seen
<1>2. \A q \in Publishers : ~Publishing(q)'
  BY <1>1, NoLedgerRequestType DEF LedgerInv, LedgerTypeOK, SerialInv, Publishing
<1> QED
  BY <1>1, <1>2 DEF SerialInv

\* A withdrawal takes rows out of the chain and is remembered.
LEMMA WithdrawKeepsSerial ==
    ASSUME LedgerInv, SerialInv, NEW p \in Publishers, CommitWithdraw(p)
    PROVE  SerialInv'
<1> SUFFICES ASSUME ~overlapped PROVE SerialInv'
  BY DEF SerialInv, CommitWithdraw
<1>1. /\ rows' = rows \ session[p].pending /\ overlapped' = overlapped
      /\ withdrawn' = withdrawn \cup {r.hash : r \in session[p].pending}
  BY DEF CommitWithdraw
<1>2. \A q \in Publishers : Publishing(q)' => Publishing(q) /\ session'[q].pending = session[q].pending
  BY Overtaking, NoLedgerRequestType DEF LedgerInv, Publishing
<1>3. rows' \subseteq rows /\ withdrawn \subseteq withdrawn' /\ \A r \in rows \ rows' : r.hash \in withdrawn'
  BY <1>1
<1>4. Chained(rows', withdrawn')
  BY <1>3, ChainShrinks DEF SerialInv
<1>5. ASSUME NEW q \in Publishers, Publishing(q)' PROVE Chained(Seen(q)', withdrawn')
  <2>1. Seen(q)' \subseteq Seen(q) /\ \A r \in Seen(q) \ Seen(q)' : r.hash \in withdrawn'
    BY <1>2, <1>3, <1>5 DEF Seen
  <2>2. Chained(Seen(q), withdrawn)
    BY <1>2, <1>5 DEF SerialInv
  <2> QED
    BY <1>3, <2>1, <2>2, ChainShrinks
<1> QED
  BY <1>1, <1>2, <1>3, <1>4, <1>5 DEF SerialInv

LEMMA SerialInvariant == LedgerSpec => []SerialInv
<1>1. LedgerInit => SerialInv
  BY NoLedgerRequestType DEF LedgerInit, SerialInv, Chained, Publishing
<1>2. LedgerInv /\ SerialInv /\ [LedgerNext]_ledgerVars => SerialInv'
  <2> SUFFICES ASSUME LedgerInv, SerialInv, [LedgerNext]_ledgerVars PROVE SerialInv'
    OBVIOUS
  <2>1. ASSUME NEW case \in Cases, NEW e \in Entities, FindEntity(case, e) PROVE SerialInv'
    BY <2>1, SerialFrame DEF FindEntity
  <2>2. CASE UNCHANGED ledgerVars
    BY <2>2, SerialFrame DEF ledgerVars
  <2> QED
    BY <2>1, <2>2, BeginKeepsSerial, OthersKeepSerial, AddKeepsSerial, CommitKeepsSerial,
       WithdrawKeepsSerial DEF LedgerNext
<1> QED
  BY <1>1, <1>2, LedgerInvariant, PTL DEF LedgerSpec

\* What is asked of the ledger holds of every run: the tables are well formed;
\* a case has one row per identifier, however many requests publish it at once;
\* a withdrawal that took a row from under a later one is told by the
\* verification as long as that later row stands; and, publications coming one
\* at a time, nothing else is, neither the several rows of one request nor a
\* request that fails.
THEOREM LedgerSound == LedgerSpec => []LedgerIsSound
<1>1. LedgerInv => WithdrawalsTell
  <2> SUFFICES ASSUME LedgerInv, NEW r \in rows, r.previous \in withdrawn PROVE Verdict = "broken"
    BY DEF WithdrawalsTell
  <2>1. r.previous # NoHash
    <3>1. r.previous \in Hashes /\ Len(sealed) \in Nat /\ Len(sealed) <= MaxRows
      BY DEF LedgerInv, LedgerTypeOK
    <3>2. r.previous \in 1..MaxRows
      BY <3>1, LedgerAssumption DEF Hashes
    <3> QED
      BY <3>2, LedgerAssumption
  <2>2. CASE Before(r) = {}
    BY <2>1, <2>2 DEF Expected, Holds, Verdict
  <2>3. CASE Before(r) # {}
    <3>1. PICK q \in Before(r) : Expected(r) = q.hash
      BY <2>3, ExpectedRow DEF LedgerInv
    <3>2. q.hash \notin withdrawn
      BY DEF LedgerInv, Apart, Before
    <3> QED
      BY <3>1, <3>2 DEF Holds, Verdict
  <2> QED
    BY <2>2, <2>3
<1>2. LedgerInv /\ SerialInv => NothingElseTells
  <2> SUFFICES ASSUME LedgerInv, SerialInv, ~overlapped, NEW r \in rows, r.previous \notin withdrawn
               PROVE  Holds(r)
    BY DEF NothingElseTells, Verdict
  <2>1. Follows(r, rows, withdrawn) /\ Earlier(r, rows) = Before(r)
    BY DEF SerialInv, Chained, Earlier, Before
  <2>2. CASE Before(r) = {}
    BY <2>1, <2>2 DEF Follows, Expected, Holds, LedgerInv, AllSealed, RowSealed
  <2>3. CASE Before(r) # {}
    <3>1. PICK q \in Before(r) : r.previous = q.hash /\ \A x \in Before(r) : x.at <= q.at
      BY <2>1, <2>3 DEF Follows
    <3>2. PICK e \in Before(r) : Expected(r) = e.hash /\ \A x \in Before(r) : x.at <= e.at
      BY <2>3, ExpectedRow DEF LedgerInv
    <3>3. e.at = q.at /\ e.hash = e.at /\ q.hash = q.at
      BY <3>1, <3>2 DEF LedgerInv, AllSealed, LedgerTypeOK, RowSealed, Before, Rows, Hashes
    <3> QED
      BY <3>1, <3>2, <3>3 DEF Holds, LedgerInv, AllSealed, RowSealed
  <2> QED
    BY <2>2, <2>3
<1>3. LedgerInv => OneRowPerIdentifier
  BY DEF LedgerInv
<1> QED
  BY <1>1, <1>2, <1>3, LedgerTypeCorrect, LedgerInvariant, SerialInvariant, PTL DEF LedgerIsSound

================================================================================
