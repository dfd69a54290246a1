------------------------------ MODULE MerkleTree ------------------------------
(* services/merkle.py: the root over a case's evidence hashes, and the proof  *)
(* that one of them was in the set.                                           *)
(*                                                                            *)
(* SHA-256 is taken to be free of collisions: the hash of a pair is the pair. *)
(* A leaf is the one-element tuple of its file, so that no leaf is also the   *)
(* hash of a pair. Positions count from 0, as in the code.                    *)
EXTENDS Naturals, Sequences, SequencesExt

Leaf(file) == <<file>>
Pair(left, right) == <<left, right>>

(* Mutant: the lone last node is paired with itself.                          *)
Above_PairedAlone(level) ==
    [i \in 1..((Len(level) + 1) \div 2) |->
        Pair(level[2 * i - 1], level[IF 2 * i <= Len(level) THEN 2 * i ELSE 2 * i - 1])]

(* Mutant: the lone last node is left out.                                    *)
Above_LoneDropped(level) ==
    [i \in 1..(Len(level) \div 2) |-> Pair(level[2 * i - 1], level[2 * i])]

(* The level above: neighbours are paired, a lone last node is carried up.    *)
Above(level) ==
    [i \in 1..((Len(level) + 1) \div 2) |->
        IF 2 * i <= Len(level) THEN Pair(level[2 * i - 1], level[2 * i])
                               ELSE level[2 * i - 1]]

(* _levels: every level of the tree, the leaves first, up to the first that   *)
(* has one node.                                                              *)
Levels(leaves) ==
    LET level[n \in 0..Len(leaves)] == IF n = 0 THEN leaves ELSE Above(level[n - 1])
        height == CHOOSE n \in 0..Len(leaves) :
                    Len(level[n]) <= 1 /\ \A m \in 0..(n - 1) : Len(level[m]) > 1
    IN  IF leaves = <<>> THEN <<>> ELSE [k \in 1..(height + 1) |-> level[k - 1]]

NoRoot == <<>>

root(leaves) == IF leaves = <<>> THEN NoRoot ELSE Head(Last(Levels(leaves)))

(* What the proof records at one level: the sibling and its side, or nothing  *)
(* for a node that was carried up.                                            *)
Sibling(level, position) ==
    IF position % 2 = 1 THEN << [side |-> "left", hash |-> level[position]] >>
    ELSE IF position + 1 < Len(level)
         THEN << [side |-> "right", hash |-> level[position + 2]] >>
         ELSE <<>>

(* proof: the siblings on the way from the leaf at an index to the root, level *)
(* by level; the position is halved on the way.                               *)
Rise(walk, level) ==
    [path |-> walk.path \o Sibling(level, walk.position), position |-> walk.position \div 2]
proof(leaves, index) ==
    FoldLeft(Rise, [path |-> <<>>, position |-> index], Front(Levels(leaves))).path

(* verify: the root recomputed from one leaf and its path.                    *)
Climb(current, step) ==
    IF step.side = "left" THEN Pair(step.hash, current) ELSE Pair(current, step.hash)
verify(leaf, path, expected) == expected = FoldLeft(Climb, leaf, path)

-------------------------------------------------------------------------------
(* What the tree promises of two sets of leaves, to be checked over all small *)
(* ones.                                                                      *)

(* Every leaf of a tree is proved by its path, whatever the parity of the     *)
(* levels it is carried through.                                              *)
EveryLeafProves(leaves) ==
    \A i \in 0..(Len(leaves) - 1) : verify(leaves[i + 1], proof(leaves, i), root(leaves))

(* The root fixes the set and its order: a dropped, added, repeated or moved  *)
(* file gives another root.                                                   *)
RootFixesSet(leaves, others) == root(leaves) = root(others) => leaves = others

(* No path out of another set proves a leaf under this root unless that leaf  *)
(* is in this set.                                                            *)
NoForeignProof(leaves, others) ==
    \A i \in 0..(Len(others) - 1) :
        verify(others[i + 1], proof(others, i), root(leaves))
            => others[i + 1] \in {leaves[j] : j \in 1..Len(leaves)}

(* The commitment to a set of files holds exactly for it and for its members.  *)
CommitmentIsExact(leaves, others) ==
    EveryLeafProves(leaves) /\ RootFixesSet(leaves, others) /\ NoForeignProof(leaves, others)

===============================================================================
