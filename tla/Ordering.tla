-------------------------------- MODULE Ordering --------------------------------
(* sorted and ORDER BY with a key that tells any two rows apart: the member at a  *)
(* place has that many members before it.                                         *)
EXTENDS Naturals, Sequences, FiniteSets

InOrder(S, before(_, _)) ==
    LET rank == [x \in S |-> Cardinality({y \in S : before(y, x)})]
    IN  [i \in 1..Cardinality(S) |-> CHOOSE x \in S : rank[x] = i - 1]

=================================================================================
