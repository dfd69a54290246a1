------------------------- MODULE MCGroundedProjection -------------------------
(* Values of GroundedProjection's constants for TLC. *)
EXTENDS GroundedProjection

\* A name and a transfer, the same without the name, and a balance.
ThreeReadings ==
    {[sender |-> "ann", figure |-> "transfer"], [sender |-> Null, figure |-> "transfer"],
     [sender |-> "ann", figure |-> "balance"]}

NoBasis == <<>>

TwoReadings ==
    {[sender |-> "ann", figure |-> "transfer"], [sender |-> "ann", figure |-> "balance"]}

\* A lead both records support together.
SharedBasis == [k \in Leads |-> {Files}]

\* Sessions are interchangeable, and reviewers are.
Exchangeable == Permutations(Workers) \cup Permutations(Reviewers)

===============================================================================
