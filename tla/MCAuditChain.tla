----------------------------- MODULE MCAuditChain -----------------------------
(* Instances of AuditChain for TLC. Cases, sessions and contents are used     *)
(* only through equality, so they are symmetric sets of model values.         *)
EXTENDS AuditChain, TLC

Symmetry ==
    Permutations(Sessions) \cup Permutations(Contents)

===============================================================================
