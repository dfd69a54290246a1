-------------------------- MODULE MCEvidencePipeline --------------------------
(* Instances of EvidencePipeline for TLC: what the files hold and which of     *)
(* them raise a lead. Workers are symmetric; files are not.                    *)
EXTENDS EvidencePipeline, TLC

CONSTANTS f1, f2, k1, k2

\* A bank statement and a screenshot. One lead rests on either file alone (a
\* recipient both name), the other needs both.
MixedKind == f1 :> "bank_transaction" @@ f2 :> OCR_RECORD_TYPE
EmailKind == f1 :> "phishing_email"
SharedBasis == k1 :> {{f1}, {f2}} @@ k2 :> {{f1, f2}}
OneBasis == k1 :> {{f1}}

Symmetry == Permutations(Workers)

===============================================================================
