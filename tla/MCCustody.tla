------------------------------- MODULE MCCustody -------------------------------
(* ReportSealing and SharedLedger for TLC. They share no state, so a behaviour  *)
(* plays one scene and leaves the other component as it starts: two reports     *)
(* without reviews, one report with reviews and every retry, or the ledger.     *)
EXTENDS ReportSealing, SharedLedger

CONSTANTS f1, h1, h2, k1, k2, e1, e2, e3, i1, i2

VARIABLE scene

vars == <<scene, reportVars, ledgerVars>>

HeldFirst == <<h1, h2>>
Evidence == k1 :> {e1, e2, e3} @@ k2 :> {e1}
Spelled == e1 :> i1 @@ e2 :> i1 @@ e3 :> i2

Scenes == {"two reports", "one report", "ledger"}

MCInit ==
    /\ scene \in Scenes
    /\ Init
    /\ LedgerInit
    /\ scene = "ledger" => ~remote
    /\ scene # "ledger" => ~gate

TwoReports ==
    /\ scene = "two reports"
    /\ Next
    /\ reviews' = 0 /\ renders' <= 2 /\ \A task \in queue' : task.retries <= 1
OneReport == scene = "one report" /\ Next /\ \A c \in Clients : request'[c].version <= 1

MCNext ==
    /\ UNCHANGED scene
    /\ \/ (TwoReports \/ OneReport) /\ UNCHANGED ledgerVars
       \/ scene = "ledger" /\ LedgerNext /\ UNCHANGED reportVars

(* ReportSealing's Fairness, in the scene that follows a report to its end.     *)
Alone == scene = "one report" /\ UNCHANGED <<scene, ledgerVars>>
MCFairness ==
    /\ \A w \in Workers : WF_vars(Generate(w) /\ Alone)
    /\ \A c \in Clients : WF_vars(Answer(c) /\ Alone)

MCSpec == MCInit /\ [][MCNext]_vars /\ MCFairness

-------------------------------------------------------------------------------
(* EveryReportSettles, in that scene: the other has no fairness.                *)
TheReportSettles == scene = "one report" => EveryReportSettles

===============================================================================
