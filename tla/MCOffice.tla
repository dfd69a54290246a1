-------------------------------- MODULE MCOffice --------------------------------
(* AccountSessions, MailSender, EvidenceIntake and CaseDesk for TLC. They share   *)
(* no state: a behaviour plays one scene, and what is not on stage stays as it    *)
(* starts.                                                                        *)
EXTENDS AccountSessions, MailSender, EvidenceIntake, CaseDesk

CONSTANTS ann, bob, u1, u2, u3, r1, r2

VARIABLE scene

vars == <<scene, accountVars, mailVars, intakeVars, deskVars>>

\* u1 and u2 are served by one API process, u3 by another.
Served == [u \in {u1, u2, u3} |-> IF u = u3 THEN "q" ELSE "p"]
Routes == [process |-> "evidence_parse", reanalyze |-> "celery"]
Queues == {"evidence_fast", "evidence_ocr", "evidence_parse", "evidence_enrich", "reports"}

Scenes == {"signing in", "signed in", "settings", "mail", "one process", "two processes", "desk"}

(* Who is on stage in an intake scene, and what they bring.                       *)
Cast == CASE scene = "one process" -> {u1, u2} [] scene = "two processes" -> {u1, u3} [] OTHER -> {}
Brought == CASE scene = "one process" -> {"x", "y"} [] scene = "two processes" -> {"x", "z"} [] OTHER -> {"x"}

MCInit ==
    /\ scene \in Scenes
    /\ AccountInit
    /\ MailInit
    /\ IntakeInit
    /\ DeskInit
    /\ \A u \in Uploads : upload[u].content \in IF u \in Cast THEN Brought ELSE {"x"}

SigningIn ==
    /\ scene = "signing in"
    /\ AccountNext
    /\ request'[r2] = Idle /\ Len(sessions') <= 1 /\ writes' = 0
SignedIn ==
    /\ scene = "signed in"
    /\ AccountNext
    /\ Len(codes') <= 1 /\ writes' = 0 /\ \A k \in 1..Len(codes') : codes'[k].guessed <= 1
Saving ==
    /\ scene = "settings"
    /\ AccountNext
    /\ Len(codes') <= 1 /\ Len(sessions') <= 1 /\ \A k \in 1..Len(codes') : codes'[k].guessed = 0
Intake ==
    /\ scene \in {"one process", "two processes"}
    /\ IntakeNext
    /\ \A u \in Uploads \ Cast : At(u, "receiving")'

MCNext ==
    /\ UNCHANGED scene
    /\ \/ (SigningIn \/ SignedIn \/ Saving) /\ UNCHANGED <<mailVars, intakeVars, deskVars>>
       \/ scene = "mail" /\ MailNext /\ UNCHANGED <<accountVars, intakeVars, deskVars>>
       \/ Intake /\ UNCHANGED <<accountVars, mailVars, deskVars>>
       \/ scene = "desk" /\ DeskNext /\ UNCHANGED <<accountVars, mailVars, intakeVars>>

(* The event loop goes on with a coroutine that can run; a worker keeps taking    *)
(* messages from the queues it consumes.                                          *)
Alone == scene = "one process" /\ UNCHANGED <<scene, accountVars, mailVars, deskVars>>
Fairness ==
    \A u \in {u1, u2} :
        /\ WF_vars(Upload(u) /\ Alone)
        /\ WF_vars(Take(<<"process", u>>) /\ Alone)

MCSpec == MCInit /\ [][MCNext]_vars /\ Fairness

-------------------------------------------------------------------------------
(* EvidenceIsTaken, in the scene that has fairness.                               *)
TheEvidenceIsTaken == scene = "one process" => EvidenceIsTaken

================================================================================
