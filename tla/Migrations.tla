------------------------------- MODULE Migrations -------------------------------
(* migrations/versions/ and models/entities.py: what each of the 23 revisions of   *)
(* the database creates and adds, and what the models declare. SchemaHistory walks *)
(* them.                                                                          *)
EXTENDS Naturals, Sequences, TLC

Nothing == [x \in {} |-> 0]
Blank == [creates |-> Nothing, adds |-> Nothing, unique |-> {}, types |-> Nothing, checks |-> FALSE,
          labels |-> Nothing, needs |-> {}]

(* The first revision: people and cases; what is read from the files; what is     *)
(* derived from it.                                                               *)
PeopleAndCases ==
    [Blank EXCEPT
        !.creates = [users |-> 8, cases |-> 15, verification_codes |-> 7, audit_logs |-> 10, case_memberships |-> 5,
                     evidence_files |-> 17],
        !.unique = {"users/email", "cases/case_number", "case_memberships/case_id,user_id",
                    "evidence_files/case_id,sha256,version", "evidence_files/storage_key", "evidence_files/stored_name"},
        !.types = [role |-> 4, account_status |-> 3, case_status |-> 4, priority |-> 4, case_role |-> 4,
                   evidence_status |-> 13]]
ReportsAndEvents ==
    [Blank EXCEPT
        !.creates = [reports |-> 11, review_decisions |-> 8, events |-> 15, extracted_text |-> 8],
        !.unique = {"reports/case_id,version", "reports/storage_key", "extracted_text/evidence_id,pipeline_version"},
        !.types = [report_state |-> 5, review_decision_status |-> 5, event_review_status |-> 5]]
RunsAndFindings ==
    [Blank EXCEPT
        !.creates = [processing_runs |-> 13, alerts |-> 11, entities |-> 12, transactions |-> 14, event_entities |-> 5],
        !.unique = {"processing_runs/evidence_id,pipeline_stage,pipeline_version", "alerts/idempotency_key",
                    "event_entities/event_id,entity_id,relationship_type"},
        !.types = [processing_state |-> 5, alert_severity |-> 4, alert_status |-> 4, entity_review_status |-> 5,
                   transaction_review_status |-> 5]]
InitialSchema ==
    [Blank EXCEPT
        !.creates = PeopleAndCases.creates @@ ReportsAndEvents.creates @@ RunsAndFindings.creates,
        !.unique = PeopleAndCases.unique \cup ReportsAndEvents.unique \cup RunsAndFindings.unique,
        !.types = PeopleAndCases.types @@ ReportsAndEvents.types @@ RunsAndFindings.types]

SessionRevocation ==
    [Blank EXCEPT !.creates = [revoked_tokens |-> 5], !.unique = {"revoked_tokens/token_id"}, !.needs = {"users"}]
TrustifyReceipts ==
    [Blank EXCEPT !.creates = [trustify_receipts |-> 11], !.adds = [audit_logs |-> 2],
                  !.unique = {"trustify_receipts/report_id", "trustify_receipts/verification_id"},
                  !.needs = {"cases", "reports"}]
ClaimsAndContradictions ==
    [Blank EXCEPT !.creates = [claims |-> 9, claim_source_links |-> 7, contradictions |-> 8,
                               contradiction_source_links |-> 7],
                  !.unique = {"claim_source_links/claim_id,source_type,source_id,relationship",
                              "contradiction_source_links/contradiction_id,source_type,source_id,relationship"},
                  !.types = [claim_status |-> 5, source_relationship |-> 3, contradiction_status |-> 3],
                  !.checks = TRUE, !.needs = {"cases", "users"}]
InAppNotifications ==
    [Blank EXCEPT !.creates = [notification_preferences |-> 6, notifications |-> 9],
                  !.unique = {"notification_preferences/user_id,category"},
                  !.types = [notification_level |-> 3], !.checks = TRUE, !.needs = {"cases", "users"}]
CrossCaseIndexes == [Blank EXCEPT !.needs = {"entities", "evidence_files", "transactions"}]
IdentityProvider ==
    [Blank EXCEPT !.adds = [users |-> 3, verification_codes |-> 1], !.unique = {"users/google_subject"}]
AccountSettings ==
    [Blank EXCEPT !.creates = [account_settings |-> 11, account_sessions |-> 8],
                  !.unique = {"account_settings/user_id", "account_sessions/token_id"}, !.needs = {"users"}]
CaseDescription == [Blank EXCEPT !.adds = [cases |-> 1]]

(* Labels added to a type stay when the revision is taken back.                   *)
GroundedIntelligence ==
    [Blank EXCEPT !.creates = [raw_extraction_artifacts |-> 10, model_inference_runs |-> 16, normalized_records |-> 45,
                               record_relations |-> 17, record_reviews |-> 12],
                  !.unique = {"raw_extraction_artifacts/evidence_id,artifact_version,layer",
                              "model_inference_runs/evidence_id,record_key,cache_key",
                              "normalized_records/evidence_id,record_key,raw_extraction_version",
                              "record_relations/idempotency_key"},
                  !.labels = [evidence_status |-> 22], !.needs = {"cases", "evidence_files", "users"}]
EntityOccurrences ==
    [Blank EXCEPT !.creates = [entity_occurrences |-> 11],
                  !.unique = {"entity_occurrences/entity_id,evidence_id,field_name"},
                  !.needs = {"cases", "entities", "evidence_files", "normalized_records"}]
AmountRole == [Blank EXCEPT !.adds = [normalized_records |-> 1]]
NetworkClasses == [Blank EXCEPT !.adds = [normalized_records |-> 4]]
EntityRelations ==
    [Blank EXCEPT !.creates = [entity_relations |-> 20], !.unique = {"entity_relations/idempotency_key"},
                  !.needs = {"cases", "entities", "evidence_files", "normalized_records", "users"}]
ReportProfile == [Blank EXCEPT !.adds = [reports |-> 1]]
StatedRole == [Blank EXCEPT !.adds = [normalized_records |-> 1, entity_occurrences |-> 1]]
AlertSequence == [Blank EXCEPT !.adds = [alerts |-> 1]]
ReportFindings == [Blank EXCEPT !.adds = [reports |-> 1]]
SharedLedgerTable ==
    [Blank EXCEPT !.creates = [ledger_entries |-> 9], !.unique = {"ledger_entries/identifier_digest,case_reference"},
                  !.needs = {"cases", "users"}]
MerkleRoot == [Blank EXCEPT !.adds = [trustify_receipts |-> 2]]
CaseNotes == [Blank EXCEPT !.creates = [case_notes |-> 9], !.needs = {"cases", "users"}]
CaseVisits ==
    [Blank EXCEPT !.creates = [case_visits |-> 4], !.unique = {"case_visits/case_id,user_id"},
                  !.needs = {"cases", "users"}]
PriorRecords ==
    [Blank EXCEPT !.creates = [prior_records |-> 13],
                  !.unique = {"prior_records/record_reference,identifier_type,identifier_value"}]

(* Each names the one before it as down_revision.                                 *)
Scripts ==
    <<InitialSchema, SessionRevocation, TrustifyReceipts, ClaimsAndContradictions, InAppNotifications,
      CrossCaseIndexes, IdentityProvider, AccountSettings, CaseDescription, GroundedIntelligence,
      EntityOccurrences, AmountRole, NetworkClasses, EntityRelations, ReportProfile, StatedRole,
      AlertSequence, ReportFindings, SharedLedgerTable, MerkleRoot, CaseNotes, CaseVisits, PriorRecords>>
-------------------------------------------------------------------------------
(* models/entities.py.                                                            *)
DeclaredPeople == [users |-> 11, verification_codes |-> 8, revoked_tokens |-> 5, account_settings |-> 11,
                   account_sessions |-> 8, cases |-> 16, case_memberships |-> 5]
DeclaredEvidence == [evidence_files |-> 17, extracted_text |-> 8, entities |-> 12, events |-> 15,
                     event_entities |-> 5, transactions |-> 14, alerts |-> 12]
DeclaredDesk == [case_visits |-> 4, case_notes |-> 9, prior_records |-> 13, ledger_entries |-> 9,
                 review_decisions |-> 8, processing_runs |-> 13]
DeclaredCustody == [reports |-> 13, trustify_receipts |-> 13, audit_logs |-> 12, claims |-> 9,
                    claim_source_links |-> 7, contradictions |-> 8, contradiction_source_links |-> 7,
                    notification_preferences |-> 6, notifications |-> 9]
DeclaredGrounded == [raw_extraction_artifacts |-> 10, model_inference_runs |-> 16, normalized_records |-> 51,
                     record_relations |-> 17, entity_occurrences |-> 12, entity_relations |-> 20,
                     record_reviews |-> 12]
DeclaredUnique ==
    {"users/email", "users/google_subject", "revoked_tokens/token_id", "account_settings/user_id",
     "account_sessions/token_id", "cases/case_number", "case_memberships/case_id,user_id",
     "evidence_files/stored_name", "evidence_files/storage_key", "evidence_files/case_id,sha256,version",
     "extracted_text/evidence_id,pipeline_version", "event_entities/event_id,entity_id,relationship_type",
     "alerts/idempotency_key", "case_visits/case_id,user_id",
     "prior_records/record_reference,identifier_type,identifier_value",
     "ledger_entries/identifier_digest,case_reference",
     "processing_runs/evidence_id,pipeline_stage,pipeline_version", "reports/storage_key",
     "reports/case_id,version", "trustify_receipts/report_id", "trustify_receipts/verification_id",
     "claim_source_links/claim_id,source_type,source_id,relationship",
     "contradiction_source_links/contradiction_id,source_type,source_id,relationship",
     "notification_preferences/user_id,category", "raw_extraction_artifacts/evidence_id,artifact_version,layer",
     "model_inference_runs/evidence_id,record_key,cache_key",
     "normalized_records/evidence_id,record_key,raw_extraction_version", "record_relations/idempotency_key",
     "entity_occurrences/entity_id,evidence_id,field_name", "entity_relations/idempotency_key"}
DeclaredTypes ==
    [role |-> 4, account_status |-> 3, case_status |-> 4, priority |-> 4, case_role |-> 4, evidence_status |-> 22,
     report_state |-> 5, review_decision_status |-> 5, event_review_status |-> 5, processing_state |-> 5,
     alert_severity |-> 4, alert_status |-> 4, entity_review_status |-> 5, transaction_review_status |-> 5,
     claim_status |-> 5, source_relationship |-> 3, contradiction_status |-> 3, notification_level |-> 3]
Entities ==
    [columns |-> DeclaredPeople @@ DeclaredEvidence @@ DeclaredDesk @@ DeclaredCustody @@ DeclaredGrounded,
     unique |-> DeclaredUnique, types |-> DeclaredTypes]

================================================================================
