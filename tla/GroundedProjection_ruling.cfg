\* One run, a reviewer ruling while its models are still reading.
SPECIFICATION Spec
CONSTANTS
    Files = {"f1", "f2"}
    Ledgers = {"f1"}
    Workers = {"w1"}
    Reviewers = {"r1"}
    Senders = {"ann", "bob"}
    Readings <- ThreeReadings
    Leads = {}
    Basis <- NoBasis
    Faults = {}
    Overlap = TRUE
    MaxRuns = 2
    MaxRulings = 1
INVARIANTS HistoryExplainsRecord
CHECK_DEADLOCK FALSE
