\* Runs one after another, reviewers between them.
SPECIFICATION Spec
CONSTANTS
    Files = {"f1", "f2"}
    Ledgers = {"f1"}
    Workers = {"w1"}
    Reviewers = {"r1"}
    Senders = {"ann", "bob"}
    Readings <- ThreeReadings
    Leads = {"k1"}
    Basis <- SharedBasis
    Faults = {"run", "projection"}
    Overlap = FALSE
    MaxRuns = 3
    MaxRulings = 2
INVARIANTS TypeOK HistoryExplainsRecord OneEventPerRecord SurfacesMatchRecords LedgerTransfersKept
PROPERTIES RuledRowsUnmoved
CHECK_DEADLOCK FALSE
