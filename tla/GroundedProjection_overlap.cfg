\* Two runs at once, reviewers at any time.
SPECIFICATION Spec
CONSTANTS
    Files = {"f1", "f2"}
    Ledgers = {"f1"}
    Workers = {w1, w2}
    Reviewers = {r1, r2}
    Senders = {"ann", "bob"}
    Readings <- TwoReadings
    Leads = {}
    Basis <- NoBasis
    Faults = {"run", "projection"}
    Overlap = TRUE
    MaxRuns = 2
    MaxRulings = 2
SYMMETRY Exchangeable
INVARIANTS StateFollowsHistory
PROPERTIES RecordsStayOnTimeline
CHECK_DEADLOCK FALSE
