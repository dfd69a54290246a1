\* Reports sealed and proved, identifiers published and withdrawn.
CONSTANTS
    f1 = f1
    h1 = h1
    h2 = h2
    k1 = k1
    k2 = k2
    e1 = e1
    e2 = e2
    e3 = e3
    i1 = i1
    i2 = i2
    Held <- HeldFirst
    Files = {h1, h2, f1}
    Clients = {c1, c2}
    Workers = {w1}
    MaxRetries = 2
    MaxReports = 2
    MaxReviews = 2
    MaxRenders = 3
    Cases = {k1, k2}
    Entities = {e1, e2, e3}
    InEvidence <- Evidence
    Identities = {i1, i2}
    Canonical <- Spelled
    Unmatchable = Unmatchable
    Publishers = {p1, p2}
    NoHash = 0
    MaxRows = 3
SPECIFICATION MCSpec
INVARIANTS SealsHold ProofsTellMembership 
PROPERTIES SuccessIsFinal TheReportSettles ImplementsNoticeBoard
CHECK_DEADLOCK FALSE
