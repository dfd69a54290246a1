\* One file, two workers, every fault: overlapping, retried and crashed runs.
CONSTANTS
    f1 = f1
    f2 = f2
    k1 = k1
    k2 = k2
    Files = {f1}
    Workers = {w1, w2}
    Kind <- EmailKind
    Leads = {k1}
    Basis <- OneBasis
    Faults = {"os_error", "parse_error", "extract_error", "model", "projection", "crash", "broker"}
    MaxRequeues = 2
SYMMETRY Symmetry
SPECIFICATION Spec
INVARIANT TypeOK
INVARIANT EventsOnce
INVARIANT ExtractionDurable
INVARIANT StatusIsEarned
CHECK_DEADLOCK FALSE
