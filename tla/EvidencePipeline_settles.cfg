\* Two workers on one file, every fault but a crash and a lost task.
CONSTANTS
    f1 = f1
    f2 = f2
    k1 = k1
    k2 = k2
    Files = {f1}
    Workers = {w1, w2}
    Kind <- EmailKind
    Leads = {k1}
    Basis <- OneBasis
    Faults = {"os_error", "extract_error", "model", "projection"}
    MaxRequeues = 1
SPECIFICATION FairSpec
PROPERTY EveryFileSettles
CHECK_DEADLOCK FALSE
