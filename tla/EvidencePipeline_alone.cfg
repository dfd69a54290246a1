\* Two files, one worker, every fault: what the rules see of the whole case.
CONSTANTS
    f1 = f1
    f2 = f2
    k1 = k1
    k2 = k2
    Files = {f1, f2}
    Workers = {w1}
    Kind <- MixedKind
    Leads = {k1, k2}
    Basis <- SharedBasis
    Faults = {"os_error", "parse_error", "extract_error", "model", "projection", "crash", "broker"}
    MaxRequeues = 2
SPECIFICATION Spec
INVARIANT LeadsComplete
INVARIANT PictureStaysOneDocument
CHECK_DEADLOCK FALSE
