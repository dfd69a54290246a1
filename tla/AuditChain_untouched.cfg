\* Nobody touches the log; two sessions record actions against one case.
CONSTANTS
    Sessions = {s1, s2}
    Cases = {c1}
    Contents = {x}
    Legacy = {}
    Tampering = {}
    MaxStamps = 3
    None = None
SPECIFICATION Spec
INVARIANT UntouchedChainVerifies
CHECK_DEADLOCK FALSE
