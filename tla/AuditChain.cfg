\* Two sessions, two cases, one with an older row; rows altered and lost.
CONSTANTS
    Sessions = {s1, s2}
    Cases = {c1, c2}
    Contents = {x}
    Legacy = {c2}
    Tampering = {"alter", "lose"}
    MaxStamps = 3
    None = None
SYMMETRY Symmetry
SPECIFICATION Spec
INVARIANT TypeOK
INVARIANT SerialChainVerifies
INVARIANT FaultNamesAlteredEntry
INVARIANT IntactMeansGapless
PROPERTY BrokenStaysBroken
CHECK_DEADLOCK FALSE
