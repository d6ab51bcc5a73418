SPECIFICATION Spec
CONSTANTS
    t1 = t1
    t2 = t2
    t3 = t3
    t4 = t4
    u1 = u1
    u2 = u2
    Tx = {t1, t2, t3, t4}
    Uid = {u1, u2}
    BatchSizes = {1, 2}
    OutcomePattern <- MCPattern
    LuckyIndices <- MCLucky
    MaxCaptureEvents = 1
    MaxCrashes = 2
    MaxSendFaults = 1
    MaxReconfigs = 1
SYMMETRY Symmetric
\* The bounds let the environment stop offering captures.
CHECK_DEADLOCK FALSE
INVARIANTS
    TypeOK
    NoDoubleSettlement
    UniqueBatchIndex
    NoCaptureLost
    MemoryCoversTopic
PROPERTIES
    BatchesAreExact
    SettledOnce
    OutcomeSticks
    ImplementsLedger
