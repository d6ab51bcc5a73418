SPECIFICATION FairSpec
CONSTANTS
    t1 = t1
    t2 = t2
    t3 = t3
    t4 = t4
    u1 = u1
    u2 = u2
    Tx = {t1, t2}
    Uid = {u1, u2}
    BatchSizes = {1}
    OutcomePattern <- MCPattern
    LuckyIndices <- MCLucky
    MaxCaptureEvents = 2
    MaxCrashes = 1
    MaxSendFaults = 0
    MaxReconfigs = 0
\* The bounds let the environment stop offering captures.
CHECK_DEADLOCK FALSE
PROPERTIES
    UnfinishedBatchesResume
    BacklogDrains
