SPECIFICATION Spec
CONSTANTS
    t1 = t1
    t2 = t2
    Tx = {t1, t2}
    Candidates <- MCCandidates
    LocalConfidences <- MCLocal
    MaximumAttempts = 1
    MaxVersion = 2
    MaxRestarts = 0
\* The bounds let the environment stop offering candidates.
CHECK_DEADLOCK FALSE
INVARIANTS
    FailsClosed
