SPECIFICATION Spec
CONSTANTS
    Partition <- MCPartition
    Scenarios <- Traced
    PollSize = 2
    Limits = {0}
    PageSize = 1
    TrailSize = 1
    ViewSize = 1
    Attempts = 2
    MaxCrashes = 0
    MaxErrors = 0
\* The services publish no more than the script.
CHECK_DEADLOCK FALSE
INVARIANTS
    TraceKeepsSources
