CONSTANTS
    Requirements = {r1}
    Tags = {t1, t2}
    Sessions = {s1}
    SortKeys = {1}
    MaxGeneration = 2
    MaxAttempts = 1
    Outcomes = {"completed", "partial"}
    None = None
    Loops = {l1, l2}
    Caps = {0}
    MaxRevision = 1
    MaxCrashes = 1
    Explored = {"enable", "requeue", "resume", "delete", "panic", "timeout", "retag", "remove", "fault"}
SYMMETRY RunnerSymmetry
SPECIFICATION RunnerSpec
PROPERTY DeleteLeavesNothingRunning VerdictMatchesExecution Spec
