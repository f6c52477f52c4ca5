CONSTANTS
    Requirements = {r1}
    Tags = {t1, t2}
    Sessions = {s1}
    SortKeys = {1}
    MaxGeneration = 1
    MaxAttempts = 1
    Outcomes = {"completed"}
    None = None
    Loops = {l1, l2}
    Caps = {1}
    MaxRevision = 2
    MaxCrashes = 1
    Explored = {"enable", "disable", "timeout", "panic", "drop", "config fault"}
SYMMETRY RunnerSymmetry
SPECIFICATION RunnerSpec
INVARIANTS RunnerTypeOK OneWorkerPerTarget RunningMatchesConfig
