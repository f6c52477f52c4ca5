CONSTANTS
    Requirements = {r1, r2}
    Tags = {t1}
    Sessions = {s1}
    SortKeys = {1}
    MaxGeneration = 1
    MaxAttempts = 1
    Outcomes = {"failed"}
    None = None
    Loops = {l1, l2}
    Caps = {0}
    MaxRevision = 1
    MaxCrashes = 0
    Explored = {"enable", "stop", "panic", "declare"}
SPECIFICATION FairRunnerSpec
PROPERTY KeepsClaiming
