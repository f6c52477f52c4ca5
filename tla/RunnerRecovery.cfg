CONSTANTS
    Requirements = {r1}
    Tags = {t1}
    Sessions = {s1}
    SortKeys = {1}
    MaxGeneration = 1
    MaxAttempts = 1
    Outcomes = {"completed", "failed"}
    None = None
    Loops = {l1, l2}
    Caps = {1}
    MaxRevision = 2
    MaxCrashes = 1
    Explored = {"drop", "enable", "disable", "stop"}
SPECIFICATION FairRunnerSpec
PROPERTIES CleanupCompletes ClaimNeverStuck StoppedExecutionEnds
