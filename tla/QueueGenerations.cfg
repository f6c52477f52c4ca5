CONSTANTS
    Requirements = {r1}
    Tags = {t1}
    Sessions = {s1, s2}
    SortKeys = {1}
    MaxGeneration = 3
    MaxAttempts = 1
    Outcomes = {"failed"}
    None = None
SPECIFICATION Spec
SYMMETRY QueueSymmetry
INVARIANTS TypeOK AtMostOneRunPerQueueing AbandonedClaimNeverRuns AttemptBudget ClaimLedger
PROPERTY UpdatesPassTriggers
