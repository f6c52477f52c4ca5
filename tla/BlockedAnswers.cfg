CONSTANTS
    stepA = stepA
    stepB = stepB
    stepC = stepC
    Steps = {stepA, stepB}
    Deps <- Independent
    MaxParallel = 1
    RetryLimit = 0
    MaxAttempts = 1
    MaxControls = 2
    MaxFaults = 0
    Explored = {"answer", "completed", "input"}
SPECIFICATION FairSpec
PROPERTY AnswersDelivered
CHECK_DEADLOCK FALSE
