CONSTANTS
    stepA = stepA
    stepB = stepB
    stepC = stepC
    Steps = {stepA, stepB, stepC}
    Deps <- Independent
    MaxParallel = 4
    RetryLimit = 0
    MaxAttempts = 2
    MaxControls = 0
    MaxFaults = 1
    Explored = {"crash", "completed"}
SPECIFICATION Spec
INVARIANT OneActiveAttempt
CHECK_DEADLOCK FALSE
