CONSTANTS
    stepA = stepA
    stepB = stepB
    stepC = stepC
    Steps = {stepA, stepB}
    Deps <- Chain
    MaxParallel = 2
    RetryLimit = 1
    MaxAttempts = 2
    MaxControls = 2
    MaxFaults = 1
    Explored = {"pause", "stop", "answer", "fatal", "lost", "deadline", "lapse", "crash", "suspend", "cancelled", "completed", "failed", "input"}
SPECIFICATION FairSpec
INVARIANT StepMatchesAttempt AlwaysSchedulable
PROPERTY ExecutionSettles AnswersDelivered
CHECK_DEADLOCK FALSE
