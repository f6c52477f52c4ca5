CONSTANTS
    stepA = stepA
    stepB = stepB
    stepC = stepC
    Steps = {stepA, stepB, stepC}
    Deps <- Chain
    MaxParallel = 1
    RetryLimit = 0
    MaxAttempts = 2
    MaxControls = 1
    MaxFaults = 1
    Explored = {"pause", "cancel", "stop", "retry", "answer", "hard", "fatal", "lost", "refuse", "deadline", "lapse", "crash", "suspend", "completed", "input"}
SPECIFICATION Spec
INVARIANT TypeOK OneTurnPerStep ParallelLimit VerdictMatchesTurn TerminalIsQuiet
PROPERTY RefinesTasks
CHECK_DEADLOCK FALSE
