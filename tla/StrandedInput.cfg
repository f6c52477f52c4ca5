SPECIFICATION Spec
CONSTANTS
    MaxInputs = 3
    BatchLimit = 2
    MaxWakes = 2
    MaxControls = 1
    Sources = {"composer", "channel"}
    Explored = {"stop"}
INVARIANT NoStrandedInput
CHECK_DEADLOCK FALSE
