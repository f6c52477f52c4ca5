SPECIFICATION Spec
CONSTANTS
    MaxInputs = 3
    BatchLimit = 2
    MaxWakes = 2
    MaxControls = 3
    Sources = {"composer","robot"}
    Explored = {"replay","remove","reorder","pause","promote","replace","stop","withdraw","clear","block","suspend","effects","restart","error"}
INVARIANT TypeOK HoldsWhatTheUserHeld ComposerOrder PresentationMatchesDispatch ViewIsCurrent EditedInputRunsOnce NoStrandedComposer
PROPERTY SettledIsFinal
CHECK_DEADLOCK FALSE
