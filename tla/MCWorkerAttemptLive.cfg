SPECIFICATION FairSpec
CONSTANTS
    Attempts = 2
    Graces = {"zero", "finite"}
    None = None
PROPERTIES
    CancellationEnds
    TimerEnds
    ResultEnds
