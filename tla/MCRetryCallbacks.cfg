SPECIFICATION Spec
CONSTANTS
    NObservers = 3
    NRules = 2
    MaxAttempts = 2
    Stopped = Stopped
    None = None
INVARIANTS
    EventsInOrder
    CompletionOnce
    DiagnosticsExact
    FirstRuleDecides
CHECK_DEADLOCK FALSE
