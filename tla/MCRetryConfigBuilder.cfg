SPECIFICATION Spec
CONSTANTS
    MaxDuration = 15
    One = 4
    Bits = 3
    FloatMax = 255
    NanosPerSec = 5
    Attempts = {0, 1, 2}
    Budgets <- MCBudgets
    Backoffs <- MCBackoffs
    WireForms <- MCWireForms
    MaxCalls = 3
    None = None
    Error = Error
INVARIANTS
    LastWriterWins
    WireExact
CHECK_DEADLOCK FALSE
