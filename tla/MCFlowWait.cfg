SPECIFICATION WaitFairSpec
CONSTANTS
    Futures = {f1}
    Wakers = {w1, w2}
    Cancellers = {c1, c2}
    IdCount = 2
    WakersMayPanic = FALSE
    MaxWaits = 2
    None = None
INVARIANTS
    NoMissedWakeup
    OutcomeOrder
    NothingLeftRegistered
PROPERTIES
    WaitEnds
CHECK_DEADLOCK FALSE
