SPECIFICATION FairSpec
CONSTANTS
    Futures = {f1, f2}
    Wakers = {w1, w2}
    Cancellers = {c1, c2}
    IdCount = 2
    WakersMayPanic = TRUE
    None = None
INVARIANTS
    RegistryExact
PROPERTIES
    ImplementsLatch
CHECK_DEADLOCK FALSE
