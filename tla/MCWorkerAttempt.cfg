SPECIFICATION Spec
CONSTANTS
    Attempts = 2
    Graces = {"zero", "finite", "unbounded"}
    None = None
INVARIANTS
    ExclusiveWorker
    GateHolds
    ValueFresh
    ChannelStaysOpen
