SPECIFICATION Spec
CONSTANTS
    None = None
    Foreign = Foreign
    MaxDuration = 4
    MaxU32 = 3
    Configs <- AllConfigs
    Starts = {0, 2}
    Delays = {0, 2}
INVARIANTS
    TypeOK
    AccountingCoherent
    OverlayCoherent
    FailureRetained
    ResultCoherent
    ReasonExplained
    DeadlinesCapped
    SessionNeverEarly
PROPERTIES
    AdmissionSafe
    ElapsedMonotonic
    ImplementsContract
