SPECIFICATION CooperativeSpec
CONSTANTS
    Attempts = 2
    Graces = {"finite", "unbounded"}
    None = None
PROPERTIES
    CooperativeEnds
