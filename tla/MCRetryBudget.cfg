SPECIFICATION Spec
CONSTANTS
    None = None
    Foreign = Foreign
    Lost = Lost
    MaxDuration = 3
    MaxU32 = 2
    Budgets = {b1, b2}
    Attempts = {t1, t2}
    Owners = {o1, o2, o3}
    Policies <- TwoPolicies
    Delays = {0, 1}
SYMMETRY Symmetry
INVARIANTS
    TokenExact
    DelayKept
PROPERTIES
    LostCloses
