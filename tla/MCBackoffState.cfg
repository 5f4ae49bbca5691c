SPECIFICATION Spec
CONSTANTS
    MaxDuration = 15
    One = 4
    Bits = 3
    FloatMax = 255
    None = None
    MaxIndex = 5
    MaxSteps = 6
    Delays = {0, 1, 2, 3, 5, 7, 11, 15}
    Multipliers <- GrowthMultipliers
    Ratios = {}
    Hints = {}
    Limits = {}
    Samples <- GrowthSamples
INVARIANTS
    BaseBounded
    GrowthAccurate
PROPERTIES
    NeverShrinks
