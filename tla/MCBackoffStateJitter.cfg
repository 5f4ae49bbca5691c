SPECIFICATION Spec
CONSTANTS
    MaxDuration = 63
    One = 16
    Bits = 5
    FloatMax = 4095
    None = None
    MaxIndex = 2
    MaxSteps = 1
    Delays = {43, 63}
    Multipliers = {24}
    Ratios <- JitterRatios
    Hints = {21, 63}
    Limits = {31}
    Samples <- JitterSamples
INVARIANTS
    JitterBounded
    HintHonoured
