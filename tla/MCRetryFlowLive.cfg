SPECIFICATION FairSpec
CONSTANTS
    None = None
    Foreign = Foreign
    MaxDuration = 2
    MaxU32 = 3
    Configs <- LiveConfigs
    Starts = {0}
    Delays = {0, 1}
PROPERTIES
    Terminates
