SPECIFICATION Spec
CONSTANTS
    Plugins = {"UDP", "MassStorage"}
    MaxSource = 2
    MaxSessions = 3
    Modes <- AllModes
    NumBlocks = 2
INVARIANTS CacheCoherent InjectorServes
CHECK_DEADLOCK FALSE
