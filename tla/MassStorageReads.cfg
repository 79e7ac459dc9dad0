SPECIFICATION Spec
CONSTANTS
    Plugins = {"MassStorage"}
    MaxSource = 1
    MaxSessions = 1
    Modes <- CachingModes
    NumBlocks = 2
INVARIANT ReadsSeeWrites
CHECK_DEADLOCK FALSE
