SPECIFICATION Spec
CONSTANTS
    NumData = 2
    NumInjectors = 0
    NumFilters = 0
    MaxSetConfig = 1
    MaxTerm = 1
    MaxHup = 0
    TermAt <- MCStarted
    HupAt <- MCNowhere
    Untimed = {}
INVARIANTS AllRelayersTold
CHECK_DEADLOCK FALSE
