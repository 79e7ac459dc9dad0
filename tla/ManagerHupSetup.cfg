SPECIFICATION Spec
CONSTANTS
    NumData = 0
    NumInjectors = 0
    NumFilters = 0
    MaxSetConfig = 0
    MaxTerm = 0
    MaxHup = 1
    TermAt <- MCNowhere
    HupAt <- MCSettingUp
    Untimed = {}
INVARIANTS NeverTerminated
CHECK_DEADLOCK FALSE
