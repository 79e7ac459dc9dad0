SPECIFICATION FairSpec
CONSTANTS
    NumData = 2
    NumInjectors = 1
    NumFilters = 1
    MaxSetConfig = 1
    MaxTerm = 2
    MaxHup = 2
    TermAt <- MCAnywhere
    HupAt <- MCPolling
    Untimed = {3}
INVARIANTS TypeOK IdleMeansStopped RelayingMeansRelaying ThreadsOutlivedByProxies ToldBeforeJoin NeverTerminated
CHECK_DEADLOCK FALSE
PROPERTIES StopCompletes TermEnds
