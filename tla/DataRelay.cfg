SPECIFICATION FairSpec
CONSTANTS
    MaxPackets = 4
    NumFilters = 1
    QUEUE_MAX = 2
INVARIANTS TypeOK NothingVanishes OneSendAtATime
PROPERTIES ImplementsPipe StopCompletes QueueDrains
