SPECIFICATION FairSpec
CONSTANTS
    Null = Null
    MaxRequests = 2
    MaxSessions = 2
    NumFilters = 1
    QUEUE_MAX = 1
INVARIANTS TypeOK SingleInFlight AnswerFaithful ConfiguredInTime
PROPERTIES PairedInCleanSession ExecutedInOrder StopCompletes AnsweredOrDropped
