SPECIFICATION Spec
CONSTANTS
    Null = Null
    MaxRequests = 2
    MaxSessions = 2
    NumFilters = 0
    QUEUE_MAX = 3
INVARIANT AnswersArePaired
