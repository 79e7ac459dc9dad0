SPECIFICATION Spec
CONSTANTS
    Eps = {1, 2}
    MaxRequests = 5
    MaxRestarts = 1
INVARIANTS TypeOK RepliesMatch
PROPERTIES EndpointsOpen
CHECK_DEADLOCK FALSE
