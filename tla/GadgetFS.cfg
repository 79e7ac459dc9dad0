SPECIFICATION Spec
CONSTANTS
    Layouts <- MCLayouts
    MaxTransfers = 2
    MaxPackets = 2
    MaxSessions = 2
    MaxFaults = 2
INVARIANTS TypeOK SentOnce AnswersFaithful FilesAccountedFor
CHECK_DEADLOCK FALSE
