SPECIFICATION Spec
CONSTANTS
    Devices <- MCDevices
    Filter <- MCFilter
    MAX_ATTEMPTS = 5
    MaxSessions = 3
INVARIANTS TypeOK HeldWhenUsed ModelComplete ReadsBack IntervalsConverted
