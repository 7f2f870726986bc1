SPECIFICATION AgentSpec
CONSTANTS
    Rows = 8
    Window = 3
CHECK_DEADLOCK FALSE
INVARIANTS
    AgentTypeOK
    GenuineHistory
    HistoryGiven
PROPERTY KeepsReporting
