SPECIFICATION Spec
CONSTANTS
    Page = {a, b}
    MaxRun = 3
    Process = {panel, replay}
    Thread = {t1, t2}
    MaxLines = 3
    KeepLines = 2
    MaxLabel = 7
    Handler = {h1, h2}
    MaxSilence = 3
    Unit = {agent}
    Container = {grafana}
    Agent = agent
    KeepActions = 1
    MaxAction = 3
    MaxDeath = 1
    Scenario <- MCScenario
    MaxRow = 2
    MaxWork = 3
    Other = {"registry"}
    MaxEvent = 3
CHECK_DEADLOCK FALSE
INVARIANTS
    TypeOK
    TrainingsInOrder
    NoLabelLost
    UnmuteLifts
    ServicesAsAsked
    NetworkInOrder
PROPERTIES
    OthersKept
    TrainingsEnd
