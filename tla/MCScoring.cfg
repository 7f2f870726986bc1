SPECIFICATION Spec
CONSTANTS
    Machine = {"a", "b"}
    TypeOf <- MCTypeOf
    RollingWindow = 2
    Telemetry <- MCTelemetry
    FirstHour = 5
    TrainingFile <- MCTrainingFile
    MaxLog = 2
    Causes <- MCCauses
    Scale = 3
    Grid = {1, 2}
    PerClass <- MCPerClass
    Machines = 2
    Chunk = 1
    Fleet <- MCFleet
    IsRouter = {"r1"}
    Apart = {}
    Score = {40}
    MinGroup = 1
    SuspectShare <- TwoFifths
    QuietShare <- ThreeTwentieths
    StaleShare <- ThreeFifths
    MaxReports = 1
    Hours <- MCHours
    WallHour = {1, 10, 23}
    MaxTicks = 2
    Known = {"cpu"}
    CauseOf <- MCCauseOf
    MaxSecond = 1
    Tab = {t1, t2}
    FleetFile <- MCFleetFile
    RunLength = 2
    Limit = 1
    MaxLogged = 2
    Watched = {1, 2}
    Hour = 2
    MaxPoints = 2
    MaxEpisodes = 1
    Points = 2
    ChartPad = 1
    ReadPad = 2
    MaxHours = 2
    Now = 6
    ReplayFile <- MCReplayFile
    Segment = 2
    Pad = 1
    Slice = 2
    PageSize = 1
    MaxDelay = 1
    MaxSent = 2
    LastTime = 3
CHECK_DEADLOCK FALSE
SYMMETRY TabsAlike
INVARIANTS
    TypeOK
    AsEvaluated
    EpisodesAreWhole
PROPERTIES
    ViewsAgree
    LabelsAreTrue
