SPECIFICATION Spec
CONSTANTS
    r1 = r1
    r2 = r2
    Replica <- MCReplica
    Machine = {m1}
    Handler = {h1, h2}
    Cause = {"cpu_spike"}
    NetOnly = "net_only"
    MaxReadings <- MCMaxReadings
INVARIANTS
    TypeOK
    OneCause
    CauseWhileAnomalous
PROPERTY Settles
