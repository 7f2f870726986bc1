SPECIFICATION Spec
CONSTANTS
    p1 = p1
    p2 = p2
    t1 = t1
    t2 = t2
    t3 = t3
    Pod = {p1, p2}
    Thread = {t1, t2, t3}
    PodOf <- TwoPods
    Id = {i1}
    Retry = 1
    MaxJudgements = 2
INVARIANTS
    TypeOK
    OwnVerdict
PROPERTIES
    KeepsPromises
    RecoversByItself
