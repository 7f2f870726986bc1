SPECIFICATION Spec
CONSTANTS
    File = {classifier, safety_net}
    Threshold = {1, 2}
    Fallback = 1
    MaxScore = 1
    MinF1 = 1
    F1Drop = 0
    RecallDrop = 0
    Shell = {s1}
    MaxModel = 2
    MaxCommit = 2
INVARIANTS
    TypeOK
    ServesWhatWasEvaluated
    ServedWasApproved
PROPERTY ComparedWithReplaced
SYMMETRY Symmetry
