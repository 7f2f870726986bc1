SPECIFICATION Spec
CONSTANTS
    Failures = 2
    RefreshAge = 3
    MaxGap = 2
    AlertTTL = 5
INVARIANTS
    TypeOK
    NoLapse
    OutagesTold
PROPERTIES
    OutageFollowed
