SPECIFICATION Spec
CONSTANTS
    Row = {p1, p2, p3}
    Run = {x}
    Inode = {i1, i2, i3}
INVARIANTS
    TypeOK
    VerdictsKept
PROPERTIES
    GoodBackupKept
