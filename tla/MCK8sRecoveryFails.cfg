SPECIFICATION Spec
CONSTANTS
    Row = {p1, p2}
    Run = {x}
    Inode = {i1, i2, i3}
INVARIANT SurvivesFailures
