SPECIFICATION Spec
CONSTANT MaxBuild = 3
INVARIANTS
    TypeOK
    LatestWasServed
PROPERTIES
    FailedBuildPutsBack
    OverrideStaysGone
