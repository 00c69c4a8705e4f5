\* The program is reset.
SPECIFICATION Spec
CONSTANTS
    Fresh = 1
    StartGap = 1
    RestartGap = 0
    Finished = 0
    Situations = {"reset"}
    MaxTime = 3
    MaxActs = 1
    MaxMishaps = 1
INVARIANT
    InnocentNotAccused
CHECK_DEADLOCK FALSE
