\* Whatever the user does, and up to one kind of mishap.
SPECIFICATION FairSpec
CONSTANTS
    Fresh = 1
    StartGap = 1
    RestartGap = 0
    Finished = 1
    Situations = {"user", "crash", "slow", "reset", "locked", "lockout", "unset"}
    MaxTime = 5
    MaxActs = 1
    MaxMishaps = 1
INVARIANTS
    TypeOK
    HistoryIsTrue
    NoFalseAccusation
    AccusedOnce
    EveryOutageReported
    SessionIsOpen
PROPERTY
    StartEnds
CHECK_DEADLOCK FALSE
