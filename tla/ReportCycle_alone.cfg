\* One process that reports, sniffs, may die during a report and starts again.
SPECIFICATION FairSpec
CONSTANTS
    Reporters = {p1}
    Requests = {clean, bad}
    Flagged = {bad}
    Incidents = {b1}
    Frequency = 2
    Finished = 1
    ImprovementData = TRUE
    Situations = {"crash"}
    Unreliable = {"mail", "request"}
    None = None
    MaxTime = 2
    MaxReports = 2
INVARIANTS
    TypeOK
    OnlyIncludedDeleted
    WarningsLeadHome
    MailAccusesFlagged
    ScheduledOncePerPeriod
PROPERTIES
    CycleEnds
    ImplementsDelivery
CHECK_DEADLOCK FALSE
