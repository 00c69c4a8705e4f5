\* A section of the report is given up.
SPECIFICATION Spec
CONSTANTS
    Reporters = {p1}
    Requests = {bad}
    Flagged = {bad}
    Incidents = {b1}
    Frequency = 1
    Finished = 0
    ImprovementData = FALSE
    Situations = {"lockout"}
    Unreliable = {}
    None = None
    MaxTime = 1
    MaxReports = 1
INVARIANT
    OnlyIncludedDeleted
CHECK_DEADLOCK FALSE
