\* Two processes, and everything that can go wrong.
SPECIFICATION Spec
CONSTANTS
    Reporters = {p1, p2}
    Requests = {bad}
    Flagged = {bad}
    Incidents = {}
    Frequency = 1
    Finished = 0
    ImprovementData = TRUE
    Situations = {"concurrent", "lockout", "crash", "killed", "install"}
    Unreliable = {"mail"}
    None = None
    MaxTime = 1
    MaxReports = 2
SYMMETRY Symmetry
INVARIANTS
    CompletedWasDelivered
CHECK_DEADLOCK FALSE
