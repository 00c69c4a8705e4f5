\* Two processes that report, and the sniffer, on one day and the next.
SPECIFICATION Spec
CONSTANTS
    Reporters = {p1, p2}
    bad = bad
    mild = mild
    white = white
    gun = gun
    porn = porn
    ab_com = ab_com
    b_com = b_com
    www_b_com = www_b_com
    Requests = {bad, mild, white}
    Host <- MCHost
    Keywords <- MCKeywords
    Strength <- MCStrength
    Whitelisted = {white}
    Domain <- MCDomain
    EndsIn <- MCEndsIn
    Incidents = {b1}
    Configurations <- MCConfigurations
    None = None
    MaxDay = 1
    MaxReports = 2
    Bounded = TRUE
SYMMETRY
    Symmetry
INVARIANTS
    TypeOK
    ListedJustly
    MailIsOwn
    DeletedWasMailed
CHECK_DEADLOCK FALSE
