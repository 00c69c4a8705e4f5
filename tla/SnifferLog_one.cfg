\* One thread, as on a host with the device "any"; locks may outlast a loop.
SPECIFICATION FairSpec
CONSTANTS
    Threads = {t1}
    clean = clean
    bad = bad
    worse = worse
    Packets = {clean, bad, worse}
    Matches <- MCMatches
    Finished = 1
    MayGiveUp = TRUE
    StaleRowIds <- MCStaleRowIds
    None = None
INVARIANTS
    TypeOK
    WarningAccusesItsUrl
    KeywordsFollowWarning
    RowsPerRequest
    LoggedExactlyOnce
PROPERTIES
    BackToListening
    ImplementsFlaggedLog
