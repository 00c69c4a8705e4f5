\* Two devices, two threads, locks that never outlast a loop.
SPECIFICATION Spec
CONSTANTS
    Threads = {t1, t2}
    clean = clean
    bad = bad
    worse = worse
    Packets = {bad, worse}
    Matches <- MCMatches
    Finished = 0
    MayGiveUp = FALSE
    StaleRowIds <- MCStaleRowIds
    None = None
INVARIANT
    WarningOnLastUrl
