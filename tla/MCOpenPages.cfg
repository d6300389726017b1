SPECIFICATION RenewalSpec
CONSTANTS
    Tab = {t1, t2}
    Fetch = {f1, f2}
    NoTab = none
    TTLs = {4, 6}
    MaxDelay = 1
    MaxBlip = 1
    MaxTime = 6
SYMMETRY Interchangeable
CHECK_DEADLOCK FALSE
INVARIANTS RenewalTypeOK OpenPageStaysSignedIn NeverGivesUp
