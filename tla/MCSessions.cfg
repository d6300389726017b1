SPECIFICATION ScopedSpec
CONSTANTS
    Token = {phone}
    Visit = {v1}
    Renewal = {n1}
    Logout = {l1}
    Revoke = {k1}
    Janitor = janitor
    TTLs = {2, 3}
    Stall = 1
    MaxTime = 7
    Longest = 3
    LastEdit = 3
INVARIANTS EndedStaysEnded ActiveStaysSignedIn AdminsRevoke
PROPERTIES OnlyEndsForReason IdleLimit ExpiredIsCleared
