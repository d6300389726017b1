SPECIFICATION ScopedSpec
CONSTANTS
    root = root
    other = other
    Email = {root, other}
    Secret = {s1, s2}
    None = none
    Keep = keep
    Edit = {e1}
    Setup = {u1}
    SignIn = {v1, v2}
    Main = main
    NoFile = noFile
    Torn = torn
    Seeds <- AnySeed
    FlagMail = FALSE
    Vanishes = TRUE
    MaxCrash = 1
CHECK_DEADLOCK FALSE
INVARIANTS TypeOK Durable Repairable NeverOrphaned
PROPERTIES BlankKeepsSecret
