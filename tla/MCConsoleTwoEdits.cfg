SPECIFICATION Spec
CONSTANTS
    root = root
    other = other
    Email = {root, other}
    Secret = {s1, s2}
    None = none
    Keep = keep
    Edit = {e1, e2}
    Setup = {}
    SignIn = {v1}
    Main = main
    NoFile = noFile
    Torn = torn
    Seeds <- RootOnly
    FlagMail = TRUE
    Vanishes = FALSE
    MaxCrash = 0
CHECK_DEADLOCK FALSE
PROPERTIES BlankKeepsSecret
