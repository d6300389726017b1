SPECIFICATION Spec
CONSTANTS
    root = root
    other = other
    Email = {root, other}
    Secret = {s1}
    None = none
    Keep = keep
    Edit = {e1}
    Setup = {}
    SignIn = {v1}
    Main = main
    NoFile = noFile
    Torn = torn
    Seeds <- RootOnly
    FlagMail = TRUE
    Vanishes = TRUE
    MaxCrash = 0
CHECK_DEADLOCK FALSE
PROPERTIES EditorStaysAdmin
