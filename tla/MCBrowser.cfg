SPECIFICATION BrowserSpec
CONSTANTS
    Site = {sso, app, alien}
    Domain = {sso, app}
    Request = {r1, r2}
    MaxKey = 2
    Other = other
    MaxSet = 2
    MaxClock = 1
    JarTTL = 0
    MaxJars = 1
    None = None
    PageSite = {alien, home}
    Visit = {v1, v2}
    Tokens = 2
    Stranger = other
    LastReading = 2
    PageTTL = 1
    MaxPages = 1
    NoPage = None
SYMMETRY Symmetry
CHECK_DEADLOCK FALSE
INVARIANTS TypeOK CookiesStayHome
PROPERTIES SignOnCarries LossIsDue TrailFollows
