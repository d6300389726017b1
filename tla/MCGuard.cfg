SPECIFICATION Spec
CONSTANTS
    intranet = intranet
    literal = literal
    site = site
    inner = inner
    local = local
    elsewhere = elsewhere
    Host = {intranet, literal, elsewhere}
    Addr = {site, inner, local}
    Literal <- LiteralNames
    Listed = {intranet, literal}
    Refused = {local}
    Policies <- AllLists
    Request = {r1, a1}
    Exempt = {a1}
    NoAddr = none
    MaxEdit = 1
CHECK_DEADLOCK FALSE
INVARIANTS TypeOK BaselineKept DialsArePermitted RefusalsAreDue
