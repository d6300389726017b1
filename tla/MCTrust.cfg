SPECIFICATION Spec
CONSTANTS
    good = good
    Host = {h1, h2}
    Cert = {good, self, other}
    Valid <- OneGood
    Request = {r1, r2}
    Confirm = {c1, c2}
    NoCert = none
    OfferTTL = 1
    MaxSwap = 2
    MaxTime = 2
CHECK_DEADLOCK FALSE
INVARIANTS OnlyConfirmedCerts PinsWerePresented OffersAreNeeded
PROPERTIES OffersLast
