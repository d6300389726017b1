SPECIFICATION Spec
CONSTANTS
    r1 = r1
    other = other
    NoAnswer = NoAnswer
    Caller = {r1, other}
    Request = {r1}
    Settings <- AllModes
    Codec <- AllCodecs
    Build <- Codecs
    Fallback <- PlainCodec
    NoCodec = NoAnswer
    MaxEdit = 2
    Sources <- Everything
    Changing <- Moving
    Gate <- GateName
    SSOs <- AllSSOs
    OwnPages <- Login
    Token <- AllTokens
    Ports = {"80", "443", "9", "0"}
    BadPorts = {"0"}
    MaxLabel = 9
    Secure = TRUE
    ServeTLS = FALSE
CHECK_DEADLOCK FALSE
INVARIANTS TypeOK InForce ReachesItsTarget NeverElsewhere PortalAnswers RestoredExactly
