SPECIFICATION Spec
CONSTANTS
    Email = {alice}
    Code = {right, wrong}
    CodeRequest = {c1, c2}
    VerifyRequest = {v1, v2}
    Janitor = janitor
    CodeTTL = 1
    ResendInterval = 1
    MaxAttempts = 1
    Stall = 1
    MaxTime = 3
SYMMETRY Interchangeable
INVARIANTS AttemptsBounded SessionsEarned
PROPERTIES KeepsPromise SpentInTime NoEarlyLoss
