SPECIFICATION Spec
CONSTANTS
    Second = 2
    RefreshLead = 20
    Floor = 6
    Minute = 10
    Lifetimes = {0, 2, 6, 10, 12, 18, 20, 28, 30, 40}
    Lag = 1
    MaxTime = 64
    MaxParses = 2
INVARIANTS ParseHardlyDefers NoExpiredToken
PROPERTIES WithinExpiresIn RefreshesSpaced
CHECK_DEADLOCK FALSE
