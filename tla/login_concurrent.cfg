SPECIFICATION Spec
CONSTANTS
    States = {s1}
    Pollers = {p1, p2}
    Objs = {o1, o2, o3}
    None = None
    Second = 1
    DefaultPollInterval = 2
    DefaultExpiry = 3
    PruneGrace = 1
    Intervals = {0}
    Expiries = {0}
    MaxClock = 5
    MaxInterval = 4
    MaxReloads = 1
    MaxDrops = 1
SYMMETRY Symmetry
VIEW View
INVARIANTS OneCredential NoExcessBackoff ExchangesWithinDeadline
PROPERTY ImplementsContract
CHECK_DEADLOCK FALSE
