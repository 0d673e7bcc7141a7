SPECIFICATION Spec
CONSTANTS
    States = {s1, s2}
    Pollers = {p1}
    Objs = {o1, o2, o3}
    None = None
    Second = 2
    DefaultPollInterval = 2
    DefaultExpiry = 3
    PruneGrace = 3
    Intervals = {0}
    Expiries = {0}
    MaxClock = 7
    MaxInterval = 2
    MaxReloads = 1
    MaxDrops = 0
SYMMETRY Symmetry
VIEW View
INVARIANT ExchangesWithinDeadline
PROPERTY LiveSessionsSurvive
CHECK_DEADLOCK FALSE
