SPECIFICATION FairSpec
CONSTANTS
    States = {s1}
    Pollers = {p1}
    Objs = {o1, o2}
    None = None
    Second = 1
    DefaultPollInterval = 2
    DefaultExpiry = 3
    PruneGrace = 1
    Intervals = {0}
    Expiries = {0}
    MaxClock = 6
    MaxInterval = 4
    MaxReloads = 1
    MaxDrops = 1
PROPERTY EveryLoginSettles
CHECK_DEADLOCK FALSE
