SPECIFICATION SequentialSpec
CONSTANTS
    States = {s1}
    Pollers = {p1, p2}
    Objs = {o1,o2,o3}
    None = None
    Second = 2
    DefaultPollInterval = 2
    DefaultExpiry = 8
    PruneGrace = 1
    Intervals = {0, 4}
    Expiries = {0, 5}
    MaxClock = 13
    MaxInterval = 6
    MaxReloads = 1
    MaxDrops = 1
SYMMETRY Symmetry
VIEW View
INVARIANTS TypeOK NoExcessBackoff ConsumedOnSuccess SlowDownSurvives
PROPERTIES PacingKept
CHECK_DEADLOCK FALSE
