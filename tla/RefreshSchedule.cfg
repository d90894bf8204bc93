SPECIFICATION Spec
CONSTANTS
    Intervals = {2, 4, 9}
    Lives = {1, 4, 7}
    NoExpiry <- MCNoExpiry
    Statuses = {0, 401, 429}
    Minute = 2
    Latency = 1
    Backoff = 3
    Horizon = 9
INVARIANTS
    NeverLapses
PROPERTIES
    NoNeedlessRefresh
    LapsedRecovers
