SPECIFICATION Spec
CONSTANTS
    None = None
    Requests = {r1, r2}
    Sessions = {s1}
    Small = small
    Buckets = {large}
    ExpCap <- MCExpCap
    ExpValues = {1}
    DailyCap = 3
    MaxUploads = 3
    MaxDay = 0
CHECK_DEADLOCK FALSE
PROPERTY SyncRevisionMonotonic
