\* One upload at a time: the cap is passed by uploading old sessions again.
SPECIFICATION Spec
CONSTANTS
    None = None
    Requests = {r1}
    Sessions = {s1, s2}
    Small = small
    Buckets = {large}
    ExpCap <- MCExpCap
    ExpValues = {1, 2}
    DailyCap = 3
    MaxUploads = 4
    MaxDay = 1
CHECK_DEADLOCK FALSE
INVARIANT DailyCapKept
