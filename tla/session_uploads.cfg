\* Two uploads in flight over three sessions, failures and midnight included.
\* One session more than requests, so that a day can pass the cap by more than one.
SPECIFICATION Spec
CONSTANTS
    None = None
    Requests = {r1, r2}
    Sessions = {s1, s2, s3}
    Small = small
    Buckets = {small, large}
    ExpCap <- MCExpCap
    ExpValues = {1, 2}
    DailyCap = 3
    MaxUploads = 4
    MaxDay = 1
SYMMETRY Symmetry
CHECK_DEADLOCK FALSE
INVARIANTS
    TypeOK
    SyncStateNeverAhead
    SyncVersionAccounts
    RowsWithinSummaryCap
    TodayOvershootBounded
PROPERTY RowHistory
