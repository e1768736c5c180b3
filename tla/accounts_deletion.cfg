\* Tokens stored after a request for account deletion.
SPECIFICATION Spec
CONSTANTS
    None = None
    Requests = {r1, r2}
    Users = {u1}
    Tokens = {t1, t2, t3}
    Emails = {e1}
    RefreshLifetime = 1
    MaxTime = 0
SYMMETRY Symmetry
CHECK_DEADLOCK FALSE
INVARIANT DeletionRevokesTokens
