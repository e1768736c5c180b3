\* Two requests in flight, two users, three tokens; a token can expire.
SPECIFICATION Spec
CONSTANTS
    None = None
    Requests = {r1, r2}
    Users = {u1, u2}
    Tokens = {t1, t2, t3}
    Emails = {e1}
    RefreshLifetime = 1
    MaxTime = 2
SYMMETRY Symmetry
CHECK_DEADLOCK FALSE
INVARIANTS
    TypeOK
    NoOrphanTokens
    RotationChain
    OneUserPerEmail
    GuestNotStranded
    AuditTrail
    ClosingAccountBounded
PROPERTY RevocationFinal
