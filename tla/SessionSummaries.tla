------------------------- MODULE SessionSummaries -------------------------
(***************************************************************************)
(* The session summaries of one user: SessionsService of                   *)
(* src/src/sessions/sessions.service.ts over its two tables.               *)
(*                                                                         *)
(* An upload is a request that suspends at every database call:            *)
(*                                                                         *)
(*   Begin ---> Aggregate ---> UpsertRow ---> UpsertSync ---> answered     *)
(*                                                                         *)
(* Each call is a statement of its own, so other uploads, deletions and    *)
(* midnight come between any two of them.  Abandon is a failed statement   *)
(* or the death of the process that runs the request.  Every query is      *)
(* keyed by the user, so uploads of different users do not meet.           *)
(***************************************************************************)
EXTENDS Integers, FiniteSets, FiniteSetsExt

CONSTANTS
    Requests,    \* uploads that can be in flight at the same time
    Sessions,    \* the sessionIds the user's clients upload
    Buckets,     \* what maxAllowedExp looks at: buckets and result status
    ExpCap,      \* ExpCap[b]: maxAllowedExp for a summary of b
    ExpValues,   \* the values of expGained that pass its @Min(0) and @Max(10_000)
    DailyCap,    \* 25_000 in the code
    MaxUploads,  \* bound on the uploads of a behaviour
    MaxDay,      \* bound on the clock, in days
    None         \* an absent row, an idle request's upload

ASSUME RequestsAssumption == IsFiniteSet(Requests) /\ Requests # {}
ASSUME ExpAssumption ==
    /\ ExpCap \in [Buckets -> Nat]
    /\ ExpValues \subseteq Nat
    /\ \E e \in ExpValues : \A f \in ExpValues : f <= e
ASSUME BoundsAssumption == DailyCap \in Nat /\ MaxUploads \in Nat /\ MaxDay \in Nat

Upload == [sessionId: Sessions, bucket: Buckets, exp: ExpValues]

\* A SessionSummary row: expGained and the bucket it was accepted for, the
\* server revision, the day of createdAt, and whether deletedAt is set.
Row == [exp: Nat, bucket: Buckets, rev: Nat, created: Nat, deleted: BOOLEAN]

\* The SyncState row of entity type SESSION_SUMMARY that mirrors a Row.
SyncRow == [version: Nat, rev: Nat]

ASSUME NoneAssumption == None \notin Row /\ None \notin SyncRow /\ None \notin Upload

Phase == {"idle", "aggregate", "upsert", "sync"}

\* What an upload holds on its stack: the request body, the midnight that
\* validateSummary computed, the revision the row upsert returned.
Request == [phase: Phase, upload: Upload \cup {None}, today: Nat, rev: Nat]

VARIABLES
    rows,      \* SessionSummary, by sessionId
    sync,      \* SyncState of the summaries, by sessionId
    request,   \* the uploads in flight
    day,       \* the server's local date
    uploads,   \* uploads received so far
    lost       \* uploads that died between the two upserts, by sessionId

vars == <<rows, sync, request, day, uploads, lost>>

IdleRequest == [phase |-> "idle", upload |-> None, today |-> 0, rev |-> 0]

Init ==
    /\ rows = [s \in Sessions |-> None]
    /\ sync = [s \in Sessions |-> None]
    /\ request = [r \in Requests |-> IdleRequest]
    /\ day = 0
    /\ uploads = 0
    /\ lost = [s \in Sessions |-> 0]

-----------------------------------------------------------------------------
\* The expGained the user collected on the rows of a set of sessions.
ExpOf(S) == SumFunctionOnSet([s \in S |-> rows[s].exp], S)

Live(s) == rows[s] # None /\ ~rows[s].deleted

\* prisma.sessionSummary.aggregate: rows created since the midnight d, not
\* deleted, other than the one this upload replaces.
Countable(d, own) == {s \in Sessions : s # own /\ Live(s) /\ rows[s].created >= d}

\* Mutant: the comparison is off by one.
WithinSummaryCapOffByOne(u) == u.exp <= ExpCap[u.bucket] + 1

\* maxAllowedExp guards the upload before the first await; the other checks
\* of validateSummary see only the body and are left out.
WithinSummaryCap(u) == u.exp <= ExpCap[u.bucket]

Begin(r, u) ==
    /\ request[r].phase = "idle"
    /\ uploads < MaxUploads
    /\ WithinSummaryCap(u)
    /\ uploads' = uploads + 1
    /\ request' = [request EXCEPT ![r] =
                     [phase |-> "aggregate", upload |-> u, today |-> day, rev |-> 0]]
    /\ UNCHANGED <<rows, sync, day, lost>>

\* Mutant: the cap is compared with what is stored, not with what it becomes.
WithinDailyCapIgnoringOwn(r) ==
    ExpOf(Countable(request[r].today, request[r].upload.sessionId)) <= DailyCap

WithinDailyCap(r) ==
    LET u == request[r].upload
    IN  ExpOf(Countable(request[r].today, u.sessionId)) + u.exp <= DailyCap

\* Mutant: the request body is dropped when the check passes.
AggregateDroppingBody(r) ==
    /\ request[r].phase = "aggregate"
    /\ request' = [request EXCEPT ![r] =
                     IF WithinDailyCap(r) THEN [IdleRequest EXCEPT !.phase = "upsert"]
                                          ELSE IdleRequest]
    /\ UNCHANGED <<rows, sync, day, uploads, lost>>

\* The aggregate answers: the upload goes on, or is rejected with 400.
Aggregate(r) ==
    /\ request[r].phase = "aggregate"
    /\ request' = [request EXCEPT ![r] =
                     IF WithinDailyCap(r)
                     THEN [phase |-> "upsert", upload |-> request[r].upload,
                           today |-> 0, rev |-> 0]
                     ELSE IdleRequest]
    /\ UNCHANGED <<rows, sync, day, uploads, lost>>

\* Mutant: a second upload refreshes createdAt.
UpsertedRefreshingDay(s, u) ==
    [exp |-> u.exp, bucket |-> u.bucket, rev |-> IF rows[s] = None THEN 1 ELSE rows[s].rev + 1,
     created |-> day, deleted |-> FALSE]

\* sessionSummary.upsert: createdAt is the time of the first insert, a second
\* upload of the session replaces the content, revives a deleted row and
\* increments the revision.
Upserted(s, u) ==
    IF rows[s] = None
    THEN [exp |-> u.exp, bucket |-> u.bucket, rev |-> 1, created |-> day, deleted |-> FALSE]
    ELSE [exp |-> u.exp, bucket |-> u.bucket, rev |-> rows[s].rev + 1,
          created |-> rows[s].created, deleted |-> FALSE]

UpsertRow(r) ==
    LET u == request[r].upload
        s == u.sessionId
    IN  /\ request[r].phase = "upsert"
        /\ rows' = [rows EXCEPT ![s] = Upserted(s, u)]
        /\ request' = [request EXCEPT ![r] =
                         [phase |-> "sync", upload |-> u, today |-> 0, rev |-> Upserted(s, u).rev]]
        /\ UNCHANGED <<sync, day, uploads, lost>>

\* Mutant: SyncState increments a revision of its own.
MirroredByOwnCount(s, rev) ==
    IF sync[s] = None
    THEN [version |-> 1, rev |-> rev]
    ELSE [version |-> sync[s].version + 1, rev |-> sync[s].rev + 1]

\* Mutant: the sync version is taken from the revision.
MirroredByRevision(s, rev) == [version |-> rev, rev |-> rev]

\* syncState.upsert, with the revision this request read from its own upsert;
\* then the request is answered.
MirroredBy(s, rev) ==
    IF sync[s] = None
    THEN [version |-> 1, rev |-> rev]
    ELSE [version |-> sync[s].version + 1, rev |-> rev]

UpsertSync(r) ==
    LET s == request[r].upload.sessionId
    IN  /\ request[r].phase = "sync"
        /\ sync' = [sync EXCEPT ![s] = MirroredBy(s, request[r].rev)]
        /\ request' = [request EXCEPT ![r] = IdleRequest]
        /\ UNCHANGED <<rows, day, uploads, lost>>

\* deleteSummary: one updateMany that sets deletedAt; it touches neither the
\* revision nor SyncState.
DeleteSummary(s) ==
    /\ Live(s)
    /\ rows' = [rows EXCEPT ![s].deleted = TRUE]
    /\ UNCHANGED <<sync, request, day, uploads, lost>>

\* A statement fails or the process dies: what the request has written stays.
Abandon(r) ==
    /\ request[r].phase # "idle"
    /\ request' = [request EXCEPT ![r] = IdleRequest]
    /\ lost' = IF request[r].phase = "sync"
               THEN [lost EXCEPT ![request[r].upload.sessionId] = @ + 1]
               ELSE lost
    /\ UNCHANGED <<rows, sync, day, uploads>>

Midnight ==
    /\ day < MaxDay
    /\ day' = day + 1
    /\ UNCHANGED <<rows, sync, request, uploads, lost>>

Next ==
    \/ \E r \in Requests, u \in Upload : Begin(r, u)
    \/ \E r \in Requests : Aggregate(r)
    \/ \E r \in Requests : UpsertRow(r)
    \/ \E r \in Requests : UpsertSync(r)
    \/ \E r \in Requests : Abandon(r)
    \/ \E s \in Sessions : DeleteSummary(s)
    \/ Midnight

Spec == Init /\ [][Next]_vars

-----------------------------------------------------------------------------
TypeOK ==
    /\ rows \in [Sessions -> Row \cup {None}]
    /\ sync \in [Sessions -> SyncRow \cup {None}]
    /\ request \in [Requests -> Request]
    /\ \A r \in Requests : request[r].phase # "idle" => request[r].upload \in Upload
    /\ day \in Nat
    /\ uploads \in Nat
    /\ lost \in [Sessions -> Nat]

\* The uploads of s that have written the row and not yet its SyncState.
Unmirrored(s) ==
    {r \in Requests : request[r].phase = "sync" /\ request[r].upload.sessionId = s}

\* A SyncState row mirrors a summary that exists and never claims a revision
\* the summary has not reached (sessions.service.ts:92-132): a client that
\* remembers the SyncState revision can always be served.
SyncStateNeverAhead ==
    \A s \in Sessions :
        sync[s] # None => rows[s] # None /\ sync[s].rev <= rows[s].rev

\* Every accepted upload of a session is counted exactly once in the sync
\* version of its SyncState, is still about to be, or was lost between the two
\* upserts: the two counters drift apart by failures and by nothing else
\* (sessions.service.ts:108 and :129).
SyncVersionAccounts ==
    \A s \in Sessions :
        (IF rows[s] = None THEN 0 ELSE rows[s].rev)
          = (IF sync[s] = None THEN 0 ELSE sync[s].version)
              + Cardinality(Unmirrored(s)) + lost[s]

\* Whatever the interleaving, a stored row never carries more experience than
\* maxAllowedExp grants for the very buckets stored beside it
\* (sessions.service.ts:172-178).
RowsWithinSummaryCap ==
    \A s \in Sessions : rows[s] # None => rows[s].exp <= ExpCap[rows[s].bucket]

\* Experience on the user's live rows created on day d.
DayTotal(d) == ExpOf({s \in Sessions : Live(s) /\ rows[s].created = d})

\* The cap as the rejection words it, 'daily exp soft cap exceeded'
\* (sessions.service.ts:190-194): no day's rows add up to more.
DailyCapKept == \A d \in 0..day : DayTotal(d) <= DailyCap

MaxSummaryExp == CHOOSE e \in ExpValues : \A f \in ExpValues : f <= e

\* The check and the insert are two statements, so concurrent uploads exceed
\* the cap; but by no more than one summary for each other upload in flight
\* (sessions.service.ts:180-195 and :92-110).
TodayOvershootBounded ==
    DayTotal(day) <= DailyCap + (Cardinality(Requests) - 1) * MaxSummaryExp

\* What a step may do to a stored summary: the row stays, its creation day is
\* final, and a change of content or a revival is a new revision, exactly one
\* higher; only a deletion goes without one (sessions.service.ts:92-110, 146-151).
RowHistory ==
    [][\A s \in Sessions : rows[s] # None =>
         /\ rows'[s] # None
         /\ rows'[s].created = rows[s].created
         /\ \/ rows'[s].rev = rows[s].rev + 1
            \/ rows'[s] = rows[s]
            \/ rows'[s] = [rows[s] EXCEPT !.deleted = TRUE]]_vars

\* Per-row server revisions only grow, the SyncState's own included, as the
\* migration that adds the columns says.
SyncRevisionMonotonic ==
    [][\A s \in Sessions : sync[s] # None => sync'[s].rev >= sync[s].rev]_vars
=============================================================================
