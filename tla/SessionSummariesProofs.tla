---------------------- MODULE SessionSummariesProofs ----------------------
(***************************************************************************)
(* Safety of SessionSummaries, for every number of uploads in flight,      *)
(* every set of sessions and every cap.                                    *)
(*                                                                         *)
(* None of the properties is inductive alone: that a SyncState row is      *)
(* never ahead depends on the revisions that suspended uploads still hold, *)
(* and that a row is within its cap on what they were let in with.         *)
(* SummaryInv adds both.                                                   *)
(***************************************************************************)
EXTENDS SessionSummaries, FiniteSums

\* An upload past validation respects the cap of its bucket.
AdmittedWithinCap ==
    \A r \in Requests : request[r].phase # "idle" => WithinSummaryCap(request[r].upload)

\* The revision an upload carries to SyncState is one its row has reached.
HeldRevisionReached ==
    \A r \in Requests :
        request[r].phase = "sync" =>
            LET s == request[r].upload.sessionId
            IN  rows[s] # None /\ request[r].rev <= rows[s].rev

SummaryInv ==
    /\ TypeOK
    /\ AdmittedWithinCap
    /\ HeldRevisionReached
    /\ SyncStateNeverAhead
    /\ RowsWithinSummaryCap

\* The type invariant holds initially.
LEMMA InitTypeOK == Init => TypeOK
  BY DEF Init, TypeOK, Request, IdleRequest, Phase

\* What the row upsert writes is a row, whose revision is one higher than
\* that of the row it replaces.
LEMMA UpsertedRow ==
  ASSUME TypeOK, NEW s \in Sessions, NEW u \in Upload
  PROVE  /\ Upserted(s, u) \in Row
         /\ Upserted(s, u).exp = u.exp
         /\ Upserted(s, u).bucket = u.bucket
         /\ rows[s] = None => Upserted(s, u).rev = 1
         /\ rows[s] # None => /\ rows[s].rev \in Nat
                              /\ Upserted(s, u).rev = rows[s].rev + 1
                              /\ Upserted(s, u).created = rows[s].created
<1> USE ExpAssumption
<1>1. u.exp \in Nat /\ u.bucket \in Buckets
  BY DEF Upload
<1>2. CASE rows[s] = None
  BY <1>1, <1>2 DEF Upserted, Row, TypeOK
<1>3. CASE rows[s] # None
  <2>1. rows[s] \in Row
    BY <1>3 DEF TypeOK
  <2> QED
    BY <1>1, <1>3, <2>1 DEF Upserted, Row
<1> QED
  BY <1>2, <1>3

\* Every step of the service keeps the type invariant.
LEMMA TypeOKInductive == TypeOK /\ [Next]_vars => TypeOK'
<1> SUFFICES ASSUME TypeOK, [Next]_vars PROVE TypeOK'
  OBVIOUS
<1> USE NoneAssumption, ExpAssumption DEF TypeOK, Request, Phase, IdleRequest
<1>1. ASSUME NEW r \in Requests, NEW u \in Upload, Begin(r, u) PROVE TypeOK'
  BY <1>1 DEF Begin
<1>2. ASSUME NEW r \in Requests, Aggregate(r) PROVE TypeOK'
  BY <1>2 DEF Aggregate
<1>3. ASSUME NEW r \in Requests, UpsertRow(r) PROVE TypeOK'
  <2> DEFINE u == request[r].upload
             s == u.sessionId
  <2>1. u \in Upload /\ s \in Sessions
    BY <1>3 DEF UpsertRow, Upload
  <2>2. Upserted(s, u) \in Row /\ Upserted(s, u).rev \in Nat
    BY <2>1, UpsertedRow DEF Row
  <2> QED
    BY <1>3, <2>1, <2>2 DEF UpsertRow
<1>4. ASSUME NEW r \in Requests, UpsertSync(r) PROVE TypeOK'
  <2> DEFINE s == request[r].upload.sessionId
  <2>1. s \in Sessions /\ request[r].rev \in Nat
    BY <1>4 DEF UpsertSync, Upload
  <2>2. MirroredBy(s, request[r].rev) \in SyncRow
    BY <2>1 DEF MirroredBy, SyncRow
  <2> QED
    BY <1>4, <2>1, <2>2 DEF UpsertSync
<1>5. ASSUME NEW r \in Requests, Abandon(r) PROVE TypeOK'
  <2>1. request[r].upload.sessionId \in Sessions
    BY <1>5 DEF Abandon, Upload
  <2> QED
    BY <1>5, <2>1 DEF Abandon
<1>6. ASSUME NEW s \in Sessions, DeleteSummary(s) PROVE TypeOK'
  BY <1>6 DEF DeleteSummary, Live, Row
<1>7. CASE Midnight
  BY <1>7 DEF Midnight
<1>8. CASE UNCHANGED vars
  BY <1>8 DEF vars
<1> QED
  BY <1>1, <1>2, <1>3, <1>4, <1>5, <1>6, <1>7, <1>8 DEF Next

\* Type correctness of the service's two tables and its requests.
THEOREM TypeCorrect == Spec => []TypeOK
  BY InitTypeOK, TypeOKInductive, PTL DEF Spec
-----------------------------------------------------------------------------
\* The invariant holds initially.
LEMMA InitSummaryInv == Init => SummaryInv
<1> SUFFICES ASSUME Init PROVE SummaryInv
  OBVIOUS
<1>1. TypeOK
  BY InitTypeOK
<1> QED
  BY <1>1 DEF Init, SummaryInv, AdmittedWithinCap, HeldRevisionReached,
              SyncStateNeverAhead, RowsWithinSummaryCap, IdleRequest

\* Every step keeps the invariant.  The steps that matter are the two upserts:
\* the row's revision grows under the revisions that other uploads hold, and
\* SyncState takes over a revision held since an earlier step.
LEMMA SummaryInvInductive == SummaryInv /\ [Next]_vars => SummaryInv'
<1> SUFFICES ASSUME SummaryInv, [Next]_vars PROVE SummaryInv'
  OBVIOUS
<1>0. TypeOK'
  BY TypeOKInductive DEF SummaryInv
<1> USE NoneAssumption, ExpAssumption
<1> USE DEF SummaryInv, AdmittedWithinCap, HeldRevisionReached,
            SyncStateNeverAhead, RowsWithinSummaryCap, TypeOK
<1>1. ASSUME NEW r \in Requests, NEW u \in Upload, Begin(r, u) PROVE SummaryInv'
  BY <1>0, <1>1 DEF Begin
<1>2. ASSUME NEW r \in Requests, Aggregate(r) PROVE SummaryInv'
  BY <1>0, <1>2 DEF Aggregate, IdleRequest
<1>3. ASSUME NEW r \in Requests, UpsertRow(r) PROVE SummaryInv'
  <2> DEFINE u == request[r].upload
             s == u.sessionId
  <2>1. u \in Upload /\ s \in Sessions /\ u.exp \in Nat /\ WithinSummaryCap(u)
    BY <1>3 DEF UpsertRow, Upload
  <2>2. /\ rows' = [rows EXCEPT ![s] = Upserted(s, u)]
        /\ request' = [request EXCEPT ![r] =
             [phase |-> "sync", upload |-> u, today |-> 0, rev |-> Upserted(s, u).rev]]
        /\ sync' = sync
    BY <1>3 DEF UpsertRow
  <2>3. /\ rows'[s] = Upserted(s, u)
        /\ \A t \in Sessions : t # s => rows'[t] = rows[t]
        /\ rows'[s] \in Row
    <3>1. rows'[s] = Upserted(s, u) /\ \A t \in Sessions : t # s => rows'[t] = rows[t]
      BY <2>1, <2>2
    <3> QED
      BY <2>1, <3>1, UpsertedRow
  <2>4. rows[s] # None => rows[s].rev \in Nat /\ rows'[s].rev = rows[s].rev + 1
    BY <2>1, <2>3, UpsertedRow
  <2>5. rows'[s].exp = u.exp /\ rows'[s].bucket = u.bucket
    BY <2>1, <2>3, UpsertedRow
  <2>6. AdmittedWithinCap'
    BY <2>1, <2>2 DEF WithinSummaryCap
  <2>7. HeldRevisionReached'
    <3> SUFFICES ASSUME NEW q \in Requests, request'[q].phase = "sync"
                 PROVE  LET t == request'[q].upload.sessionId
                        IN  rows'[t] # None /\ request'[q].rev <= rows'[t].rev
      OBVIOUS
    <3>1. CASE q = r
      BY <2>1, <2>2, <2>3, <3>1 DEF Row
    <3>2. CASE q # r
      <4> DEFINE t == request[q].upload.sessionId
      <4>1. request'[q] = request[q] /\ t \in Sessions /\ request[q].rev \in Nat
        BY <2>2, <3>2 DEF Upload, Request
      <4>2. rows[t] # None /\ request[q].rev <= rows[t].rev
        BY <4>1
      <4>3. CASE t = s
        BY <2>3, <2>4, <4>1, <4>2, <4>3
      <4>4. CASE t # s
        BY <2>3, <4>1, <4>2, <4>4
      <4> QED
        BY <4>3, <4>4
    <3> QED
      BY <3>1, <3>2
  <2>8. SyncStateNeverAhead'
    <3> SUFFICES ASSUME NEW t \in Sessions, sync[t] # None
                 PROVE  rows'[t] # None /\ sync[t].rev <= rows'[t].rev
      BY <2>2
    <3>1. rows[t] # None /\ sync[t].rev <= rows[t].rev /\ sync[t].rev \in Nat
      BY DEF SyncRow
    <3> QED
      BY <2>3, <2>4, <3>1
  <2>9. RowsWithinSummaryCap'
    BY <2>1, <2>3, <2>5 DEF WithinSummaryCap
  <2> QED
    BY <1>0, <2>6, <2>7, <2>8, <2>9
<1>4. ASSUME NEW r \in Requests, UpsertSync(r) PROVE SummaryInv'
  <2> DEFINE s == request[r].upload.sessionId
  <2>1. s \in Sessions /\ rows[s] # None /\ request[r].rev <= rows[s].rev
    BY <1>4 DEF UpsertSync, Upload
  <2>2. SyncStateNeverAhead'
    BY <1>4, <2>1 DEF UpsertSync, MirroredBy
  <2>3. AdmittedWithinCap' /\ HeldRevisionReached' /\ RowsWithinSummaryCap'
    BY <1>4 DEF UpsertSync, IdleRequest
  <2> QED
    BY <1>0, <2>2, <2>3
<1>5. ASSUME NEW r \in Requests, Abandon(r) PROVE SummaryInv'
  BY <1>0, <1>5 DEF Abandon, IdleRequest
<1>6. ASSUME NEW s \in Sessions, DeleteSummary(s) PROVE SummaryInv'
  <2>1. \A t \in Sessions : rows[t] # None =>
           /\ rows'[t] # None
           /\ rows'[t].rev = rows[t].rev
           /\ rows'[t].exp = rows[t].exp
           /\ rows'[t].bucket = rows[t].bucket
    BY <1>0, <1>6 DEF DeleteSummary, Live, Row
  <2>2. \A t \in Sessions : rows[t] = None => rows'[t] = None
    BY <1>6 DEF DeleteSummary, Live
  <2>3. \A q \in Requests : request[q].phase # "idle" => request[q].upload.sessionId \in Sessions
    BY DEF Upload
  <2>4. sync' = sync /\ request' = request
    BY <1>6 DEF DeleteSummary
  <2>5. AdmittedWithinCap'
    BY <2>4 DEF WithinSummaryCap
  <2>6. HeldRevisionReached'
    BY <2>1, <2>3, <2>4
  <2>7. SyncStateNeverAhead'
    BY <2>1, <2>4
  <2>8. RowsWithinSummaryCap'
    BY <2>1, <2>2
  <2> QED
    BY <1>0, <2>5, <2>6, <2>7, <2>8
<1>7. CASE Midnight
  BY <1>0, <1>7 DEF Midnight
<1>8. CASE UNCHANGED vars
  BY <1>0, <1>8 DEF vars
<1> QED
  BY <1>1, <1>2, <1>3, <1>4, <1>5, <1>6, <1>7, <1>8 DEF Next

\* The invariant holds in every reachable state.
THEOREM SummaryInvariant == Spec => []SummaryInv
  BY InitSummaryInv, SummaryInvInductive, PTL DEF Spec

\* SyncState never claims a revision its summary has not reached.
THEOREM NeverAhead == Spec => []SyncStateNeverAhead
<1>1. SummaryInv => SyncStateNeverAhead
  BY DEF SummaryInv
<1> QED
  BY <1>1, SummaryInvariant, PTL

\* No interleaving stores more experience than the stored buckets allow.
THEOREM RowsWithinCap == Spec => []RowsWithinSummaryCap
<1>1. SummaryInv => RowsWithinSummaryCap
  BY DEF SummaryInv
<1> QED
  BY <1>1, SummaryInvariant, PTL
-----------------------------------------------------------------------------
\* The uploads between the two upserts are finitely many, and one that enters
\* or leaves changes their number by one.
LEMMA UnmirroredCount ==
  ASSUME NEW s \in Sessions
  PROVE  /\ IsFiniteSet(Unmirrored(s))
         /\ Cardinality(Unmirrored(s)) \in Nat
         /\ \A r \in Requests \ Unmirrored(s) :
               Cardinality(Unmirrored(s) \cup {r}) = Cardinality(Unmirrored(s)) + 1
         /\ \A r \in Unmirrored(s) :
               Cardinality(Unmirrored(s) \ {r}) = Cardinality(Unmirrored(s)) - 1
<1>1. IsFiniteSet(Unmirrored(s))
  BY FS_Subset, RequestsAssumption DEF Unmirrored
<1> QED
  BY <1>1, FS_CardinalityType, FS_AddElement, FS_RemoveElement

\* A step that leaves the rows' revisions, SyncState, the lost uploads and the
\* uploads between the upserts alone keeps the accounts.
LEMMA AccountsUntouched ==
  ASSUME SyncVersionAccounts,
         \A s \in Sessions :
            /\ (rows'[s] = None) = (rows[s] = None)
            /\ rows[s] # None => rows'[s].rev = rows[s].rev
            /\ Unmirrored(s)' = Unmirrored(s),
         sync' = sync, lost' = lost
  PROVE  SyncVersionAccounts'
  BY DEF SyncVersionAccounts

\* The accounts of the two counters are kept by every step.
LEMMA AccountsInductive == TypeOK /\ SyncVersionAccounts /\ [Next]_vars => SyncVersionAccounts'
<1> SUFFICES ASSUME TypeOK, SyncVersionAccounts, [Next]_vars PROVE SyncVersionAccounts'
  OBVIOUS
<1>1. ASSUME NEW r \in Requests, NEW u \in Upload, Begin(r, u) PROVE SyncVersionAccounts'
  <2>1. \A s \in Sessions : Unmirrored(s)' = Unmirrored(s)
    BY <1>1 DEF Begin, TypeOK, Unmirrored
  <2> QED
    BY <1>1, <2>1, AccountsUntouched DEF Begin
<1>2. ASSUME NEW r \in Requests, Aggregate(r) PROVE SyncVersionAccounts'
  <2>1. \A s \in Sessions : Unmirrored(s)' = Unmirrored(s)
    BY <1>2 DEF Aggregate, TypeOK, Unmirrored, IdleRequest
  <2> QED
    BY <1>2, <2>1, AccountsUntouched DEF Aggregate
<1>3. ASSUME NEW r \in Requests, UpsertRow(r) PROVE SyncVersionAccounts'
  <2>1. PICK u \in Upload, s \in Sessions : u = request[r].upload /\ s = u.sessionId
    BY <1>3 DEF UpsertRow, TypeOK, Upload
  <2>2. /\ rows'[s] = Upserted(s, u)
        /\ \A t \in Sessions : t # s => rows'[t] = rows[t]
    BY <1>3, <2>1 DEF UpsertRow, TypeOK
  <2>3. /\ r \in Requests \ Unmirrored(s)
        /\ Unmirrored(s)' = Unmirrored(s) \cup {r}
        /\ \A t \in Sessions : t # s => Unmirrored(t)' = Unmirrored(t)
    BY <1>3, <2>1 DEF UpsertRow, TypeOK, Unmirrored
  <2>4. Cardinality(Unmirrored(s)') = Cardinality(Unmirrored(s)) + 1
    BY <2>1, <2>3, UnmirroredCount
  <2>5. rows'[s] # None
    BY <2>1, <2>2, UpsertedRow, NoneAssumption
  <2>6. rows'[s].rev = IF rows[s] = None THEN 1 ELSE rows[s].rev + 1
    BY <2>1, <2>2, UpsertedRow
  <2>7. /\ rows[s] # None => rows[s].rev \in Nat
        /\ sync[s] # None => sync[s].version \in Nat
        /\ Cardinality(Unmirrored(s)) \in Nat
        /\ lost[s] \in Nat
    BY <2>1, UnmirroredCount DEF TypeOK, Row, SyncRow
  <2>8. sync' = sync /\ lost' = lost
    BY <1>3 DEF UpsertRow
  <2>9. ASSUME NEW t \in Sessions
        PROVE  (IF rows'[t] = None THEN 0 ELSE rows'[t].rev)
                 = (IF sync'[t] = None THEN 0 ELSE sync'[t].version)
                     + Cardinality(Unmirrored(t)') + lost'[t]
    <3>1. CASE t = s
      BY <2>4, <2>5, <2>6, <2>7, <2>8, <3>1 DEF SyncVersionAccounts
    <3>2. CASE t # s
      BY <2>2, <2>3, <2>8, <3>2 DEF SyncVersionAccounts
    <3> QED
      BY <3>1, <3>2
  <2> QED
    BY <2>9 DEF SyncVersionAccounts
<1>4. ASSUME NEW r \in Requests, UpsertSync(r) PROVE SyncVersionAccounts'
  <2>1. PICK s \in Sessions : s = request[r].upload.sessionId
    BY <1>4 DEF UpsertSync, TypeOK, Upload
  <2>2. /\ sync'[s] = MirroredBy(s, request[r].rev)
        /\ \A t \in Sessions : t # s => sync'[t] = sync[t]
        /\ rows' = rows
        /\ lost' = lost
    BY <1>4, <2>1 DEF UpsertSync, TypeOK
  <2>3. /\ r \in Unmirrored(s)
        /\ Unmirrored(s)' = Unmirrored(s) \ {r}
        /\ \A t \in Sessions : t # s => Unmirrored(t)' = Unmirrored(t)
    BY <1>4, <2>1 DEF UpsertSync, TypeOK, Unmirrored, IdleRequest
  <2>4. Cardinality(Unmirrored(s)') = Cardinality(Unmirrored(s)) - 1
    BY <2>1, <2>3, UnmirroredCount
  <2>5. MirroredBy(s, request[r].rev) \in SyncRow
    BY <2>1 DEF MirroredBy, SyncRow, TypeOK, Request
  <2>6. /\ sync'[s] # None
        /\ sync'[s].version = IF sync[s] = None THEN 1 ELSE sync[s].version + 1
    BY <2>2, <2>5, NoneAssumption DEF MirroredBy
  <2>7. /\ sync[s] # None => sync[s].version \in Nat
        /\ Cardinality(Unmirrored(s)) \in Nat
        /\ lost[s] \in Nat
    BY <2>1, UnmirroredCount DEF TypeOK, SyncRow
  <2>8. ASSUME NEW t \in Sessions
        PROVE  (IF rows'[t] = None THEN 0 ELSE rows'[t].rev)
                 = (IF sync'[t] = None THEN 0 ELSE sync'[t].version)
                     + Cardinality(Unmirrored(t)') + lost'[t]
    <3>1. CASE t = s
      BY <2>2, <2>4, <2>6, <2>7, <3>1 DEF SyncVersionAccounts
    <3>2. CASE t # s
      BY <2>2, <2>3, <3>2 DEF SyncVersionAccounts
    <3> QED
      BY <3>1, <3>2
  <2> QED
    BY <2>8 DEF SyncVersionAccounts
<1>5. ASSUME NEW r \in Requests, Abandon(r) PROVE SyncVersionAccounts'
  <2>1. CASE request[r].phase # "sync"
    <3>1. \A s \in Sessions : Unmirrored(s)' = Unmirrored(s)
      BY <1>5, <2>1 DEF Abandon, TypeOK, Unmirrored, IdleRequest
    <3> QED
      BY <1>5, <2>1, <3>1, AccountsUntouched DEF Abandon
  <2>2. CASE request[r].phase = "sync"
    <3>1. PICK s \in Sessions : s = request[r].upload.sessionId
      BY <2>2 DEF TypeOK, Upload
    <3>2. /\ lost'[s] = lost[s] + 1
          /\ \A t \in Sessions : t # s => lost'[t] = lost[t]
          /\ rows' = rows
          /\ sync' = sync
      BY <1>5, <2>2, <3>1 DEF Abandon, TypeOK
    <3>3. /\ r \in Unmirrored(s)
          /\ Unmirrored(s)' = Unmirrored(s) \ {r}
          /\ \A t \in Sessions : t # s => Unmirrored(t)' = Unmirrored(t)
      BY <1>5, <2>2, <3>1 DEF Abandon, TypeOK, Unmirrored, IdleRequest
    <3>4. Cardinality(Unmirrored(s)') = Cardinality(Unmirrored(s)) - 1
      BY <3>1, <3>3, UnmirroredCount
    <3>5. /\ sync[s] # None => sync[s].version \in Nat
          /\ Cardinality(Unmirrored(s)) \in Nat
          /\ lost[s] \in Nat
      BY <3>1, UnmirroredCount DEF TypeOK, SyncRow
    <3>6. ASSUME NEW t \in Sessions
          PROVE  (IF rows'[t] = None THEN 0 ELSE rows'[t].rev)
                   = (IF sync'[t] = None THEN 0 ELSE sync'[t].version)
                       + Cardinality(Unmirrored(t)') + lost'[t]
      <4>1. CASE t = s
        BY <3>2, <3>4, <3>5, <4>1 DEF SyncVersionAccounts
      <4>2. CASE t # s
        BY <3>2, <3>3, <4>2 DEF SyncVersionAccounts
      <4> QED
        BY <4>1, <4>2
    <3> QED
      BY <3>6 DEF SyncVersionAccounts
  <2> QED
    BY <2>1, <2>2
<1>6. ASSUME NEW s \in Sessions, DeleteSummary(s) PROVE SyncVersionAccounts'
  <2>1. \A t \in Sessions : Unmirrored(t)' = Unmirrored(t)
    BY <1>6 DEF DeleteSummary, Unmirrored
  <2>2. rows[s] \in Row
    BY <1>6 DEF DeleteSummary, Live, TypeOK
  <2>3. rows'[s] \in Row /\ rows'[s].rev = rows[s].rev
    BY <1>6, <2>2 DEF DeleteSummary, TypeOK, Row
  <2>4. \A t \in Sessions : t # s => rows'[t] = rows[t]
    BY <1>6 DEF DeleteSummary, TypeOK
  <2>5. \A t \in Sessions :
           /\ (rows'[t] = None) = (rows[t] = None)
           /\ rows[t] # None => rows'[t].rev = rows[t].rev
    BY <2>2, <2>3, <2>4, NoneAssumption
  <2> QED
    BY <1>6, <2>1, <2>5, AccountsUntouched DEF DeleteSummary
<1>7. CASE Midnight
  BY <1>7, AccountsUntouched DEF Midnight, Unmirrored
<1>8. CASE UNCHANGED vars
  BY <1>8, AccountsUntouched DEF vars, Unmirrored
<1> QED
  BY <1>1, <1>2, <1>3, <1>4, <1>5, <1>6, <1>7, <1>8 DEF Next

\* Sync versions count the accepted uploads, up to the ones in between the two
\* upserts and the ones that failed there.
THEOREM AccountsKept == Spec => []SyncVersionAccounts
<1>1. Init => SyncVersionAccounts
  <2> SUFFICES ASSUME Init, NEW s \in Sessions PROVE Cardinality(Unmirrored(s)) = 0
    BY DEF Init, SyncVersionAccounts
  <2>1. Unmirrored(s) = {}
    BY DEF Init, Unmirrored, IdleRequest
  <2> QED
    BY <2>1, FS_EmptySet
<1> QED
  BY <1>1, AccountsInductive, TypeCorrect, PTL DEF Spec

-----------------------------------------------------------------------------
\* A stored summary keeps its creation day, and changes content only with the
\* next revision.
THEOREM RowHistoryKept == Spec => RowHistory
<1> DEFINE Kept(s) ==
      /\ rows'[s] # None
      /\ rows'[s].created = rows[s].created
      /\ \/ rows'[s].rev = rows[s].rev + 1
         \/ rows'[s] = rows[s]
         \/ rows'[s] = [rows[s] EXCEPT !.deleted = TRUE]
<1>1. TypeOK /\ [Next]_vars => [\A s \in Sessions : rows[s] # None => Kept(s)]_vars
  <2> SUFFICES ASSUME TypeOK, Next, NEW s \in Sessions, rows[s] # None
               PROVE  Kept(s)
    OBVIOUS
  <2>0. rows[s] \in Row
    BY DEF TypeOK
  <2>1. ASSUME NEW r \in Requests, UpsertRow(r) PROVE Kept(s)
    <3>1. PICK u \in Upload, t \in Sessions : u = request[r].upload /\ t = u.sessionId
      BY <2>1 DEF UpsertRow, TypeOK, Upload
    <3>2. rows' = [rows EXCEPT ![t] = Upserted(t, u)]
      BY <2>1, <3>1 DEF UpsertRow
    <3>3. CASE s = t
      <4>1. rows'[s] = Upserted(s, u)
        BY <3>2, <3>3 DEF TypeOK
      <4> QED
        BY <4>1, UpsertedRow, NoneAssumption
    <3>4. CASE s # t
      BY <3>2, <3>4 DEF TypeOK
    <3> QED
      BY <3>3, <3>4
  <2>2. ASSUME NEW t \in Sessions, DeleteSummary(t) PROVE Kept(s)
    <3>1. CASE s = t
      <4>1. rows'[s] = [rows[s] EXCEPT !.deleted = TRUE]
        BY <2>2, <3>1 DEF DeleteSummary, TypeOK
      <4>2. rows'[s] \in Row /\ rows'[s].created = rows[s].created
        BY <2>0, <4>1 DEF Row
      <4> QED
        BY <4>1, <4>2, NoneAssumption
    <3>2. CASE s # t
      BY <2>2, <3>2 DEF DeleteSummary, TypeOK
    <3> QED
      BY <3>1, <3>2
  <2>3. CASE rows' = rows
    BY <2>3
  <2>4. (\E r \in Requests : UpsertRow(r)) \/ (\E t \in Sessions : DeleteSummary(t)) \/ rows' = rows
    BY DEF Next, Begin, Aggregate, UpsertSync, Abandon, Midnight
  <2> QED
    BY <2>1, <2>2, <2>3, <2>4
<1>2. Spec => [][\A s \in Sessions : rows[s] # None => Kept(s)]_vars
  BY <1>1, TypeCorrect, PTL DEF Spec
<1> QED
  BY <1>2 DEF RowHistory

-----------------------------------------------------------------------------
(* How far a day can pass the daily cap.                                   *)

\* The uploads that have passed the check and not yet written their row.
Pending == {r \in Requests : request[r].phase = "upsert"}

\* The live rows of today that none of the uploads in Q will replace.
Avoiding(Q) ==
    {s \in Sessions : Live(s) /\ rows[s].created = day
                        /\ \A q \in Q : request[q].upload.sessionId # s}

\* What n - k more uploads can add to the cap.
Allowance(k) == DailyCap + (Cardinality(Requests) - k) * MaxSummaryExp

\* Whichever pending uploads write next, one of them, the last that was
\* checked, still fits beside the rows that none of them replaces, and each of
\* the others adds one summary to the excess at most.
PendingFits ==
    \A Q \in SUBSET Pending : Q # {} =>
        \E q \in Q : ExpOf(Avoiding(Q)) + request[q].upload.exp <= Allowance(Cardinality(Q))

\* No row and no check is of a later day, a pending upload fits alone, and the
\* user has finitely many rows.
DaysPast ==
    /\ \A s \in Sessions : rows[s] # None => rows[s].created <= day
    /\ \A r \in Requests : request[r].today <= day
    /\ \A r \in Pending : request[r].upload.exp <= DailyCap
    /\ IsFiniteSet({s \in Sessions : rows[s] # None})

CapInv == TypeOK /\ DaysPast /\ TodayOvershootBounded /\ PendingFits

\* The experience on the rows rw of a set of sessions.
Exps(rw, S) == SumOver([s \in S |-> rw[s].exp], S)

\* What the aggregate adds up.
LEMMA ExpOfIsExps ==
  ASSUME NEW S
  PROVE  ExpOf(S) = Exps(rows, S)
  BY SumIsSumOver DEF ExpOf, Exps

\* Less experience on fewer rows adds up to less.
LEMMA ExpsMonotone ==
  ASSUME NEW f, NEW g, NEW S, NEW R, IsFiniteSet(S), R \subseteq S,
         \A s \in S : f[s].exp \in Nat,
         \A s \in R : g[s].exp \in Nat /\ g[s].exp <= f[s].exp
  PROVE  Exps(g, R) \in Nat /\ Exps(f, S) \in Nat /\ Exps(g, R) <= Exps(f, S)
  <1> DEFINE ff == [s \in S |-> f[s].exp]
             gg == [s \in R |-> g[s].exp]
  <1>1. /\ \A s \in S : ff[s] \in Nat
        /\ \A s \in R : gg[s] \in Nat /\ gg[s] <= ff[s]
    OBVIOUS
  <1>2. IsFiniteSet(R)
    BY FS_Subset
  <1> HIDE DEF ff, gg
  <1>3. SumOver(gg, R) \in Nat /\ SumOver(ff, S) \in Nat
    BY <1>1, <1>2, SumOverNat
  <1>4. SumOver(gg, R) <= SumOver(ff, S)
    BY <1>1, SumOverMonotone
  <1> QED
    BY <1>3, <1>4 DEF Exps, ff, gg

\* The experience on some of the rows.
LEMMA ExpsSubset ==
  ASSUME NEW f, NEW S, NEW R, IsFiniteSet(S), R \subseteq S, \A s \in S : f[s].exp \in Nat
  PROVE  Exps(f, R) \in Nat /\ Exps(f, S) \in Nat /\ Exps(f, R) <= Exps(f, S)
  <1>1. \A s \in R : f[s].exp \in Nat /\ f[s].exp <= f[s].exp
    OBVIOUS
  <1> QED
    BY <1>1, ExpsMonotone

\* A row that is added brings its experience.
LEMMA ExpsAdd ==
  ASSUME NEW f, NEW S, NEW x, x \notin S, IsFiniteSet(S), \A s \in S \cup {x} : f[s].exp \in Nat
  PROVE  Exps(f, S \cup {x}) = f[x].exp + Exps(f, S)
  <1> DEFINE all == [s \in S \cup {x} |-> f[s].exp]
             old == [s \in S |-> f[s].exp]
  <1>1. /\ \A s \in S \cup {x} : all[s] \in Nat
        /\ \A s \in S : old[s] \in Nat /\ all[s] = old[s]
        /\ all[x] = f[x].exp
    OBVIOUS
  <1> HIDE DEF all, old
  <1>2. SumOver(all, S \cup {x}) = all[x] + SumOver(all, S)
    BY <1>1, SumOverAdd
  <1>3. SumOver(all, S) = SumOver(old, S)
    BY <1>1, SumOverAgree
  <1> QED
    BY <1>1, <1>2, <1>3 DEF Exps, all, old

\* The largest summary, and what is allowed beside k uploads.
LEMMA AllowanceFacts ==
  /\ MaxSummaryExp \in Nat
  /\ \A u \in Upload : u.exp \in Nat /\ u.exp <= MaxSummaryExp
  /\ Cardinality(Requests) \in Nat
  /\ \A Q \in SUBSET Requests :
        /\ IsFiniteSet(Q)
        /\ Cardinality(Q) \in Nat
        /\ Allowance(Cardinality(Q)) \in Nat
        /\ DailyCap <= Allowance(Cardinality(Q))
        /\ \A r \in Requests \ Q :
             /\ Cardinality(Q \cup {r}) = Cardinality(Q) + 1
             /\ Allowance(Cardinality(Q)) = Allowance(Cardinality(Q \cup {r})) + MaxSummaryExp
  /\ DailyCap <= Allowance(1)
  <1> DEFINE n == Cardinality(Requests)
             m == MaxSummaryExp
  <1>1. m \in ExpValues /\ \A f \in ExpValues : f <= m
    BY ExpAssumption DEF MaxSummaryExp
  <1>2. m \in Nat /\ \A u \in Upload : u.exp \in Nat /\ u.exp <= m
    BY <1>1, ExpAssumption DEF Upload
  <1>3. n \in Nat /\ n # 0
    BY RequestsAssumption, FS_CardinalityType, FS_EmptySet
  <1>4. ASSUME NEW Q \in SUBSET Requests
        PROVE  IsFiniteSet(Q) /\ Cardinality(Q) \in Nat /\ Cardinality(Q) <= n
    BY RequestsAssumption, FS_Subset, FS_CardinalityType
  <1> HIDE DEF n, m
  <1>5. ASSUME NEW k \in Nat, k <= n
        PROVE  /\ DailyCap + (n - k) * m \in Nat
               /\ DailyCap <= DailyCap + (n - k) * m
               /\ DailyCap + (n - k) * m = (DailyCap + (n - (k + 1)) * m) + m
    <2>1. n - k \in Nat
      BY <1>3, <1>5
    <2>2. (n - k) * m \in Nat
      BY <2>1, <1>2
    <2>3. (n - (k + 1)) * m = (n - k) * m - m
      BY <1>2, <1>3, <2>1
    <2> QED
      BY <2>2, <2>3, <1>2, BoundsAssumption
  <1>6. ASSUME NEW Q \in SUBSET Requests, NEW r \in Requests \ Q
        PROVE  Cardinality(Q \cup {r}) = Cardinality(Q) + 1
    BY <1>4, FS_AddElement
  <1>7. DailyCap <= Allowance(1)
    BY <1>3, <1>5 DEF Allowance, n, m
  <1>8. ASSUME NEW Q \in SUBSET Requests
        PROVE  /\ Allowance(Cardinality(Q)) \in Nat
               /\ DailyCap <= Allowance(Cardinality(Q))
               /\ Allowance(Cardinality(Q)) = Allowance(Cardinality(Q) + 1) + m
    BY <1>4, <1>5 DEF Allowance, n, m
  <1> QED
    BY <1>2, <1>3, <1>4, <1>6, <1>7, <1>8 DEF n, m

\* The rows of today are finitely many, and each has its experience.
LEMMA AvoidingFacts ==
  ASSUME TypeOK, DaysPast, NEW Q
  PROVE  /\ IsFiniteSet(Avoiding(Q))
         /\ \A s \in Avoiding(Q) : rows[s] \in Row /\ rows[s].exp \in Nat
         /\ ExpOf(Avoiding(Q)) \in Nat
  <1>1. IsFiniteSet(Avoiding(Q))
    BY FS_Subset DEF DaysPast, Avoiding, Live
  <1>2. \A s \in Avoiding(Q) : rows[s] \in Row /\ rows[s].exp \in Nat
    BY DEF Avoiding, Live, TypeOK, Row
  <1>3. Exps(rows, Avoiding(Q)) \in Nat
    BY <1>1, <1>2, ExpsMonotone
  <1> QED
    BY <1>1, <1>2, <1>3, ExpOfIsExps

\* The rows that no upload replaces are all rows of today.
LEMMA TodayIsAvoidingNone ==
  TodayOvershootBounded <=> ExpOf(Avoiding({})) <= Allowance(1)
  <1>1. {s \in Sessions : Live(s) /\ rows[s].created = day} = Avoiding({})
    BY DEF Avoiding
  <1> QED
    BY <1>1 DEF TodayOvershootBounded, DayTotal, Allowance

\* A step that inserts no row, changes no experience and lets no upload pass
\* the check keeps the bound.
LEMMA QuietStep ==
  ASSUME CapInv, TypeOK',
         \A s \in Sessions :
            /\ rows[s] = None <=> rows'[s] = None
            /\ rows[s] # None => rows'[s].exp = rows[s].exp /\ rows'[s].created = rows[s].created
            /\ Live(s)' => Live(s),
         day' = day,
         \A r \in Requests : request'[r].today <= day,
         Pending' \subseteq Pending,
         \A r \in Pending' : request'[r].upload = request[r].upload
  PROVE  CapInv'
  <1>1. TypeOK /\ DaysPast /\ TodayOvershootBounded /\ PendingFits
    BY DEF CapInv
  <1>2. DaysPast'
    <2>1. {s \in Sessions : rows'[s] # None} = {s \in Sessions : rows[s] # None}
      OBVIOUS
    <2> QED
      BY <1>1, <2>1 DEF DaysPast
  <1>3. ASSUME NEW Q \in SUBSET Pending'
        PROVE  /\ ExpOf(Avoiding(Q))' \in Nat
               /\ ExpOf(Avoiding(Q)) \in Nat
               /\ ExpOf(Avoiding(Q))' <= ExpOf(Avoiding(Q))
    <2>1. Avoiding(Q)' \subseteq Avoiding(Q)
      BY DEF Avoiding, Live
    <2>2. /\ IsFiniteSet(Avoiding(Q))
          /\ \A s \in Avoiding(Q) : rows[s].exp \in Nat
      BY <1>1, AvoidingFacts
    <2>3. \A s \in Avoiding(Q)' : rows'[s].exp \in Nat /\ rows'[s].exp <= rows[s].exp
      BY <2>1, <2>2 DEF Avoiding, Live
    <2>4. /\ Exps(rows', Avoiding(Q)') \in Nat
          /\ Exps(rows, Avoiding(Q)) \in Nat
          /\ Exps(rows', Avoiding(Q)') <= Exps(rows, Avoiding(Q))
      BY <2>1, <2>2, <2>3, ExpsMonotone
    <2>5. ExpOf(Avoiding(Q)) = Exps(rows, Avoiding(Q))
      BY ExpOfIsExps
    <2>6. ExpOf(Avoiding(Q))' = Exps(rows', Avoiding(Q)')
      BY SumIsSumOver DEF ExpOf, Exps
    <2> QED
      BY <2>4, <2>5, <2>6
  <1>4. TodayOvershootBounded'
    <2>1. ExpOf(Avoiding({})) <= Allowance(1) /\ Allowance(1) \in Int
      BY <1>1, TodayIsAvoidingNone, AllowanceFacts, BoundsAssumption DEF Allowance
    <2>2. ExpOf(Avoiding({}))' <= Allowance(1)
      BY <2>1, <1>3
    <2>3. {s \in Sessions : Live(s)' /\ rows'[s].created = day'} = Avoiding({})'
      BY DEF Avoiding
    <2> QED
      BY <2>2, <2>3 DEF TodayOvershootBounded, DayTotal, Allowance
  <1>5. PendingFits'
    <2> SUFFICES ASSUME NEW Q \in SUBSET Pending', Q # {}
                 PROVE  \E q \in Q : ExpOf(Avoiding(Q))' + request'[q].upload.exp
                                       <= Allowance(Cardinality(Q))
      BY DEF PendingFits, Allowance
    <2>1. PICK q \in Q : ExpOf(Avoiding(Q)) + request[q].upload.exp <= Allowance(Cardinality(Q))
      BY <1>1 DEF PendingFits
    <2>2. request'[q].upload = request[q].upload /\ request[q].upload \in Upload
      BY <1>1 DEF TypeOK, Pending
    <2>3. request[q].upload.exp \in Nat
      BY <2>2, AllowanceFacts
    <2>4. Allowance(Cardinality(Q)) \in Nat
      BY AllowanceFacts DEF Pending
    <2> QED
      BY <2>1, <2>2, <2>3, <2>4, <1>3
  <1> QED
    BY <1>2, <1>4, <1>5 DEF CapInv

\* An upload that the check lets pass fits beside every row it will not replace,
\* with whichever other uploads are pending.
LEMMA CheckedFits ==
  ASSUME CapInv, NEW r \in Requests, request[r].phase = "aggregate", WithinDailyCap(r)
  PROVE  /\ request[r].upload.exp <= DailyCap
         /\ ExpOf(Avoiding({r})) + request[r].upload.exp <= DailyCap
  <1> DEFINE u == request[r].upload
             C == Countable(request[r].today, u.sessionId)
  <1>1. TypeOK /\ DaysPast
    BY DEF CapInv
  <1>2. u \in Upload /\ u.exp \in Nat
    BY <1>1, AllowanceFacts DEF TypeOK
  <1>3. Avoiding({r}) \subseteq C
    BY <1>1 DEF Avoiding, Countable, DaysPast, TypeOK, Request, Live, Row
  <1>4. IsFiniteSet(C) /\ \A s \in C : rows[s].exp \in Nat
    <2>1. C \subseteq {s \in Sessions : rows[s] # None}
      BY DEF Countable, Live
    <2>2. \A s \in C : rows[s].exp \in Nat
      BY <1>1 DEF Countable, Live, TypeOK, Row
    <2> QED
      BY <1>1, <2>1, <2>2, FS_Subset DEF DaysPast
  <1>5. ExpOf(C) + u.exp <= DailyCap
    BY DEF WithinDailyCap
  <1> HIDE DEF C, u
  <1>6. /\ Exps(rows, Avoiding({r})) \in Nat
        /\ Exps(rows, C) \in Nat
        /\ Exps(rows, Avoiding({r})) <= Exps(rows, C)
    BY <1>3, <1>4, ExpsSubset
  <1>7. ExpOf(C) = Exps(rows, C) /\ ExpOf(Avoiding({r})) = Exps(rows, Avoiding({r}))
    BY ExpOfIsExps
  <1> QED
    BY <1>2, <1>5, <1>6, <1>7, BoundsAssumption DEF u

\* A check keeps the bound: the upload it lets pass is the last one checked.
LEMMA AggregateKeepsCap ==
  ASSUME CapInv, TypeOK', NEW r \in Requests, Aggregate(r)
  PROVE  CapInv'
  <1>1. TypeOK /\ DaysPast /\ TodayOvershootBounded /\ PendingFits
    BY DEF CapInv
  <1>2. rows' = rows /\ day' = day /\ request[r].phase = "aggregate"
    BY DEF Aggregate
  <1>3. CASE ~WithinDailyCap(r)
    <2>1. request' = [request EXCEPT ![r] = IdleRequest]
      BY <1>3 DEF Aggregate
    <2>2. \A q \in Requests : request'[q].today <= day
      BY <1>1, <2>1 DEF IdleRequest, TypeOK, DaysPast
    <2>3. Pending' \subseteq Pending /\ \A q \in Pending' : request'[q] = request[q]
      BY <1>1, <2>1 DEF Pending, IdleRequest, TypeOK
    <2> QED
      BY <1>2, <2>2, <2>3, QuietStep DEF Live
  <1>4. CASE WithinDailyCap(r)
    <2>1. request' = [request EXCEPT ![r] =
                        [phase |-> "upsert", upload |-> request[r].upload, today |-> 0, rev |-> 0]]
      BY <1>4 DEF Aggregate
    <2>2. Pending' = Pending \cup {r} /\ r \notin Pending
      BY <1>1, <1>2, <2>1 DEF Pending, TypeOK
    <2>3. \A q \in Requests : request'[q].upload = request[q].upload
      BY <1>1, <2>1 DEF TypeOK
    <2>4. \A q \in Requests : request'[q].today <= day
      BY <1>1, <2>1 DEF TypeOK, DaysPast
    <2>5. \A Q \in SUBSET Pending' : Avoiding(Q)' = Avoiding(Q)
      BY <1>2, <2>3 DEF Avoiding, Live, Pending
    <2>6. \A Q \in SUBSET Pending' : ExpOf(Avoiding(Q))' = ExpOf(Avoiding(Q))
      BY <1>2, <2>5 DEF ExpOf
    <2>7. request[r].upload.exp <= DailyCap /\ ExpOf(Avoiding({r})) + request[r].upload.exp <= DailyCap
      BY <1>2, <1>4, CheckedFits
    <2>8. DaysPast'
      <3>1. \A q \in Pending' : request'[q].upload.exp <= DailyCap
        BY <1>1, <2>2, <2>3, <2>7 DEF DaysPast, Pending
      <3>2. {s \in Sessions : rows'[s] # None} = {s \in Sessions : rows[s] # None}
        BY <1>2
      <3>3. \A s \in Sessions : rows'[s] # None => rows'[s].created <= day'
        BY <1>1, <1>2 DEF DaysPast
      <3> QED
        BY <1>1, <1>2, <2>4, <3>1, <3>2, <3>3 DEF DaysPast
    <2>9. TodayOvershootBounded'
      <3>1. {s \in Sessions : Live(s)' /\ rows'[s].created = day'}
              = {s \in Sessions : Live(s) /\ rows[s].created = day}
        BY <1>2 DEF Live
      <3> QED
        BY <1>1, <1>2, <3>1 DEF TodayOvershootBounded, DayTotal, ExpOf
    <2>10. PendingFits'
      <3> SUFFICES ASSUME NEW Q \in SUBSET Pending', Q # {}
                   PROVE  \E q \in Q : ExpOf(Avoiding(Q)) + request[q].upload.exp
                                         <= Allowance(Cardinality(Q))
        BY <2>3, <2>6 DEF PendingFits, Allowance, Pending
      <3>1. CASE r \notin Q
        BY <1>1, <2>2, <3>1 DEF PendingFits
      <3>2. CASE r \in Q
        <4>1. Avoiding(Q) \subseteq Avoiding({r})
          BY <3>2 DEF Avoiding
        <4>2. /\ IsFiniteSet(Avoiding({r}))
              /\ \A s \in Avoiding({r}) : rows[s].exp \in Nat
          BY <1>1, AvoidingFacts
        <4>3. /\ Exps(rows, Avoiding(Q)) \in Nat
              /\ Exps(rows, Avoiding({r})) \in Nat
              /\ Exps(rows, Avoiding(Q)) <= Exps(rows, Avoiding({r}))
          BY <4>1, <4>2, ExpsSubset
        <4>4. /\ ExpOf(Avoiding(Q)) = Exps(rows, Avoiding(Q))
              /\ ExpOf(Avoiding({r})) = Exps(rows, Avoiding({r}))
          BY ExpOfIsExps
        <4>5. request[r].upload.exp \in Nat
          BY <1>1, <1>2, AllowanceFacts DEF TypeOK
        <4>6. DailyCap <= Allowance(Cardinality(Q)) /\ Allowance(Cardinality(Q)) \in Nat
          BY AllowanceFacts DEF Pending
        <4>7. ExpOf(Avoiding(Q)) + request[r].upload.exp <= Allowance(Cardinality(Q))
          BY <2>7, <4>3, <4>4, <4>5, <4>6, BoundsAssumption
        <4> QED
          BY <3>2, <4>7
      <3> QED
        BY <3>1, <3>2
    <2> QED
      BY <2>8, <2>9, <2>10 DEF CapInv
  <1> QED
    BY <1>3, <1>4

\* A row that is written brings its experience at most, beside the rows that
\* neither its upload nor the uploads in Q replace.
LEMMA WrittenExp ==
  ASSUME CapInv, TypeOK', NEW r \in Requests, UpsertRow(r), NEW Q \in SUBSET Pending'
  PROVE  /\ ExpOf(Avoiding(Q))' \in Nat
         /\ ExpOf(Avoiding(Q \cup {r})) \in Nat
         /\ ExpOf(Avoiding(Q))' <= ExpOf(Avoiding(Q \cup {r})) + request[r].upload.exp
  <1>1. TypeOK /\ DaysPast
    BY DEF CapInv
  <1>2. PICK u \in Upload, t \in Sessions : u = request[r].upload /\ t = u.sessionId
    BY <1>1 DEF UpsertRow, TypeOK, Upload
  <1>3. /\ rows'[t] = Upserted(t, u)
        /\ \A s \in Sessions : s # t => rows'[s] = rows[s]
        /\ day' = day
    BY <1>1, <1>2 DEF UpsertRow, TypeOK
  <1>4. rows'[t].exp = u.exp /\ u.exp \in Nat
    BY <1>1, <1>2, <1>3, UpsertedRow, AllowanceFacts
  <1>5. \A q \in Q : request'[q].upload = request[q].upload
    BY <1>1 DEF UpsertRow, TypeOK, Pending
  <1> DEFINE A == Avoiding(Q \cup {r})
  <1>6. IsFiniteSet(A) /\ \A s \in A : rows[s].exp \in Nat
    BY <1>1, AvoidingFacts
  <1>7. t \notin A /\ \A s \in A : s \in Sessions /\ rows'[s] = rows[s]
    BY <1>2, <1>3 DEF Avoiding
  <1>8. Avoiding(Q)' \subseteq A \cup {t}
    BY <1>2, <1>3, <1>5 DEF Avoiding, Live
  <1>9. IsFiniteSet(A \cup {t})
    BY <1>6, FS_AddElement
  <1> HIDE DEF A
  <1>10. \A s \in A \cup {t} : rows'[s].exp \in Nat
    BY <1>4, <1>6, <1>7
  <1>11. /\ Exps(rows', Avoiding(Q)') \in Nat
         /\ Exps(rows', Avoiding(Q)') <= Exps(rows', A \cup {t})
    BY <1>8, <1>9, <1>10, ExpsMonotone
  <1>12. Exps(rows', A \cup {t}) = u.exp + Exps(rows', A)
    BY <1>4, <1>6, <1>7, <1>10, ExpsAdd
  <1>13. Exps(rows', A) \in Nat /\ Exps(rows', A) <= Exps(rows, A) /\ Exps(rows, A) \in Nat
    BY <1>6, <1>7, ExpsMonotone
  <1>14. ExpOf(A) = Exps(rows, A)
    BY ExpOfIsExps
  <1>15. ExpOf(Avoiding(Q))' = Exps(rows', Avoiding(Q)')
    BY SumIsSumOver DEF ExpOf, Exps
  <1> QED
    BY <1>2, <1>4, <1>11, <1>12, <1>13, <1>14, <1>15 DEF A

\* A write keeps the bound: the pending uploads with the writer among them
\* account for it.
LEMMA UpsertRowKeepsCap ==
  ASSUME CapInv, TypeOK', NEW r \in Requests, UpsertRow(r)
  PROVE  CapInv'
  <1>1. TypeOK /\ DaysPast /\ PendingFits
    BY DEF CapInv
  <1>2. PICK u \in Upload, t \in Sessions : u = request[r].upload /\ t = u.sessionId
    BY <1>1 DEF UpsertRow, TypeOK, Upload
  <1>3. /\ rows'[t] = Upserted(t, u)
        /\ \A s \in Sessions : s # t => rows'[s] = rows[s]
        /\ day' = day
        /\ r \in Pending
        /\ Pending' = Pending \ {r}
        /\ \A q \in Pending' : request'[q] = request[q]
    BY <1>1, <1>2 DEF UpsertRow, TypeOK, Pending
  <1>4. u.exp \in Nat /\ u.exp <= MaxSummaryExp /\ MaxSummaryExp \in Nat
    BY AllowanceFacts
  <1>5. DaysPast'
    <2>1. \A q \in Requests : request'[q].today <= day
      BY <1>1 DEF UpsertRow, TypeOK, DaysPast
    <2>2. \A q \in Pending' : request'[q].upload.exp <= DailyCap
      BY <1>1, <1>3 DEF DaysPast
    <2>3. IsFiniteSet({s \in Sessions : rows'[s] # None})
      <3>1. {s \in Sessions : rows'[s] # None} \subseteq {s \in Sessions : rows[s] # None} \cup {t}
        BY <1>3
      <3>2. IsFiniteSet({s \in Sessions : rows[s] # None} \cup {t})
        BY <1>1, FS_AddElement DEF DaysPast
      <3> QED
        BY <3>1, <3>2, FS_Subset
    <2>4. \A s \in Sessions : rows'[s] # None => rows'[s].created <= day
      <3>1. rows[t] # None => rows'[t].created = rows[t].created
        BY <1>1, <1>2, <1>3, UpsertedRow
      <3>2. rows[t] = None => rows'[t].created = day
        BY <1>3 DEF Upserted
      <3> QED
        BY <1>1, <1>3, <3>1, <3>2 DEF DaysPast, TypeOK
    <2> QED
      BY <1>3, <2>1, <2>2, <2>3, <2>4 DEF DaysPast
  <1>6. ASSUME NEW Q \in SUBSET Pending'
        PROVE  \E q \in Q \cup {r} :
                 ExpOf(Avoiding(Q \cup {r})) + request[q].upload.exp <= Allowance(Cardinality(Q) + 1)
    <2>1. Q \cup {r} \in SUBSET Pending /\ Q \cup {r} # {} /\ r \in Requests \ Q
      BY <1>3
    <2>2. \E q \in Q \cup {r} :
            ExpOf(Avoiding(Q \cup {r})) + request[q].upload.exp <= Allowance(Cardinality(Q \cup {r}))
      BY <1>1, <2>1 DEF PendingFits
    <2>3. Cardinality(Q \cup {r}) = Cardinality(Q) + 1
      BY <1>3, <2>1, AllowanceFacts DEF Pending
    <2> QED
      BY <2>2, <2>3
  <1>7. TodayOvershootBounded'
    <2>1. /\ ExpOf(Avoiding({}))' \in Nat
          /\ ExpOf(Avoiding({} \cup {r})) \in Nat
          /\ ExpOf(Avoiding({}))' <= ExpOf(Avoiding({} \cup {r})) + request[r].upload.exp
      BY WrittenExp
    <2>2. ExpOf(Avoiding({} \cup {r})) + request[r].upload.exp <= Allowance(Cardinality({}) + 1)
      BY <1>6
    <2>3. Cardinality({}) + 1 = 1
      BY FS_EmptySet
    <2>4. Allowance(1) \in Int
      BY AllowanceFacts, BoundsAssumption DEF Allowance
    <2>5. ExpOf(Avoiding({}))' <= Allowance(1)
      BY <1>2, <1>4, <2>1, <2>2, <2>3, <2>4
    <2>6. {s \in Sessions : Live(s)' /\ rows'[s].created = day'} = Avoiding({})'
      BY DEF Avoiding
    <2> QED
      BY <2>5, <2>6 DEF TodayOvershootBounded, DayTotal, Allowance
  <1>8. PendingFits'
    <2> SUFFICES ASSUME NEW Q \in SUBSET Pending', Q # {}
                 PROVE  \E q \in Q : ExpOf(Avoiding(Q))' + request'[q].upload.exp
                                       <= Allowance(Cardinality(Q))
      BY DEF PendingFits, Allowance
    <2>1. /\ ExpOf(Avoiding(Q))' \in Nat
          /\ ExpOf(Avoiding(Q \cup {r})) \in Nat
          /\ ExpOf(Avoiding(Q))' <= ExpOf(Avoiding(Q \cup {r})) + u.exp
      BY <1>2, WrittenExp
    <2>2. PICK q \in Q \cup {r} :
            ExpOf(Avoiding(Q \cup {r})) + request[q].upload.exp <= Allowance(Cardinality(Q) + 1)
      BY <1>6
    <2>3. /\ Allowance(Cardinality(Q)) = Allowance(Cardinality(Q) + 1) + MaxSummaryExp
          /\ Allowance(Cardinality(Q)) \in Nat
          /\ Allowance(Cardinality(Q) + 1) \in Int
      <3>1. /\ Allowance(Cardinality(Q)) = Allowance(Cardinality(Q \cup {r})) + MaxSummaryExp
            /\ Cardinality(Q \cup {r}) = Cardinality(Q) + 1
            /\ Allowance(Cardinality(Q)) \in Nat
        BY <1>3, AllowanceFacts DEF Pending
      <3>2. Cardinality(Q) \in Nat /\ Cardinality(Requests) \in Nat
        BY AllowanceFacts DEF Pending
      <3> QED
        BY <1>4, <3>1, <3>2, BoundsAssumption DEF Allowance
    <2>4. \A p \in Q : /\ request'[p].upload = request[p].upload
                       /\ request[p].upload.exp \in Nat
                       /\ request[p].upload.exp <= MaxSummaryExp
      <3>1. \A p \in Q : request'[p] = request[p] /\ request[p].upload \in Upload
        BY <1>1, <1>3 DEF TypeOK, Pending
      <3> QED
        BY <3>1, AllowanceFacts
    <2>5. CASE q = r
      <3>1. PICK p \in Q : TRUE
        OBVIOUS
      <3>2. ExpOf(Avoiding(Q))' <= Allowance(Cardinality(Q) + 1)
        BY <1>2, <1>4, <2>1, <2>2, <2>3, <2>5
      <3>3. ExpOf(Avoiding(Q))' + request'[p].upload.exp <= Allowance(Cardinality(Q))
        BY <1>4, <2>1, <2>3, <2>4, <3>1, <3>2
      <3> QED
        BY <3>1, <3>3
    <2>6. CASE q \in Q
      <3>1. ExpOf(Avoiding(Q))' + request'[q].upload.exp <= Allowance(Cardinality(Q))
        BY <1>4, <2>1, <2>2, <2>3, <2>4, <2>6
      <3> QED
        BY <2>6, <3>1
    <2> QED
      BY <2>5, <2>6
  <1> QED
    BY <1>5, <1>7, <1>8 DEF CapInv

\* Midnight keeps the bound: no row is of the new day yet.
LEMMA MidnightKeepsCap ==
  ASSUME CapInv, TypeOK', Midnight
  PROVE  CapInv'
  <1>1. TypeOK /\ DaysPast
    BY DEF CapInv
  <1>2. day' = day + 1 /\ rows' = rows /\ request' = request /\ Pending' = Pending
    BY DEF Midnight, Pending
  <1>3. DaysPast'
    <2>1. \A s \in Sessions : rows[s] # None => rows[s].created <= day + 1
      BY <1>1 DEF DaysPast, TypeOK, Row
    <2>2. \A r \in Requests : request[r].today <= day + 1
      BY <1>1 DEF DaysPast, TypeOK, Request
    <2> QED
      BY <1>1, <1>2, <2>1, <2>2 DEF DaysPast
  <1>4. \A Q : Avoiding(Q)' = {}
    BY <1>1, <1>2 DEF Avoiding, Live, DaysPast, TypeOK, Row
  <1>5. \A Q : ExpOf(Avoiding(Q))' = 0
    <2>1. SumOver([s \in {} |-> rows'[s].exp], {}) = 0
      BY SumOverEmpty
    <2> QED
      BY <1>4, <2>1, SumIsSumOver DEF ExpOf
  <1>6. TodayOvershootBounded'
    <2>1. {s \in Sessions : Live(s)' /\ rows'[s].created = day'} = Avoiding({})'
      BY DEF Avoiding
    <2>2. 0 <= Allowance(1)
      BY AllowanceFacts, BoundsAssumption DEF Allowance
    <2> QED
      BY <1>5, <2>1, <2>2 DEF TodayOvershootBounded, DayTotal, Allowance
  <1>7. PendingFits'
    <2> SUFFICES ASSUME NEW Q \in SUBSET Pending, Q # {}
                 PROVE  \E q \in Q : 0 + request[q].upload.exp <= Allowance(Cardinality(Q))
      BY <1>2, <1>5 DEF PendingFits, Allowance
    <2>1. PICK q \in Q : TRUE
      OBVIOUS
    <2>2. request[q].upload \in Upload /\ request[q].upload.exp <= DailyCap
      BY <1>1, <2>1 DEF DaysPast, TypeOK, Pending
    <2>3. request[q].upload.exp \in Nat
      BY <2>2, AllowanceFacts
    <2>4. DailyCap <= Allowance(Cardinality(Q)) /\ Allowance(Cardinality(Q)) \in Nat
      BY AllowanceFacts DEF Pending
    <2>5. 0 + request[q].upload.exp <= Allowance(Cardinality(Q))
      BY <2>2, <2>3, <2>4, BoundsAssumption
    <2> QED
      BY <2>1, <2>5
  <1> QED
    BY <1>3, <1>6, <1>7 DEF CapInv

\* Every step keeps the bound.
LEMMA CapInvInductive == CapInv /\ [Next]_vars => CapInv'
  <1> SUFFICES ASSUME CapInv, [Next]_vars PROVE CapInv'
    OBVIOUS
  <1>0. TypeOK /\ TypeOK' /\ DaysPast
    BY TypeOKInductive DEF CapInv
  <1>1. ASSUME NEW r \in Requests, NEW u \in Upload, Begin(r, u) PROVE CapInv'
    <2>1. Pending' \subseteq Pending /\ \A q \in Pending' : request'[q] = request[q]
      BY <1>0, <1>1 DEF Begin, TypeOK, Pending
    <2>2. \A q \in Requests : request'[q].today <= day
      BY <1>0, <1>1 DEF Begin, TypeOK, DaysPast
    <2>3. rows' = rows /\ day' = day
      BY <1>1 DEF Begin
    <2> QED
      BY <1>0, <2>1, <2>2, <2>3, QuietStep DEF Live
  <1>2. ASSUME NEW r \in Requests, Aggregate(r) PROVE CapInv'
    BY <1>0, <1>2, AggregateKeepsCap
  <1>3. ASSUME NEW r \in Requests, UpsertRow(r) PROVE CapInv'
    BY <1>0, <1>3, UpsertRowKeepsCap
  <1>4. ASSUME NEW r \in Requests, UpsertSync(r) \/ Abandon(r) PROVE CapInv'
    <2>1. /\ request' = [request EXCEPT ![r] = IdleRequest]
          /\ rows' = rows
          /\ day' = day
      BY <1>4 DEF UpsertSync, Abandon
    <2>2. Pending' \subseteq Pending /\ \A q \in Pending' : request'[q] = request[q]
      BY <1>0, <2>1 DEF TypeOK, Pending, IdleRequest
    <2>3. \A q \in Requests : request'[q].today <= day
      BY <1>0, <2>1 DEF TypeOK, DaysPast, IdleRequest
    <2> QED
      BY <1>0, <2>1, <2>2, <2>3, QuietStep DEF Live
  <1>5. ASSUME NEW s \in Sessions, DeleteSummary(s) PROVE CapInv'
    <2>1. rows[s] \in Row /\ rows[s] # None
      BY <1>0, <1>5 DEF DeleteSummary, Live, TypeOK
    <2>2. /\ rows'[s] = [rows[s] EXCEPT !.deleted = TRUE]
          /\ \A t \in Sessions : t # s => rows'[t] = rows[t]
          /\ request' = request
          /\ day' = day
      BY <1>0, <1>5 DEF DeleteSummary, TypeOK
    <2>3. /\ rows'[s] \in Row
          /\ rows'[s].exp = rows[s].exp
          /\ rows'[s].created = rows[s].created
          /\ rows'[s].deleted
      BY <2>1, <2>2 DEF Row
    <2>4. \A t \in Sessions :
            /\ rows[t] = None <=> rows'[t] = None
            /\ rows[t] # None => rows'[t].exp = rows[t].exp /\ rows'[t].created = rows[t].created
            /\ Live(t)' => Live(t)
      BY <2>1, <2>2, <2>3, NoneAssumption DEF Live
    <2>5. Pending' = Pending /\ \A q \in Requests : request'[q].today <= day
      BY <1>0, <2>2 DEF Pending, DaysPast
    <2> QED
      BY <1>0, <2>2, <2>4, <2>5, QuietStep
  <1>6. CASE Midnight
    BY <1>0, <1>6, MidnightKeepsCap
  <1>7. CASE UNCHANGED vars
    <2>1. rows' = rows /\ request' = request /\ day' = day
      BY <1>7 DEF vars
    <2>2. Pending' = Pending /\ \A q \in Requests : request'[q].today <= day
      BY <1>0, <2>1 DEF Pending, DaysPast
    <2> QED
      BY <1>0, <2>1, <2>2, QuietStep DEF Live
  <1> QED
    BY <1>1, <1>2, <1>3, <1>4, <1>5, <1>6, <1>7 DEF Next

\* However many uploads race through the check and the insert, the experience
\* on the rows of today exceeds the cap by at most one summary for each upload
\* in flight but one.
THEOREM OvershootBounded == Spec => []TodayOvershootBounded
  <1>1. Init => CapInv
    <2> SUFFICES ASSUME Init PROVE CapInv
      OBVIOUS
    <2>1. TypeOK
      BY InitTypeOK
    <2>2. Pending = {}
      BY DEF Init, Pending, IdleRequest
    <2>3. DaysPast
      <3>1. {s \in Sessions : rows[s] # None} = {}
        BY DEF Init
      <3> QED
        BY <2>2, <3>1, FS_EmptySet DEF Init, DaysPast, IdleRequest
    <2>4. TodayOvershootBounded
      <3>1. Avoiding({}) = {}
        BY DEF Init, Avoiding, Live
      <3>2. SumOver([s \in {} |-> rows[s].exp], {}) = 0
        BY SumOverEmpty
      <3>3. ExpOf(Avoiding({})) = 0
        BY <3>1, <3>2, SumIsSumOver DEF ExpOf
      <3>4. 0 <= Allowance(1)
        BY AllowanceFacts, BoundsAssumption DEF Allowance
      <3> QED
        BY <3>3, <3>4, TodayIsAvoidingNone
    <2> QED
      BY <2>1, <2>2, <2>3, <2>4 DEF CapInv, PendingFits
  <1>2. CapInv => TodayOvershootBounded
    BY DEF CapInv
  <1> QED
    BY <1>1, <1>2, CapInvInductive, PTL DEF Spec

\* Uploads that do not overlap keep the cap of the running day: the excess is due
\* to the race alone (sessions.service.ts:180-195 and :92-110).
THEOREM OneByOneWithinCap ==
  ASSUME Cardinality(Requests) = 1
  PROVE  Spec => [](DayTotal(day) <= DailyCap)
  <1>1. TodayOvershootBounded => DayTotal(day) <= DailyCap
    <2>1. MaxSummaryExp \in Nat /\ DailyCap \in Nat
      BY AllowanceFacts, BoundsAssumption
    <2>2. DailyCap + (Cardinality(Requests) - 1) * MaxSummaryExp = DailyCap
      BY <2>1
    <2> QED
      BY <2>2 DEF TodayOvershootBounded
  <1> QED
    BY <1>1, OvershootBounded, PTL
=============================================================================
