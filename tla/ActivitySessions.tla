------------------------- MODULE ActivitySessions -------------------------
(***************************************************************************)
(* The activity sessions of one user: SyncService.upsertActivitySessions,  *)
(* listActivitySessions and deleteActivitySession                          *)
(* (src/src/sync/sync.service.ts) over SyncRepository                      *)
(* (src/src/sync/sync.repository.ts).                                      *)
(*                                                                         *)
(* A batch stores its entries one after the other, each in an interactive  *)
(* transaction of its own:                                                 *)
(*                                                                         *)
(*   Post --> [ Lookup --> Insert/Update --> Replace --> Commit ] --> Reply *)
(*                                                                         *)
(* PostgreSQL runs the transactions at READ COMMITTED: a statement sees    *)
(* what is committed, and waits for a transaction that has written the     *)
(* row, or the unique key, it wants to write.                              *)
(***************************************************************************)
EXTENDS Integers, Sequences, FiniteSets

CONSTANTS
    Requests,     \* batches that can be in flight at the same time
    Batches,      \* contents of batches
    Entries,      \* contents of activity sessions
    EntriesOf,    \* batch -> its entries, in order
    ClientOf,     \* entry -> its clientSessionId
    Clients,      \* clientSessionIds
    Safe,         \* the entries that validateSession accepts
    Groups,       \* child tables: warnings, category, language, tool buckets
    GroupsOf,     \* entry -> the groups it gives elements to
    Ids,          \* row ids that the database can generate
    MaxPosts,     \* bound on the batches sent
    MaxLists,     \* bound on the listings
    None

ASSUME EntriesAssumption ==
    /\ EntriesOf \in [Batches -> Seq(Entries)]
    /\ ClientOf \in [Entries -> Clients]
    /\ GroupsOf \in [Entries -> SUBSET Groups]
    /\ Safe \subseteq Entries

\* The elements of a child table that came with edit `edit` of their session.
Stamp == [by: Entries, edit: Nat]

\* An ActivitySession row with its children: the entry its own columns come
\* from, how often it was written (updatedAt), and the elements per child table.
Row == [client: Clients, by: Entries, edit: Nat, groups: [Groups -> SUBSET Stamp]]

ASSUME NoneAssumption == None \notin Row /\ None \notin Ids /\ None \notin Batches

Phase == {"idle", "lookup", "write", "replace", "commit", "reply"}

\* A batch in flight: the entry it is at, the row id the lookup found or the
\* insert was given, and the row as the open transaction sees it.
Request == [phase: Phase, batch: Batches \cup {None}, at: Nat, id: Ids \cup {None},
            work: Row \cup {None}]

VARIABLES
    row,        \* committed rows, by id, with their children
    used,       \* ids generated so far
    request,    \* the batches in flight
    list,       \* the listing in progress, or the last one
    posts,      \* batches sent so far
    committed,  \* entries that were committed
    replied     \* batches that were answered

vars == <<row, used, request, list, posts, committed, replied>>

\* A request between two entries.
Between(ph, b, n) == [phase |-> ph, batch |-> b, at |-> n, id |-> None, work |-> None]

\* A request that is storing the entry it is at.
Storing(st, ph, i, w) == [phase |-> ph, batch |-> st.batch, at |-> st.at, id |-> i, work |-> w]

Idle == Between("idle", None, 0)

NoList == [todo |-> {}, parents |-> [i \in Ids |-> None], found |-> {}, count |-> 0]

Init ==
    /\ row = [i \in Ids |-> None]
    /\ used = {}
    /\ request = [r \in Requests |-> Idle]
    /\ list = NoList
    /\ posts = 0
    /\ committed = {}
    /\ replied = {}

-----------------------------------------------------------------------------
Goto(r, st) == request' = [request EXCEPT ![r] = st]

Entry(r) == EntriesOf[request[r].batch][request[r].at]

\* The entries after the n-th that validation lets through; the others are
\* reported as rejected and skipped.
Pending(b, n) == {i \in DOMAIN EntriesOf[b] : i > n /\ EntriesOf[b][i] \in Safe}

\* Mutant: the loop takes the next entry without looking whether there is one.
ResumeUnchecked(r, b, n) == Goto(r, Between("lookup", b, n + 1))

Least(k, S) == k \in S /\ \A j \in S : k <= j

\* The loop of upsertActivitySessions after n entries, up to its next await.
Resume(r, b, n) ==
    \/ Pending(b, n) = {} /\ Goto(r, Between("reply", b, 0))
    \/ \E k \in Pending(b, n) : Least(k, Pending(b, n)) /\ Goto(r, Between("lookup", b, k))

Post(r, b) ==
    /\ request[r].phase = "idle"
    /\ posts < MaxPosts
    /\ posts' = posts + 1
    /\ Resume(r, b, 0)
    /\ UNCHANGED <<row, used, list, committed, replied>>

Stored(c) == {i \in Ids : row[i] # None /\ row[i].client = c}

\* The upsert is not a statement of the database: first a SELECT ...
Lookup(r) ==
    LET c == ClientOf[Entry(r)]
    IN  /\ request[r].phase = "lookup"
        /\ \/ Stored(c) = {} /\ Goto(r, Storing(request[r], "write", None, None))
           \/ \E i \in Stored(c) : Goto(r, Storing(request[r], "write", i, None))
        /\ UNCHANGED <<row, used, list, posts, committed, replied>>

\* Mutant: the database lets a write pass another open transaction's.
NeverLocked(c, r) == FALSE

\* Another open transaction has written the row, or the key, of c.
Locked(c, r) ==
    \E q \in Requests \ {r} : request[q].work # None /\ request[q].work.client = c

\* Mutant: no unique index.
NotTaken(c) == FALSE

\* The unique index on (userId, clientSessionId).
KeyTaken(c) == Stored(c) # {}

Fresh(e) == [client |-> ClientOf[e], by |-> e, edit |-> 1, groups |-> [g \in Groups |-> {}]]

\* Mutant: the batch goes on as if the entry had been stored.
Passed(r) == Resume(r, request[r].batch, request[r].at)

\* The error of one entry ends the batch.
Refused(r) == Goto(r, Idle)

\* ... then an INSERT if it found nothing, refused when another batch has
\* stored the session meanwhile ...
Insert(r, i) ==
    LET e == Entry(r)
    IN  /\ request[r].phase = "write"
        /\ request[r].id = None
        /\ ~Locked(ClientOf[e], r)
        /\ IF KeyTaken(ClientOf[e])
           THEN Refused(r) /\ UNCHANGED used
           ELSE /\ i \in Ids \ used
                /\ used' = used \cup {i}
                /\ Goto(r, Storing(request[r], "replace", i, Fresh(e)))
        /\ UNCHANGED <<row, list, posts, committed, replied>>

\* toWritableFields: every column but the client's id comes from the entry.
Rewritten(old, e) == [client |-> old.client, by |-> e, edit |-> old.edit + 1, groups |-> old.groups]

\* Mutant: the update is a statement of its own, before the transaction.
UpdateAtOnce(r) ==
    LET e == Entry(r)
        i == request[r].id
    IN  /\ request[r].phase = "write"
        /\ i # None
        /\ ~Locked(ClientOf[e], r)
        /\ IF row[i] = None
           THEN Refused(r) /\ UNCHANGED row
           ELSE /\ Goto(r, Storing(request[r], "replace", i, Rewritten(row[i], e)))
                /\ row' = [row EXCEPT ![i] = Rewritten(@, e)]
        /\ UNCHANGED <<used, list, posts, committed, replied>>

\* ... or an UPDATE of the row it found, which fails when that row was deleted.
Update(r) ==
    LET e == Entry(r)
        i == request[r].id
    IN  /\ request[r].phase = "write"
        /\ i # None
        /\ ~Locked(ClientOf[e], r)
        /\ IF row[i] = None
           THEN Refused(r)
           ELSE Goto(r, Storing(request[r], "replace", i, Rewritten(row[i], e)))
        /\ UNCHANGED <<row, used, list, posts, committed, replied>>

\* Mutant: the old elements stay.
MergedGroups(w) ==
    [g \in Groups |-> w.groups[g] \cup
                        (IF g \in GroupsOf[w.by] THEN {[by |-> w.by, edit |-> w.edit]} ELSE {})]

\* The four deleteMany and the createMany of the groups that are not empty.
ReplacedGroups(w) ==
    [g \in Groups |-> IF g \in GroupsOf[w.by] THEN {[by |-> w.by, edit |-> w.edit]} ELSE {}]

WithGroups(w, groups) == [client |-> w.client, by |-> w.by, edit |-> w.edit, groups |-> groups]

Replace(r) ==
    LET w == request[r].work
    IN  /\ request[r].phase = "replace"
        /\ Goto(r, Storing(request[r], "commit", request[r].id, WithGroups(w, ReplacedGroups(w))))
        /\ UNCHANGED <<row, used, list, posts, committed, replied>>

\* The transaction commits and the loop goes on.
Commit(r) ==
    LET st == request[r]
    IN  /\ st.phase = "commit"
        /\ row' = [row EXCEPT ![st.id] = st.work]
        /\ committed' = committed \cup {Entry(r)}
        /\ Resume(r, st.batch, st.at)
        /\ UNCHANGED <<used, list, posts, replied>>

Reply(r) ==
    /\ request[r].phase = "reply"
    /\ replied' = replied \cup {request[r].batch}
    /\ Goto(r, Idle)
    /\ UNCHANGED <<row, used, list, posts, committed>>

\* A statement fails or the process dies: the open transaction is rolled back,
\* the entries before it stay.
Abandon(r) ==
    /\ request[r].phase # "idle"
    /\ Goto(r, Idle)
    /\ UNCHANGED <<row, used, list, posts, committed, replied>>

\* deleteActivitySession: one DELETE that cascades to the children, after any
\* open transaction on the row.
DeleteSession(i) ==
    /\ row[i] # None
    /\ \A r \in Requests : request[r].work = None \/ request[r].id # i
    /\ row' = [row EXCEPT ![i] = None]
    /\ UNCHANGED <<used, request, list, posts, committed, replied>>

-----------------------------------------------------------------------------
\* listActivitySessions: the sessions are one query ...
BeginList ==
    /\ list.todo = {}
    /\ list.count < MaxLists
    /\ list' = [todo |-> Groups, found |-> {}, count |-> list.count + 1,
                parents |-> [i \in Ids |-> IF row[i] = None THEN None
                                            ELSE [by |-> row[i].by, edit |-> row[i].edit]]]
    /\ UNCHANGED <<row, used, request, posts, committed, replied>>

\* The elements that a query of a child table finds for the listed sessions.
Children(g) ==
    UNION {{[group |-> g, id |-> i, stamp |-> s] : s \in row[i].groups[g]} :
             i \in {i \in Ids : list.parents[i] # None /\ row[i] # None}}

\* ... and each child table is another, later one.
ListGroup(g) ==
    /\ g \in list.todo
    /\ list' = [todo |-> list.todo \ {g}, found |-> list.found \cup Children(g),
                count |-> list.count, parents |-> list.parents]
    /\ UNCHANGED <<row, used, request, posts, committed, replied>>

Next ==
    \/ \E r \in Requests, b \in Batches : Post(r, b)
    \/ \E r \in Requests : Lookup(r)
    \/ \E r \in Requests, i \in Ids : Insert(r, i)
    \/ \E r \in Requests : Update(r)
    \/ \E r \in Requests : Replace(r)
    \/ \E r \in Requests : Commit(r)
    \/ \E r \in Requests : Reply(r)
    \/ \E r \in Requests : Abandon(r)
    \/ \E i \in Ids : DeleteSession(i)
    \/ BeginList
    \/ \E g \in Groups : ListGroup(g)

Spec == Init /\ [][Next]_vars

-----------------------------------------------------------------------------
Found == [group: Groups, id: Ids, stamp: Stamp]

Listing == [todo: SUBSET Groups, parents: [Ids -> Stamp \cup {None}],
            found: SUBSET Found, count: Nat]

\* What a request holds in each phase.
WellFormed(st) ==
    /\ st.phase # "idle" => st.batch \in Batches
    /\ st.phase \in {"lookup", "write", "replace", "commit"} =>
         st.at \in DOMAIN EntriesOf[st.batch]
    /\ st.work # None <=> st.phase \in {"replace", "commit"}
    /\ st.work # None => st.id \in Ids

TypeOK ==
    /\ row \in [Ids -> Row \cup {None}]
    /\ used \subseteq Ids
    /\ request \in [Requests -> Request]
    /\ \A r \in Requests : WellFormed(request[r])
    /\ list \in Listing
    /\ posts \in Nat
    /\ committed \subseteq Entries
    /\ replied \subseteq Batches

\* Two batches that both found no session of a clientSessionId still store one
\* (sync.repository.ts:80-91; README.md:42).
OneRowPerClientSession ==
    \A i, j \in Ids : row[i] # None /\ row[j] # None /\ row[i].client = row[j].client => i = j

\* The children of a stored session are those of the upload its own columns
\* come from, in every table and none left over, whatever batches and
\* deletions overlapped (sync.repository.ts:79-125).
GroupsAsUploaded ==
    \A i \in Ids : row[i] # None =>
        \A g \in Groups :
            row[i].groups[g] = IF g \in GroupsOf[row[i].by]
                               THEN {[by |-> row[i].by, edit |-> row[i].edit]} ELSE {}

\* A batch that was answered lost none of its valid entries
\* (sync.service.ts:287-318).
AnsweredBatchStored ==
    \A b \in replied : {EntriesOf[b][i] : i \in Pending(b, 0)} \subseteq committed

\* A listing can pair a session with children that came later, since its
\* queries see different moments; but never with earlier ones, and a child
\* table never mixes two uploads (sync.repository.ts:133-158).
ListNotBehind ==
    \A x \in list.found :
        LET p == list.parents[x.id]
        IN  /\ x.stamp.edit >= p.edit
            /\ x.stamp.edit = p.edit => x.stamp.by = p.by
            /\ \A y \in list.found : y.id = x.id /\ y.group = x.group => y.stamp = x.stamp

-----------------------------------------------------------------------------
\* The session that a clientSessionId stands for, without its row id.
SessionsOf(c) ==
    {[by |-> row[i].by, edit |-> row[i].edit, groups |-> row[i].groups] : i \in Stored(c)}

Table == INSTANCE SessionTable WITH table <- [c \in Clients |-> SessionsOf(c)]

\* The steps of a batch's transactions, of deletions and of failures between
\* them come to whole sessions stored one after the other, none of them lost
\* under another one, and none that the validator refuses; and an answer to
\* that many (sync.repository.ts:74-131; sync.service.ts:295-326).
TableKept == Table!Spec
=============================================================================
