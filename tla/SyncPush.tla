------------------------------ MODULE SyncPush ------------------------------
(***************************************************************************)
(* POST /sync/push and GET /sync/pull of one user: SyncService             *)
(* (src/src/sync/sync.service.ts) with the writes it delegates to          *)
(* CharactersService.upsertSnapshot and SessionsService.createSummary, and *)
(* PATCH /users/me, which writes the same settings.  PUT                   *)
(* /characters/me/snapshot and POST /sessions/summary make the statements  *)
(* of a push without a key that carries that one item.                     *)
(*                                                                         *)
(*   push:  Push --> (Catalogue) --> SaveRow --> Mirror   for each item    *)
(*               --> ReadProfile --> WriteProfile --> MirrorProfile        *)
(*               --> Remember --> Answer                                   *)
(*   pull:  BeginPull --> ReadPart (four queries, in any order)            *)
(*   patch: UpdateMe, one statement of UsersService                        *)
(*                                                                         *)
(* A push suspends between its steps and nothing undoes the earlier ones.  *)
(* Contents of rows are left out; a row is its revision, 0 before it is    *)
(* inserted.  An item that validation refuses ends the push like any       *)
(* other failure (Abandon): the items before it stay stored.               *)
(***************************************************************************)
EXTENDS Integers, Sequences, FiniteSets

CONSTANTS
    Requests,        \* pushes that can be in flight at the same time
    Pushes,          \* contents of pushes
    Keys,            \* idempotency keys
    KeyOf,           \* push -> its idempotencyKey, or None
    Character,       \* the character row
    Sessions,        \* ids of session summaries
    Achievements,    \* codes of achievements
    Items,           \* push -> its rows, in the order they are stored
    SettingsFields,  \* fields of dto.settings
    Progression,     \* the field userProgression
    WithSettings,    \* pushes that carry dto.settings
    Given,           \* push -> the fields of the profile it gives a value
    Patches,         \* the settings that PATCH /users/me carries, as sets of fields
    PageSize,        \* `take` of a pull's query for summaries, 200 in the code
    MaxStarts,       \* bound on the requests a client sends for one push
    MaxFailures,     \* bound on failures
    MaxPulls,        \* bound on pulls
    None

Entities == {Character} \cup Sessions \cup Achievements
Fields == SettingsFields \cup {Progression}
Profile == "profile"

ASSUME PushesAssumption ==
    /\ KeyOf \in [Pushes -> Keys \cup {None}]
    /\ Items \in [Pushes -> Seq(Entities)]
    /\ WithSettings \subseteq Pushes
    /\ Given \in [Pushes -> SUBSET Fields]
    /\ \A p \in Pushes \ WithSettings : Given[p] \subseteq {Progression}
    /\ Patches \subseteq SUBSET SettingsFields
    /\ PageSize \in Nat

\* A client uses a key for one content.
ASSUME KeysDistinct ==
    /\ None \notin Keys
    /\ \A p, q \in Pushes : KeyOf[p] # None /\ KeyOf[p] = KeyOf[q] => p = q

ASSUME NamesDistinct ==
    None \notin Entities \cup Pushes /\ Profile \notin Entities

Phase == {"idle", "catalogue", "row", "mirror", "read", "write", "mirrorProfile",
          "remember", "ok", "replay"}

\* What a push holds across an await: done counts the items stored, saved is
\* the revision of the row just written, rev the largest so far, settings the
\* fields read from the user.  wrote is not stored by the program.
Request == [phase: Phase, push: Pushes \cup {None}, done: Nat, saved: Nat, rev: Nat,
            settings: SUBSET Fields, wrote: SUBSET (Entities \cup {Profile})]

Parts == {"character", "sessions", "achievements", "sync"}

VARIABLES
    row,         \* entity -> serverRevision of its row
    deleted,     \* session summaries with a deletedAt
    catalogue,   \* codes in the Achievement table
    settings,    \* fields present in User.settings
    sync,        \* entity or profile -> serverRevision of its SyncState
    remembered,  \* key -> serverRevision of its SyncState
    request,     \* the pushes in flight
    pull,        \* the pull in flight, or the last one
    starts,      \* push -> requests sent for it
    failures,    \* failures so far
    answered,    \* pushes whose reply reached the client
    applied,     \* pushes that were stored as a whole
    accepted,    \* key -> replies 'ok'
    answers      \* <<key, revision>> in replies

tables == <<row, deleted, catalogue, settings, sync, remembered>>
client == <<starts, failures, answered>>
history == <<applied, accepted, answers>>
vars == <<tables, request, pull, client, history>>

HasProfile(p) == p \in WithSettings \/ Progression \in Given[p]

\* Everything a push asks to be stored.
Targets(p) ==
    {Items[p][i] : i \in DOMAIN Items[p]} \cup (IF HasProfile(p) THEN {Profile} ELSE {})

\* Mutant: the request is not told which push it carries.
StartedBlank(ph, p, rev) ==
    [phase |-> ph, push |-> None, done |-> 0, saved |-> 0, rev |-> rev,
     settings |-> {}, wrote |-> {}]

\* A request that has stored nothing yet.
Started(ph, p, rev) ==
    [phase |-> ph, push |-> p, done |-> 0, saved |-> 0, rev |-> rev,
     settings |-> {}, wrote |-> {}]

Idle == Started("idle", None, 0)

Init ==
    /\ row = [e \in Entities |-> 0]
    /\ deleted = {}
    /\ catalogue = {}
    /\ settings = {}
    /\ sync = [e \in Entities \cup {Profile} |-> 0]
    /\ remembered = [k \in Keys |-> 0]
    /\ request = [r \in Requests |-> Idle]
    /\ pull = [todo |-> {}, rev |-> 1, floor |-> 1, count |-> 0]
    /\ starts = [p \in Pushes |-> 0]
    /\ failures = 0
    /\ answered = {}
    /\ applied = {p \in Pushes : Targets(p) = {}}
    /\ accepted = [k \in Keys |-> 0]
    /\ answers = {}

-----------------------------------------------------------------------------
Larger(a, b) == IF a > b THEN a ELSE b

AfterItems(p) ==
    IF HasProfile(p) THEN "read" ELSE IF KeyOf[p] # None THEN "remember" ELSE "ok"

\* The loop over the items: where a push goes once n of them are stored.
PhaseAfter(p, n) ==
    IF n = Len(Items[p]) THEN AfterItems(p)
    ELSE IF Items[p][n + 1] \in Achievements THEN "catalogue" ELSE "row"

Item(r) == Items[request[r].push][request[r].done + 1]

Goto(r, st) == request' = [request EXCEPT ![r] = st]

\* A request that moves on without a result to keep.
Holding(st, ph, fields) ==
    [phase |-> ph, push |-> st.push, done |-> st.done, saved |-> 0,
     rev |-> st.rev, settings |-> fields, wrote |-> st.wrote]

\* push up to its first await: the lookup of the key.  A client sends a push
\* until it has an answer, even while an earlier request is in flight.
Push(r, p) ==
    LET k == KeyOf[p]
    IN  /\ request[r].phase = "idle"
        /\ p \notin answered
        /\ starts[p] < MaxStarts
        /\ starts' = [starts EXCEPT ![p] = @ + 1]
        /\ IF k # None /\ remembered[k] # 0
           THEN Goto(r, Started("replay", p, remembered[k]))
           ELSE Goto(r, Started(PhaseAfter(p, 0), p, 1))
        /\ UNCHANGED <<tables, pull, failures, answered, history>>

\* upsertAchievement: the entry of the catalogue.
Catalogue(r) ==
    /\ request[r].phase = "catalogue"
    /\ catalogue' = catalogue \cup {Item(r)}
    /\ Goto(r, Holding(request[r], "row", {}))
    /\ UNCHANGED <<row, deleted, settings, sync, remembered, pull, client, history>>

\* A request that has just written a row and holds its revision.
Saved(st, rev) ==
    [phase |-> "mirror", push |-> st.push, done |-> st.done, saved |-> rev,
     rev |-> st.rev, settings |-> {}, wrote |-> st.wrote]

\* The upsert of a row: the database increments its revision, a deleted summary
\* comes back.
SaveRow(r) ==
    LET e == Item(r)
    IN  /\ request[r].phase = "row"
        /\ row' = [row EXCEPT ![e] = @ + 1]
        /\ deleted' = deleted \ {e}
        /\ Goto(r, Saved(request[r], row[e] + 1))
        /\ UNCHANGED <<catalogue, settings, sync, remembered, pull, client, history>>

\* A push all of whose parts some request has stored.
AppliedBy(p, wrote) == IF Targets(p) \subseteq wrote THEN applied \cup {p} ELSE applied

\* A request that is done with an item.
Stored(st, wrote) ==
    [phase |-> PhaseAfter(st.push, st.done + 1), push |-> st.push, done |-> st.done + 1,
     saved |-> 0, rev |-> Larger(st.rev, st.saved), settings |-> {}, wrote |-> wrote]

\* The upsert of the row's SyncState, with the revision read before the await.
Mirror(r) ==
    LET st == request[r]
        wrote == st.wrote \cup {Item(r)}
    IN  /\ st.phase = "mirror"
        /\ sync' = [sync EXCEPT ![Item(r)] = st.saved]
        /\ Goto(r, Stored(st, wrote))
        /\ applied' = AppliedBy(st.push, wrote)
        /\ UNCHANGED <<row, deleted, catalogue, settings, remembered, pull, client, accepted, answers>>

\* upsertProfile: the settings are read, merged outside the database ...
ReadProfile(r) ==
    /\ request[r].phase = "read"
    /\ Goto(r, Holding(request[r], "write", settings))
    /\ UNCHANGED <<tables, pull, client, history>>

\* ... so that dto.settings replaces all its fields, also those it leaves out ...
Merged(fields, p) ==
    (IF p \in WithSettings THEN fields \ SettingsFields ELSE fields) \cup Given[p]

\* ... and written back as a whole.
WriteProfile(r) ==
    /\ request[r].phase = "write"
    /\ settings' = Merged(request[r].settings, request[r].push)
    /\ Goto(r, Holding(request[r], "mirrorProfile", {}))
    /\ UNCHANGED <<row, deleted, catalogue, sync, remembered, pull, client, history>>

\* A request that is done with the profile.
Finished(st, rev, wrote) ==
    [phase |-> IF KeyOf[st.push] # None THEN "remember" ELSE "ok", push |-> st.push,
     done |-> st.done, saved |-> 0, rev |-> Larger(st.rev, rev), settings |-> {}, wrote |-> wrote]

MirrorProfile(r) ==
    LET st == request[r]
        rev == sync[Profile] + 1
        wrote == st.wrote \cup {Profile}
    IN  /\ st.phase = "mirrorProfile"
        /\ sync' = [sync EXCEPT ![Profile] = rev]
        /\ Goto(r, Finished(st, rev, wrote))
        /\ applied' = AppliedBy(st.push, wrote)
        /\ UNCHANGED <<row, deleted, catalogue, settings, remembered, pull, client, accepted, answers>>

\* Mutant: the unique index covers the user alone.
TakenForUser(k) == \E j \in Keys : remembered[j] # 0

\* Mutant: no unique index on the key.
NotTaken(k) == FALSE

\* The unique index on (userId, idempotencyKey).
KeyTaken(k) == remembered[k] # 0

\* The SyncState of the key; when another request has stored it, this one ends
\* in an error after all its writes.
Remember(r) ==
    LET k == KeyOf[request[r].push]
    IN  /\ request[r].phase = "remember"
        /\ IF KeyTaken(k)
           THEN Goto(r, Idle) /\ UNCHANGED remembered
           ELSE /\ remembered' = [remembered EXCEPT ![k] = request[r].rev]
                /\ Goto(r, Holding(request[r], "ok", {}))
        /\ UNCHANGED <<row, deleted, catalogue, settings, sync, pull, client, history>>

\* The reply reaches the client.
Answer(r) ==
    LET st == request[r]
        k == KeyOf[st.push]
    IN  /\ st.phase \in {"ok", "replay"}
        /\ answered' = answered \cup {st.push}
        /\ accepted' = IF k # None /\ st.phase = "ok"
                       THEN [accepted EXCEPT ![k] = @ + 1] ELSE accepted
        /\ answers' = IF k # None THEN answers \cup {<<k, st.rev>>} ELSE answers
        /\ Goto(r, Idle)
        /\ UNCHANGED <<tables, pull, starts, failures, applied>>

\* A statement fails, an item is refused, the process dies, the reply is lost.
Abandon(r) ==
    /\ request[r].phase # "idle"
    /\ failures < MaxFailures
    /\ failures' = failures + 1
    /\ Goto(r, Idle)
    /\ UNCHANGED <<tables, pull, starts, answered, history>>

\* DELETE /sessions/summary/:id.
DeleteSummary(s) ==
    /\ row[s] # 0
    /\ s \notin deleted
    /\ deleted' = deleted \cup {s}
    /\ UNCHANGED <<row, catalogue, settings, sync, remembered, request, pull, client, history>>

\* UsersService.updateMe: the document is replaced in one statement, with all
\* its fields, those that UserSettingsDto does not know included.
UpdateMe(fields) ==
    /\ settings' = fields
    /\ UNCHANGED <<row, deleted, catalogue, sync, remembered, request, pull, client, history>>

-----------------------------------------------------------------------------
Largest(m, revisions) == m \in revisions /\ \A n \in revisions : m >= n

\* The five queries of a pull start together (the one for the profile carries
\* no revision).  floor remembers what keyed pushes had been answered by then.
BeginPull ==
    /\ pull.todo = {}
    /\ pull.count < MaxPulls
    /\ \E floor \in {1} \cup {a[2] : a \in answers} :
         /\ Largest(floor, {1} \cup {a[2] : a \in answers})
         /\ pull' = [todo |-> Parts, rev |-> 1, floor |-> floor, count |-> pull.count + 1]
    /\ UNCHANGED <<tables, request, client, history>>

\* A page of summaries: all of them, or PageSize of them; which ones are the
\* latest is left open.
Page(S) ==
    LET live == {s \in Sessions \ deleted : row[s] # 0}
    IN  /\ S \subseteq live
        /\ \/ S = live /\ Cardinality(live) <= PageSize
           \/ Cardinality(S) = PageSize

\* Mutant: without the SyncState rows.
PartWithoutSync(x, page) ==
    CASE x = "character"    -> {row[Character]}
      [] x = "sessions"     -> {row[s] : s \in page}
      [] x = "achievements" -> {row[a] : a \in Achievements}
      [] x = "sync"         -> {}

\* The revisions each query finds.
Part(x, page) ==
    CASE x = "character"    -> {row[Character]}
      [] x = "sessions"     -> {row[s] : s \in page}
      [] x = "achievements" -> {row[a] : a \in Achievements}
      [] x = "sync"         -> {sync[e] : e \in Entities \cup {Profile}} \cup {remembered[k] : k \in Keys}

ReadPart(x) ==
    /\ x \in pull.todo
    /\ \E page \in SUBSET Sessions :
         /\ Page(page)
         /\ \E rev \in {pull.rev} \cup Part(x, page) :
              /\ Largest(rev, {pull.rev} \cup Part(x, page))
              /\ pull' = [todo |-> pull.todo \ {x}, rev |-> rev, floor |-> pull.floor,
                          count |-> pull.count]
    /\ UNCHANGED <<tables, request, client, history>>

Step(r) ==
    \/ Catalogue(r)
    \/ SaveRow(r)
    \/ Mirror(r)
    \/ ReadProfile(r)
    \/ WriteProfile(r)
    \/ MirrorProfile(r)
    \/ Remember(r)
    \/ Answer(r)

Next ==
    \/ \E r \in Requests, p \in Pushes : Push(r, p)
    \/ \E r \in Requests : Step(r)
    \/ \E r \in Requests : Abandon(r)
    \/ \E s \in Sessions : DeleteSummary(s)
    \/ \E fields \in Patches : UpdateMe(fields)
    \/ BeginPull
    \/ \E x \in Parts : ReadPart(x)

Spec == Init /\ [][Next]_vars

\* The event loop resumes every push whose statement has been executed, and a
\* client with an unanswered push in its queue sends it again.
LiveSpec ==
    /\ Spec
    /\ \A r \in Requests : WF_vars(Step(r))
    /\ \A p \in Pushes : WF_vars(\E r \in Requests : Push(r, p))

-----------------------------------------------------------------------------
TypeOK ==
    /\ row \in [Entities -> Nat]
    /\ deleted \subseteq Sessions
    /\ catalogue \subseteq Achievements
    /\ settings \subseteq Fields
    /\ sync \in [Entities \cup {Profile} -> Nat]
    /\ remembered \in [Keys -> Nat]
    /\ request \in [Requests -> Request]
    /\ \A r \in Requests : request[r].phase # "idle" => request[r].push \in Pushes
    /\ pull \in [todo: SUBSET Parts, rev: Nat, floor: Nat, count: Nat]
    /\ starts \in [Pushes -> Nat]
    /\ failures \in Nat
    /\ answered \subseteq Pushes
    /\ applied \subseteq Pushes
    /\ accepted \in [Keys -> Nat]
    /\ answers \subseteq (Keys \X Nat)

Contract == INSTANCE PushContract WITH record <- remembered

\* Push keeps its promise about idempotency keys, with concurrent and repeated
\* requests for the same key, failures between any two steps, and summaries
\* deleted meanwhile (sync.service.ts:170-195, 241-253).
ContractKept == Contract!Spec

\* A pull that starts after a keyed push was answered returns at least the
\* revision of that answer, although its queries see different moments and the
\* rows of the push may have been deleted, left out of the page, or their
\* SyncStates overwritten by a slower push (sync.service.ts:105-138).
PullNotBehind == pull.todo = {} => pull.rev >= pull.floor

\* A client that repeats a push until it is answered is answered in the end,
\* whatever failed before and whatever other pushes do.
EveryPushAnswered == \A p \in Pushes : <>(p \in answered)

\* 'additive/upsert-only', 'settings partial sync': a push that stores some
\* settings removes no other field of the profile (sync.service.ts:454-482).
SettingsAdditive == [][\A r \in Requests : WriteProfile(r) => settings \subseteq settings']_vars
=============================================================================
