# TokenForgeCoreServer in TLA+

Models, model-checking runs and machine-checked proofs for the server in `src/`:
a NestJS application over PostgreSQL (through Prisma) that stores the accounts,
session summaries, activity sessions, achievements and character of users whose
clients work offline and synchronise later.

The server keeps no state of its own between requests. Everything that can go
wrong happens in the database, between the statements of handlers that overlap:
a handler is `async`, suspends at every `await`, and another request, another
process or a failure comes in between. Therefore each model has the tables as
variables, the requests in flight with what they hold across an `await`, and one
action per stretch of code from one `await` to the next.

## Contents

| File | What it is |
|---|---|
| `SessionSummaries.tla` | uploads and deletions of session summaries, the daily cap, their SyncState |
| `Accounts.tla` | users, refresh tokens, account deletion, erasure |
| `PushContract.tla` | abstract: what an idempotency key promises |
| `SyncPush.tla` | `POST /sync/push`, `GET /sync/pull`, `PATCH /users/me`; implements `PushContract` |
| `SessionTable.tla` | abstract: what uploading and deleting activity sessions promises |
| `ActivitySessions.tla` | batches of activity sessions, their deletion and listing; implements `SessionTable` |
| `Payloads.tla` | JSON bodies, the rules of the privacy guard, of the DTO classes and of the safe sync validator |
| `Intake.tla` | the way of a body through guard, pipe, service and validator |
| `ClientContract.tla` | the client contract bundle and its script, composed with `Intake` |
| `*Proofs.tla` | theorems about the module of that name, checked by TLAPS (`IntakeProofs.tla` is about `ClientContract`, too) |
| `SetInduction.tla`, `FiniteSums.tla` | lemmas that the proofs share: induction over numbers and finite sets, sums over finite sets |
| `MC*.tla`, `*.cfg` | instances for TLC |
| `PROJECT.json` | components, runs, mutants, source map, findings, hazards, theorems |

A definition whose comment says *Mutant:* is a plausible bug that is used
nowhere in the models; putting it in the place of the definition it stands next
to must break a property, which shows that the property says something about
the code.

## Inventory

### Components

**Accounts** (`src/src/auth/auth.service.ts`, `src/src/privacy/privacy.service.ts`).
State: `User`, `AuthAccount`, `RefreshToken`, `DeletedDataAudit`. Operations:
`createGuest`, `signup`, `login`, `refresh`, `logout`,
`requestAccountDeletion`, `deleteUserData`, `exportUserData` (reads only). Hard:
`signup` and `login` await bcrypt between a lookup and a write; `refresh` checks
a token in one statement and rotates it in a later transaction; every reply can
be lost after the writes; the cascade of an erasure meets requests of the same
user in flight; the audit row of an erasure is written before the erasure.
Correct means: a token belongs to an existing user, rotation leaves a chain and
never revives a token, one user per email, a guest is not locked out by the
server's own doing, nothing is erased without an audit.

**Session summaries** (`src/src/sessions/sessions.service.ts`). State:
`SessionSummary` and the `SyncState` rows of that entity type. Operations:
`createSummary`, `deleteSummary`, `listSummaries`. Hard: `createSummary` is
three statements (sum of the day, upsert of the row, upsert of its SyncState)
and holds the midnight it computed before the first and the revision it read
from the second. Correct means: caps hold, the SyncState follows its summary,
a row's history is one of revisions.

**Synchronisation** (`src/src/sync/sync.service.ts`). State: all of the rows a
push may carry, `User.settings`, `SyncState` with idempotency keys. Operations:
`push`, `pull`. It calls `CharactersService.upsertSnapshot` and
`SessionsService.createSummary` for its items. Hard: a push is up to a few
hundred statements without a transaction around them; it is repeated by clients
that saw no answer; its idempotency key is looked up first and recorded last; a
pull is five queries at once. Correct means: the promise of the key.

**Activity sessions** (`src/src/sync/sync.repository.ts` and the second half of
`sync.service.ts`). State: `ActivitySession` and four child tables. Operations:
`upsertActivitySessions`, `listActivitySessions`, `deleteActivitySession`. Hard:
one interactive transaction per entry of a batch, at READ COMMITTED, with an
upsert that Prisma executes as SELECT and then INSERT or UPDATE; listings are
several queries outside any transaction.

**Characters** (`src/src/characters/characters.service.ts`): `upsertSnapshot`
and `getMe`, over `Character` and its `SyncState`.

**Users** (`src/src/users/users.service.ts`): `updateMe` replaces fields of
`User`, the settings document among them, which pushes merge into. Hard: it is a
second writer of a document that a push reads, merges in memory and writes back.

**Payload rules**: three rule sets that every body passes, one after the other:
`src/src/privacy/privacy-guard.service.ts` (names and texts, with a policy per
handler), the DTO classes under the `ValidationPipe` of `src/src/main.ts`, and
for activity sessions
`src/src/sync/validators/safe-sync-payload.validator.ts`. No state. Hard: they
are kept by hand in three places and must agree, they descend into nested
bodies, and they decide between refusing a whole request and rejecting an entry
of it. Correct means: nothing raw reaches a service, nothing plain is refused,
the later rules agree with the earlier ones.

**Contract scripts** (`src/scripts/`): checks that run before a release.
`validate-client-contract-bundle.ts` asks the payload rules about the example
requests that the client is built from, and compares lists of the bundle with
those of the code and of the OpenAPI document.

**Around them**: access tokens (`jwt.strategy.ts`, stateless), the HTTP
pipeline (`main.ts`, filters, logging), achievements and health (reads). Documents and the OpenAPI files are used as the statement
of what the code is meant to do.

### Interaction

Services share tables, not objects. `SyncService.push` calls the session and
character services in its own flow, so the steps of `createSummary` appear a
second time in `SyncPush`, with the row content abstracted to its revision.
`deleteUserData` reaches every table through cascades. The privacy guard and the
pipe stand before every handler; `upsertActivitySessions` calls the validator
itself. The only callers are HTTP
requests; nothing is scheduled and nothing is sent.

### Hazards

`PROJECT.json` lists them with the lines where they bite and the properties that
would catch them: interleavings of overlapping requests of one user, checks
separated from the writes they guard, revisions held across an `await`, deaths
between two statements, replies lost and requests repeated, a few sequential ones
(uploading an old session again, pushing some of the settings), and rule sets
that disagree.

## Modules

In those with a database, `request` has the slots for requests in flight; a request
in phase `"idle"` is no request. `Abandon` stands for a failing statement, a
dying process or a lost reply: the request ends and what it has written stays.
Their inputs are what the DTOs let through. Statements that Prisma passes to
PostgreSQL as one (`create`, `update`, `updateMany`, native
`INSERT ... ON CONFLICT` for `SessionSummary` and `SyncState`, array
transactions) are one action.

### SessionSummaries

One user. `rows` is the `SessionSummary` table reduced to experience, the
bucket that bounds it, revision, day of creation and deletion mark; `sync` its
SyncStates. `Begin` is the call up to the aggregate (with the bound by
`maxAllowedExp`, here the parameter `ExpCap`), `Aggregate` the daily cap,
`UpsertRow` and `UpsertSync` the two upserts, `DeleteSummary` the `updateMany`,
`Midnight` the passing of the day. `lost` counts uploads that died between the
two upserts; it is not stored by the program.

### Accounts

Any number of users, who can be guests or have an email. Password checks, hash
costs and the formats of tokens are left out: a token is a value nobody has seen
before. `born`, `minted`, `held`, `clients` and `forfeited` are history: ids and
tokens that were generated, tokens and users that reached a client, users who
gave a token up or missed a reply. An access token does not expire in the model,
so a client can do more than in the program. `SignupLookup`..`SignupCreate` and
`RefreshLookup`..`Rotate` are separated by the `await`s of bcrypt and of the
lookup; `Rotate` is the transaction, which updates by id and so fails only when
the row is gone.

### PushContract and SyncPush

`PushContract` says what a client may rely on when it gives a push a key: the
key is recorded once and only after everything in the push was stored; at most
one request is told `ok`; every reply for the key carries the recorded revision.

`SyncPush` has the push as it is: `Push` looks the key up and replays or starts;
each item is `SaveRow` and `Mirror` (for achievements `Catalogue` first), in the
order of the code; the settings are `ReadProfile`, `WriteProfile`,
`MirrorProfile`; `Remember` inserts the SyncState of the key, and fails when
another request for the key was faster; `Answer` is the reply. Rows are reduced
to their revision. `BeginPull` and `ReadPart` are the pull, with its queries in
any order; the query for summaries finds a page of `PageSize` of them (200 in
the code), any page, since times of update are not modelled. `UpdateMe` is `PATCH
/users/me`, one statement that replaces the settings with all their fields. A client sends a push again until it has an answer, also while an
earlier request is running. `applied`, `accepted`, `answers` and the field
`wrote` are history variables for the contract.

The refinement is `Contract == INSTANCE PushContract WITH record <- remembered`;
the other variables have the same names. A push without a key changes nothing in
the contract but `applied`. `PUT /characters/me/snapshot` and `POST
/sessions/summary` make the same statements as a push without a key that
carries that one item; such a push stands for them.

### SessionTable and ActivitySessions

`SessionTable` has no requests, row ids or transactions: under a clientSessionId
there is no session or one, which is stored whole with its children as the next
edit of what is there (`Store`), or removed (`Remove`); a batch is answered
(`Answer`) when all of its valid entries have been stored.

`ActivitySessions` has one user. `row` has the columns of a session as the entry they come from and the
number of the write (`edit`, the `updatedAt`), and for each child table the
entries and edits its elements came with, so that a child of another upload can
be told from a child of this one. `Lookup` is the SELECT of the upsert;
`Insert`/`Update` the write, which waits while another open transaction has
written the row or its unique key (`Locked`) and then sees what that one
committed; `Replace` the deletes and inserts of the children; `Commit` makes it
visible and lets the loop go on. An open transaction's version of the row is in
`work` and nobody else sees it. An entry that `validateSession` refuses is
reported and skipped (`Pending`). `BeginList` and `ListGroup` are the queries of
a listing.

The refinement is `Table == INSTANCE SessionTable WITH table <- [c \in Clients |->
SessionsOf(c)]`, where `SessionsOf` is what the rows of a client say without their
ids. It would fail for a store that is lost under another one, since an edit would be
left out, for one that becomes visible in two steps, and for one of an entry that
validation refuses. Listings have no part in it: their queries see different
tables.

### Payloads, Intake and ClientContract

In `Payloads` a JSON body is a function from its places to their nodes. A place is
the path to it, like `$.sessions[0].dayBucket` in the guard's reports: a sequence of
steps, each into a field or to an item. A node is null, an object, a list with its
length, a number or flag, or a text. `IsBody` says which functions are bodies:
whatever has a place below it is an object or a list, and a list has no hole. A
recursive descent is then a condition on all places that it gets to
(`Descended`), which is what lets the guard be reasoned about for bodies of any
depth. A text is what the rules can tell of it: whether it
has the form its field asks for (`fits`) and which patterns of the two scans it
matches (`marks`). `FormatMarks` says which marks a text of each form can have,
from the letters and the length its form allows: no hash looks like a command,
but an id can look like an API key. Each DTO class is a schema of required and
optional fields, and `Conforms` the `ValidationPipe` with whitelisting; the nine
stats are one number. The class that governs a place is found step by step from
the root (`RuleAt`). `Conforms` has class-validator's ways with nested values:
where a class asks for an object with `@ValidateNested` (`Nested`), a list may
stand instead, of any length and in lists again, and the class governs its items
(`RuleBelow`); an item that has to be an object may be null, as may a field with
`@IsOptional` (`MayBeNull`). Only `@IsObject`, which the settings of
`PATCH /users/me` have, keeps lists out (`Sole`). `Odd` are these nulls and these
lists: the classes are not written for them, and the pipe admits them.
`GuardRefuses`, `ScanRefuses`, `EnvelopeAccepted` and `EntryAccepted` are the
functions of the guard and the validator. Guard and validator differ in what
they count as lines of code, hence the marks `fenced` and `snippet` beside
`code`.

`Intake` is one request on its way: `Receive` (body parser), `Guard`
(interceptor), `Pipe`, then `Serve` for a handler of another module or, for
activity sessions, `Envelope` and one `Entry` per round of the loop; `Close`
ends it. `Entry` reads the id of the session before the session is checked, as
the code does: at a null the request ends with `error`, a 500, and what was stored
before it stays. `stored` are the places whose values a service was given. What
clients send to a handler is the constant `Bodies`; `BodiesAssumption` asks that
these be bodies with an object at the root, and that a text that fits its field
has no other marks than its form admits. (A list at the root, which `express.json`
lets pass, and names that every JavaScript object inherits, like `toString`, which
class-transformer drops, are left out.) Guard and pipe have no state and requests do not meet before the
database, hence one at a time.

`ClientContract` adds the published bundle. `Publish` is the script, which must
pass; `SendFixture` is the client that sends what the bundle shows, through the
same `Intake`. `SendOther` is any other body, explored before a bundle is
published since the server does not read it. `BundlesAssumption`: what a bundle
shows is among what clients send.

## Runs

Except for the three `intake` runs, every run checks with `CHECK_DEADLOCK
FALSE`: the number of uploads, ids, tokens or requests is bounded, and clients
may stop sending, so behaviours really end.

| Run | Shows | Instance | Distinct states |
|---|---|---|---|
| `session_uploads` | two uploads with failures, deletions and midnight between any two statements: a SyncState never claims a revision its summary lacks, the revisions differ by exactly the uploads lost or under way, each cap is kept or passed by a bounded amount, stored rows change only as the code says | 2 requests, 3 sessions, 4 uploads, 1 midnight, cap 3 | 658,569 |
| `accounts` | no token outlives its user, rotations form chains, one user per email, guests keep a token, every erasure is audited, revocation is final, and the rotated tokens that a closing account still has are no more than the requests in flight | 2 requests, 2 users, 3 tokens, 1 email, days 0 to 2 | 834,842 |
| `sync_push` | pushes implement the contract of their key, with a failure at any step, and a pull is never behind a keyed push answered before it | 2 requests, 2 pushes sent twice, 1 failure, deletions, 1 PATCH content, 1 pull with a page of 1 of 2 summaries | 4,385,938 |
| `sync_push_live` | a client that repeats a push is answered in the end | 2 pushes sent up to 3 times, 1 failure | 263,542 |
| `activity_batches` | one row per client session, children of the same upload as their session, answered entries stored, listings not mixed; the transactions implement the table | 2 requests, 2 batches, 3 posts, 3 ids, 1 listing | 744,770 |
| `intake` | nothing raw is served, nothing plain is refused, validator and DTO classes differ only on nulls and on lists in the place of objects, a batch fails only at a null, the published examples behave as the bundle says | 8 handlers, every body that differs in one place from a plain one (nulls and lists for objects, in lists too), pairs of entries, bundles with such examples | 9,402 |
| `session_sync_regress` | violation, see below | 2 requests, 1 session, 3 uploads | |
| `session_cap_reupload` | violation, see below | 1 request, 2 sessions, 4 uploads, 1 midnight | |
| `accounts_deletion` | violation, see below | 2 requests, 1 user, 3 tokens | |
| `sync_settings` | violation, see below | 2 requests, 2 pushes sent once, no failure | |
| `intake_mixed` | violation, see below | as `intake` | |
| `intake_tokens` | violation, see below | as `intake` | |

The bounds:

* *Two requests in flight.* The hazards are between a check and its write, and
  one other request in the gap is what it takes. `session_uploads` has three
  sessions, one more than requests, since the daily cap is passed by a second
  upload slipping in after several were counted.
* *Sessions uploaded up to four times* (`MaxUploads`): one session can be
  inserted, rewritten by two overlapping uploads, deleted and revived.
* *Caps.* `ExpCap` 1 and 2 with values 1 and 2 lets each bucket refuse or accept;
  `DailyCap = 3` is reached by two uploads and passed by overlapping ones.
* *Days.* `MaxDay = 1` gives one midnight, in every position.
* *Tokens.* Three for two users is enough for two rotations of one token or for a
  login beside a refresh, and for a closing account with a token left behind and
  another refresh past its check. `MaxTime` 2 with `RefreshLifetime` 1
  lets tokens of different age exist, and a token expire before or after the
  lookup of its refresh.
* *Pushes.* Two contents, each sent up to `MaxStarts` times, with one failure
  anywhere. In `sync_push` the pushes share a summary, one has settings, and
  a page of one summary leaves the other out of a pull; in `sync_push_live` a push
  has an achievement, so that each kind of statement is made by some push. A
  character makes the statements of a summary.
* *Activity sessions.* Two batches name the same two sessions in opposite order;
  one has a refused entry in the middle. Three ids allow a session to be deleted
  and inserted again. Three posts, one listing with two child tables.
* *Bodies.* One place is enough: guard, pipe and validator each look at one
  field or element at a time, and no rule relates two fields. The limits of
  lists are 2 and 1 in place of 200, 100, 50 and 25; lists of none, of one, of two and
  of one above the limit are tried. Batches have a plain entry beside the varied one, so that
  a rejection in part shows.

Symmetry is used on requests, users, tokens, sessions and ids, which no
definition tells apart; not in the liveness run.

### Violations: what the documents say and the code does not

Each has a run that TLC must find violated, and an entry under `findings`.

* `session_sync_regress` / `SyncRevisionMonotonic`: two overlapping uploads of a
  session take the SyncState's server revision back, which the migration that
  adds it calls monotonic.
* `session_cap_reupload` / `DailyCapKept`: sessions of an earlier day are
  uploaded again with more experience and pass that day's cap; no concurrency is
  needed.
* `accounts_deletion` / `DeletionRevokesTokens`: after a request for account
  deletion a login, or a refresh that was past its check, stores an unrevoked
  token.
* `sync_settings` / `SettingsAdditive`: a push of some of the settings, whose
  policy is called additive, removes another one: it overrides what it read with
  undefined, and it puts back what was changed after it read.
* `intake_mixed` / `RejectedAsAWhole`: a null for an optional enum, and a null or a
  list for a bucket, passes the pipe and fails the validator, so that one entry is
  rejected and the others are stored, where the documents have the whole request
  rejected for malformed enums and buckets. The property speaks of these two
  only: for other faults the OpenAPI document allows reports per session.
* `intake_tokens` / `IssuedTokensPass`: a refresh token is 64 random letters of
  base64url; one that contains `sk-` and 20 more letters (some 42 places, one of
  64^3 each: one token in 6,200) is refused by the guard for its value, although
  its name is allowed there. Its guest cannot come back.

Beside each of these stands a passing property that says how far it can go:
`SyncStateNeverAhead`, `TodayOvershootBounded`, `ClosingAccountBounded`,
`PullNotBehind`, `RejectedForOddOnly`, `PlainServed`.

## Fairness

Only `SyncPush!LiveSpec` states fairness, for `EveryPushAnswered`:

* weak fairness of each request's next step: the event loop resumes a handler
  whose statement has been executed, and the database executes statements. A
  request's step stays enabled until it is taken or the request ends, so weak
  fairness is enough;
* weak fairness of sending an unanswered push again: clients keep a queue of
  pending pushes and retry it (`src/Docs/server-architecture.md`, offline
  queue).

`MaxFailures` bounds failures, so the run assumes that they end. This includes
refusals by validation: a push that is refused every time is never answered, and
stays in its client's queue. `MaxStarts` is above what failures and requests
that lose the race for the key can use up.

## Proofs

All proofs are checked by TLAPS (Z3, Zenon and LS4), for every value of the
constants under the named assumptions of the modules:

* types of the parameters, `None` being none of the values it stands beside,
  finitely many requests where they are counted;
* `ExpAssumption`: some gain of experience is the largest, as the DTO has it
  (`@Max(10_000)`);
* `KeysDistinct` in `SyncPush`: a client uses a key for one content;
* `LimitsAssumption` in `Payloads`: lists of warnings and of buckets that the class
  admits (25, 50) are not longer than what the validator's scan takes (400);
* `BodiesAssumption` and `BundlesAssumption`, above.

Every property that a passing run checks is a theorem, except the one about
liveness.

* **SessionSummariesProofs.** `SummaryInv` adds to the types what a request
  holds: the revision an upload has read is not above its row's, and the upload
  it carries passed the cap before its first `await`. `NeverAhead` and
  `RowsWithinCap` follow from it, and `RowHistoryKept` from the types.
  `AccountsKept` counts uploads between the two upserts, one lemma per way the
  set of these can change. `OvershootBounded` needs `CapInv`, which speaks of
  every set Q of uploads that are past their check: some upload of Q still fits,
  beside the rows of today that none of Q replaces, under the cap plus one largest
  gain for each request outside Q (`PendingFits`). For one upload this is what its
  check has found; a row that another upload writes joins the rows outside Q, and
  that upload leaves the ones to come, so that one allowance pays for it. The
  rows of today with Q empty are the theorem. At midnight the running day has no
  rows, and an upload that is past its check fits under the cap alone.
  `OneByOneWithinCap` is the case of one request: without overlap the day's cap
  is kept.
* **AccountsProofs.** `TokensInv`: what a request carries is a token or a user
  of the right kind, tokens not yet minted are in no row, and no stored token
  expires later than one created now would, which a rotation needs for a successor that
  expires no sooner. `NoOrphans`, `ChainsHold` and `RevocationKept` follow; the
  last needs fresh values, or a rotation could write over a revoked row.
  `UsersInv`: an id is given once, and a request about to erase has written its
  audit row. `EmailsUnique` and `ErasuresAudited` follow. `GuestInv`: a guest
  that is owed a token has a live one that reaches it, or a request about to
  issue one, and a request carries a token of the user it answers, so that a
  lost reply costs nobody else. `GuestsServed` follows; a rotation revokes the
  token that was looked up, and what it stores serves the same guest.
  `ClosingInv`: the unrevoked rotated tokens of a closing account and the
  refreshes of it past their check are together at most the requests. A request
  for deletion leaves no such token, a rotation moves one from the second set to
  the first (it stores a token for the user it was let in for, `RotatesOwn`), and
  nothing else adds to either; `ClosingBounded` follows, by the cardinality
  theorems of the library.
* **SyncPushProofs.** `PushInv` says that what a request counts as stored it has
  written, that a request in phase `remember` or beyond has applied its push,
  that a reply about to be sent holds the recorded revision, and that `ok` was
  sent for a key at most once, or is about to be by one request. With it `PushKeepsContract` is a step
  simulation: `Mirror` and `MirrorProfile` map to `Apply` or a stutter,
  `Remember` to `Commit`, `Answer` to `Accept` or `Replay`. `PullsNotBehind` adds
  that a pull that has read the SyncStates has seen every recorded key.
* **ActivitySessionsProofs.** `RowsInv`: open transactions work on different
  clients and ids, an open transaction holds the only row of its client, and
  what a lookup found is still that client's row or gone for good. That gives
  `OneRowKept`; without the last part, an update could store a second row of a
  client. `GroupsKept` needs only that a transaction about to commit has
  replaced its children. `AnswersKept` follows a batch: valid entries it has
  passed are committed. `ListingKept` uses that ids are not given twice, so what
  a listed id shows later is a later edit of the same session. `HeldInv` adds to
  `RowsInv` what an open transaction is about to store: an entry that validation
  lets through, for that entry's client, with edit 1 unless it rewrites a row
  (`WorkersOwn` has the other case). With it `BatchesKeepTable` is a step
  simulation: `Commit` maps to `Store`, `DeleteSession` to `Remove`, `Reply` to
  `Answer`, all else to a stutter.

* **PayloadsProofs.** What the three rule sets say of every body. Every place of
  a body is reached by the descent (`EveryPlaceReached`), so that what the guard
  lets pass has nothing it looks for (`GuardSeesAll`). A set of rules is closed
  when a step from one of them leads to another one or out of all classes; below
  a place that a closed set governs, it governs still (`RuleAtClosed`). The
  classes of the handlers without a policy are such a set, and none of their
  fields has a forbidden name (`OpenClassesMade`, `OpenClassesUnnamed`, one
  step per class); the classes with a policy have the name it allows. Hence an
  admitted body has allowed names only (`AdmittedNames`). For activity sessions
  the rules below an entry are harmless to the validator: their lists are short
  enough, their forms admit no mark but `apiKey`, which is in the guard's list as
  well, and their names are not in the validator's (`ScanPasses`).
  `EnvelopePasses` and `EntryPasses` put that together with the forms that each
  field asks for. `EntryPasses` is about entries with nothing odd in them: a list
  in the place of an object can be longer than the scan takes, and is never what
  `validateSession` asks for.
* **IntakeProofs.** `IntakeInv` says what is known of the body at each stage, of
  the entries answered, and what a reply tells: `forbidden` that the guard refuses
  the body, `invalid` that it does not conform, `partial` that some entry has
  failed, `error` that the session at hand is null. It is inductive because a request keeps its body and its rules do not
  change on the way. `OnlySafe`, `PlainIsServed` and `ChecksAgree` follow by the
  lemmas of PayloadsProofs, for bodies of any size and depth; `ChecksAgree` says
  that validator and class differ on what is odd and on nothing else. `ContractInv` adds
  that a published bundle has passed the script and that a request from it
  carries the fixture; `FixturesBehave` compares what the script asks of the
  rules with what the reply tells of them. `ContractImplementsIntake` carries the
  guarantees of `Intake` over to the composition.
* **SetInduction, FiniteSums.** Induction is stated for sets, from the
  well-foundedness of the order on numbers. `FiniteSums` shows from it that the
  recursive function inside the community modules' fold has a solution over every
  finite set and that it is the sum, whatever order the fold takes: adding an
  element adds its value, and sums are monotonic.

Only model-checked: `EveryPushAnswered`, since liveness under fairness is out of
TLAPS's reach here.

## Not modelled

* The arithmetic of `maxAllowedExp`, of the work types and of `validateSnapshot`.
  In the models a summary's cap is the parameter `ExpCap` and a refused snapshot
  ends a request. Products with 0.8 and 0.5 are of multiples of 50, hence
  exact, and the rest are comparisons with literals: there is nothing that a model
  would say beside the literals.
* A body whose `statDeltas` or `stats` is missing, or that has a null among the
  summaries or achievements of a push, passes the pipe and ends in an error of the
  server instead of a refusal; in `SessionSummaries` and `SyncPush` both are a
  request that ends at that item.
* Texts letter by letter: which patterns a text matches is an input.
* `validate-openapi-contract.ts`, which compares one document with lists of the
  code. `ClientContract` has what the bundle script reads of that document.
* `exportUserData` and the read-only queries of users, achievements, characters
  and health: no document promises that the parts of an export belong together.
* Filters and paging of the listing of activity sessions.
* The lifetime of access tokens, rate limits, logging and the wording of errors.
  Different isolation levels: the code never asks for one.
* Cascades of an erasure into the tables of the other modules: every row there
  carries its user's id under a foreign key, as tokens do in `Accounts`.

## Plan

Done in this order, most important behaviour first: `SessionSummaries`,
`Accounts`, `PushContract` and `SyncPush`, `SessionTable` and `ActivitySessions`,
`Payloads`, `Intake` and `ClientContract`, with the proofs named above.

What could follow:

1. An erasure among batches and pushes: their rows vanish by cascade and later
   statements of the same request fail at a foreign key.
2. The other half of the agreement of the rule sets: that a body with something
   raw in it is always refused by the guard, and not by the pipe or the validator,
   so that a client can tell the cases apart.
