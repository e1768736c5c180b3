------------------------------ MODULE Payloads ------------------------------
(***************************************************************************)
(* JSON bodies of requests, and the three rule sets a body passes: the     *)
(* names and texts PrivacyGuardService refuses, the DTO classes that the   *)
(* ValidationPipe checks (whitelist, forbidNonWhitelisted), and            *)
(* SafeSyncPayloadValidator.                                               *)
(*                                                                         *)
(* A body is a function from places to nodes.  A place is what the guard's *)
(* reports call a path, $.sessions[0].dayBucket: the steps from the root,  *)
(* each into a field of an object or to an item of a list.                 *)
(*                                                                         *)
(* A text is what the rules can tell of it: whether it has the form its    *)
(* field asks for (fits), and which of the patterns of the two scans it    *)
(* matches (marks).  A number or a flag is whether it is of the type and   *)
(* in the range asked for.                                                 *)
(***************************************************************************)
EXTENDS Integers, SequencesExt

CONSTANTS
    MaxSessions,   \* limit of the lists of sessions, 100 in the code
    MaxWarnings,   \* limit of warningIds, 25
    MaxBuckets,    \* limit of the lists of buckets, 50
    MaxUnlocked    \* limit of achievements and of unlockedItems, 200

\* No list that a class admits is too long for the scan of
\* SafeSyncPayloadValidator, which takes lists of up to 400.
ASSUME LimitsAssumption ==
    /\ {MaxSessions, MaxWarnings, MaxBuckets, MaxUnlocked} \subseteq Nat \ {0}
    /\ MaxWarnings <= MaxSessions * 4 /\ MaxBuckets <= MaxSessions * 4

\* jwt: three long base64url parts.  long: over 2,000 characters.  Of at least
\* four lines, diff: two are of a diff; code: three are of code; fenced: three
\* with the fences, or one if the text is long; snippet: three with a diff's.
Marks == {"bearer", "apiKey", "privateKey", "jwt", "absolutePath", "homePath", "pathLike",
          "command", "gitRemote", "diff", "code", "fenced", "snippet", "long"}

Node == [kind: {"null", "object"}] \cup [kind: {"list"}, len: Nat]
           \cup [kind: {"scalar"}, fits: BOOLEAN] \cup [kind: {"text"}, fits: BOOLEAN, marks: SUBSET Marks]

Null == [kind |-> "null"]
Object == [kind |-> "object"]

\* A step into an object and into a list.
Field(n) == <<n, 0>>
Item(i) == <<"", i>>
IsField(step) == step[2] = 0

Before(p, k) == SubSeq(p, 1, k)

\* The place p has a step into the node above it.
Has(node, step) ==
    IF IsField(step) THEN node.kind = "object"
    ELSE node.kind = "list" /\ step[1] = "" /\ step[2] \in 1 .. node.len

\* A parsed body: a node at the root, every other place below an object or a
\* list, and no hole in a list.
IsBody(v) ==
    /\ <<>> \in DOMAIN v
    /\ \A p \in DOMAIN v :
        /\ p \in Seq(STRING \X Nat)
        /\ v[p] \in Node
        /\ \A k \in 0 .. Len(p) - 1 : Before(p, k) \in DOMAIN v /\ Has(v[Before(p, k)], p[k + 1])
        /\ v[p].kind = "list" => \A i \in 1 .. v[p].len : Append(p, Item(i)) \in DOMAIN v

\* The places at s and below it.
Below(v, s) == {p \in DOMAIN v : IsPrefix(s, p)}

-----------------------------------------------------------------------------
(* Names and texts that are refused.                                       *)

\* PRIVACY_GUARD_FORBIDDEN_FIELD_NAMES, in lower case.
GuardNames ==
    {"prompt", "rawprompt", "response", "rawresponse", "rawdiff", "code", "rawcode", "sourcecode",
     "source", "sourcetext", "snippet", "log", "rawlog", "claudelog", "codexlog", "terminaloutput",
     "stdout", "stderr", "absolutepath", "filepath", "filename", "path", "pathraw", "reponame",
     "repositoryname", "remoteurl", "gitremote", "gitremoteurl", "branchname", "rawbranchname",
     "branchnameraw", "commitmessage", "rawcommitmessage", "commitmessageraw", "diff", "patch",
     "command", "commandtext", "apikey", "secret", "passwordraw", "password", "username",
     "authorization", "tokenraw", "rawtoken", "refreshtoken", "apitoken", "accesstoken",
     "secrettoken", "bearer", "token", "approvedlocation", "approvedlocations",
     "approvedlocationpath", "approvedlocationsettings", "localpath", "localonlypath",
     "localapprovedlocations"}

\* FORBIDDEN_FIELD_NAMES of the validator, in lower case.
ValidatorNames ==
    {"rawpath", "path", "filepath", "filename", "reponame", "repositoryname", "branchname",
     "command", "prompt", "response", "rawlog", "source", "sourcetext", "code", "snippet",
     "username", "token", "secret", "apikey", "password", "approvedlocation",
     "approvedlocations", "approvedlocationpath", "approvedlocationsettings", "localpath",
     "localonlypath", "localapprovedlocations"}

\* toLowerCase, as far as the lists see it: any other name of a body differs
\* from all names on the lists.
LowerCase == [refreshToken |-> "refreshtoken", rawPath |-> "rawpath", Password |-> "password"]
Lower(name) == IF name \in DOMAIN LowerCase THEN LowerCase[name] ELSE name

GuardMarks == Marks \ {"jwt", "homePath", "long", "snippet"}
ValidatorMarks == Marks \ {"gitRemote", "diff", "fenced"}

\* Mutant: only objects are descended into.
ObjectsDescended(v, s, p) == \A k \in Len(s) .. Len(p) - 1 : v[Before(p, k)].kind = "object"

\* The recursive descent from s gets to p: through lists and objects.
Descended(v, s, p) == \A k \in Len(s) .. Len(p) - 1 : v[Before(p, k)].kind \in {"list", "object"}

Named(p, names) == p # <<>> /\ IsField(Last(p)) /\ Lower(Last(p)[1]) \in names
Marked(node, marks) == node.kind = "text" /\ node.marks \cap marks # {}

\* PrivacyGuardService.assertSafePayload: allowed names are descended into, a
\* forbidden one is not, but refuses the body.
GuardRefuses(v, allowed) ==
    \E p \in DOMAIN v :
        /\ Descended(v, <<>>, p)
        /\ Named(p, GuardNames \ allowed) \/ Marked(v[p], GuardMarks)

\* SafeSyncPayloadValidator.scan of the value at s.
ScanRefuses(v, s) ==
    \E p \in Below(v, s) :
        /\ Descended(v, s, p)
        /\ \/ v[p].kind = "list" /\ v[p].len > MaxSessions * 4
           \/ p # s /\ Named(p, ValidatorNames)
           \/ Marked(v[p], ValidatorMarks)

-----------------------------------------------------------------------------
(* DTO classes.                                                            *)

Word(format) == [form |-> "text", format |-> format]
Number == [form |-> "scalar"]
Flag == [form |-> "scalar"]
Several(rule, max) == [form |-> "list", of |-> rule, max |-> max]

\* @ValidateNested takes a list for its items, wherever it is, and looks at no
\* null; with @IsObject the value has to be an object.
Nested(schema) == [form |-> "object", schema |-> schema, sole |-> FALSE]
Sole(schema) == [form |-> "object", schema |-> schema, sole |-> TRUE]

\* The fields a class asks for, and those with @IsOptional.
Schema(required, optional) == [required |-> required, optional |-> optional]

\* The forms of texts, with the marks that a text of this form can have: the
\* letters and the length rule the others out.
FormatMarks ==
    [id       |-> {"apiKey"},                        \* [A-Za-z0-9:_-], up to 40 or more
     short    |-> {},                                \* the same, up to 20
     version  |-> {"apiKey"},                        \* [A-Za-z0-9:._-], up to 40
     key      |-> {},                                \* [A-Z][A-Z0-9_:-]*
     enum     |-> {},
     date     |-> {},
     hash     |-> {},                                \* hexadecimal digits
     name     |-> {"bearer", "apiKey", "command"},   \* letters, digits, space, _ . -
     nickname |-> Marks \ {"jwt", "long"},           \* anything up to 40
     email    |-> Marks \ {"bearer", "command", "long"},   \* anything in quotes before the @
     secret   |-> Marks \ {"long"}]                  \* anything up to 128 or 512

SafeBucket == Schema([key |-> Word("key"), countBucket |-> Word("enum")], <<>>)

SafeActivitySession ==
    Schema([clientSessionId |-> Word("id"), sourceProvider |-> Word("enum"),
            dayBucket |-> Word("date"), confidence |-> Word("enum")],
           [timeBucket |-> Word("id"), warningIds |-> Several(Word("key"), MaxWarnings),
            analyzerVersion |-> Word("version"), parserVersion |-> Word("version"),
            hashedRepositoryId |-> Word("hash"), changeCountBucket |-> Word("enum"),
            lineCountBucket |-> Word("enum"), commitCountBucket |-> Word("enum"),
            sessionCountBucket |-> Word("enum"), interactionCountBucket |-> Word("enum"),
            activityCategory |-> Word("key"), durationBucket |-> Word("enum"),
            categoryBuckets |-> Several(Nested(SafeBucket), MaxBuckets),
            languageBuckets |-> Several(Nested(SafeBucket), MaxBuckets),
            toolBuckets |-> Several(Nested(SafeBucket), MaxBuckets)])

SafeActivitySessionsUpsertRequest ==
    Schema([schemaVersion |-> Number, sessions |-> Several(Nested(SafeActivitySession), MaxSessions)],
           [clientSyncId |-> Word("id"), requestId |-> Word("id")])

\* The nine stats are one number here.
StatDeltas == Schema(<<>>, [logic |-> Number])
EvolutionProgressDelta == Schema(<<>>, [debugger |-> Number])

\* statDeltas has @ValidateNested alone, which lets a missing or null one pass.
UploadSessionSummary ==
    Schema([sessionId |-> Word("id"), agentType |-> Word("id"), workType |-> Word("enum"),
            startedAt |-> Word("date"), durationBucket |-> Word("enum"),
            tokenBucket |-> Word("enum"), changedFileCountBucket |-> Word("enum"),
            addedLineBucket |-> Word("enum"), deletedLineBucket |-> Word("enum"),
            testRunCount |-> Number, buildRunCount |-> Number, resultStatus |-> Word("enum"),
            expGained |-> Number, confidence |-> Word("enum")],
           [endedAt |-> Word("date"), statDeltas |-> Nested(StatDeltas),
            evolutionProgressDelta |-> Nested(EvolutionProgressDelta),
            sourceProvider |-> Word("enum"), parserVersion |-> Word("version"),
            projectHash |-> Word("hash"), localOnlyProjectId |-> Word("id")])

CharacterStats == Schema([logic |-> Number], <<>>)
CharacterEvolution ==
    Schema(<<>>, [targetClass |-> Word("enum"), progress |-> Number, stage |-> Word("id")])
CharacterAppearance ==
    Schema(<<>>, [avatarId |-> Word("id"), paletteId |-> Word("id"), frameId |-> Word("id")])

\* As for statDeltas, a missing or null stats passes.
CharacterSnapshot ==
    Schema([level |-> Number, exp |-> Number, class |-> Word("enum"), syncVersion |-> Number],
           [displayName |-> Word("name"), stats |-> Nested(CharacterStats),
            evolution |-> Nested(CharacterEvolution), appearance |-> Nested(CharacterAppearance),
            unlockedItems |-> Several(Word("id"), MaxUnlocked)])

UserProgression ==
    Schema(<<>>, [level |-> Number, exp |-> Number, totalSafeSessionCount |-> Number,
                  totalAchievementCount |-> Number, lastPlayedAt |-> Word("date")])
AchievementProgress ==
    Schema(<<>>, [currentValue |-> Number, targetValue |-> Number, countBucket |-> Word("enum"),
                  tier |-> Word("id"), completed |-> Flag])
Achievement ==
    Schema([achievementId |-> Word("id")],
           [unlockedAt |-> Word("date"), progress |-> Nested(AchievementProgress),
            sourceProvider |-> Word("enum")])
SettingsSync ==
    Schema([syncVersion |-> Number],
           [cloudSyncOptIn |-> Flag, allowProjectAliasSync |-> Flag, theme |-> Word("short")])

SyncPush ==
    Schema(<<>>,
           [clientRevision |-> Number, idempotencyKey |-> Word("id"),
            userProgression |-> Nested(UserProgression),
            characterSnapshot |-> Nested(CharacterSnapshot), character |-> Nested(CharacterSnapshot),
            sessionSummaries |-> Several(Nested(UploadSessionSummary), MaxSessions),
            sessions |-> Several(Nested(UploadSessionSummary), MaxSessions),
            achievements |-> Several(Nested(Achievement), MaxUnlocked),
            settings |-> Nested(SettingsSync)])

UserSettings ==
    Schema(<<>>, [theme |-> Word("enum"), cloudSyncOptIn |-> Flag, allowProjectAliasSync |-> Flag])
UpdateUser == Schema(<<>>, [nickname |-> Word("nickname"), settings |-> Sole(UserSettings)])

Signup ==
    Schema([email |-> Word("email"), password |-> Word("secret")], [nickname |-> Word("nickname")])
Login == Schema([email |-> Word("email"), password |-> Word("secret")], <<>>)
Refresh == Schema([refreshToken |-> Word("secret")], <<>>)

Undeclared == [form |-> "none"]

\* The rule of the value one step below a value of this rule.
RuleBelow(rule, step) ==
    CASE rule.form = "list" /\ ~IsField(step) -> rule.of
      [] rule.form = "object" /\ ~IsField(step) -> rule
      [] rule.form = "object" /\ IsField(step) /\ step[1] \in DOMAIN rule.schema.required ->
            rule.schema.required[step[1]]
      [] rule.form = "object" /\ IsField(step) /\ step[1] \in DOMAIN rule.schema.optional ->
            rule.schema.optional[step[1]]
      [] OTHER -> Undeclared

\* The rule of the value at p, in a body of this rule.
RuleAt(rule, p) ==
    LET along[k \in 0 .. Len(p)] == IF k = 0 THEN rule ELSE RuleBelow(along[k - 1], p[k])
    IN  along[Len(p)]

\* One step below a value of this rule may be null: in a field with @IsOptional,
\* which takes it for a missing one, and where an item has to be an object.
MayBeNull(rule, step) ==
    \/ rule.form = "object" /\ IsField(step) /\ step[1] \in DOMAIN rule.schema.optional
    \/ ~IsField(step) /\ RuleBelow(rule, step).form = "object"

\* The ValidationPipe; a field that the class does not declare is refused.
Conforms(v, rule) ==
    \A p \in DOMAIN v :
        LET r == RuleAt(rule, p)
        IN  \/ r.form \in {"text", "scalar"} /\ v[p].kind = r.form /\ v[p].fits
            \/ r.form = "list" /\ v[p].kind = "list" /\ v[p].len <= r.max
            \/ /\ r.form = "object" /\ v[p].kind = "object"
               /\ \A n \in DOMAIN r.schema.required : Append(p, Field(n)) \in DOMAIN v
            \/ p # <<>> /\ r.form = "object" /\ ~r.sole /\ v[p].kind = "list"
            \/ p # <<>> /\ v[p] = Null /\ MayBeNull(RuleAt(rule, Front(p)), Last(p))

\* What the pipe lets pass beside the values that the class is written for: null,
\* and a list in the place of an object.
Odd(v, rule, p) == v[p] = Null \/ (v[p].kind = "list" /\ RuleAt(rule, p).form = "object")

\* A text of the form that its class asks for has no other marks than the form
\* admits: the patterns of the classes and of the scans are of the same texts.
MarksAdmitted(v, rule) ==
    \A p \in DOMAIN v :
        LET r == RuleAt(rule, p)
        IN  v[p].kind = "text" /\ v[p].fits /\ r.form = "text" => v[p].marks \subseteq FormatMarks[r.format]

-----------------------------------------------------------------------------
(* SafeSyncPayloadValidator.                                               *)

Sessions == <<Field("sessions")>>
SessionAt(i) == Append(Sessions, Item(i))

\* The value at p is a text, a list, of the form or the length asked for.
IsText(v, p) == p \in DOMAIN v /\ v[p].kind = "text"
Fitting(v, p) == IsText(v, p) /\ v[p].fits
ListUpTo(v, p, max) == p \in DOMAIN v /\ v[p].kind = "list" /\ v[p].len <= max

\* validateEnvelope.
EnvelopeAccepted(v) ==
    /\ v[<<>>].kind = "object"
    /\ \A p \in DOMAIN v \ {Sessions} :
         Len(p) = 1 => ~Named(p, ValidatorNames) /\ ~ScanRefuses(v, p)
    /\ <<Field("schemaVersion")>> \in DOMAIN v
    /\ v[<<Field("schemaVersion")>>].kind = "scalar" /\ v[<<Field("schemaVersion")>>].fits
    /\ ListUpTo(v, Sessions, MaxSessions)

BucketAccepted(v, p) ==
    /\ v[p].kind = "object"
    /\ \A n \in {"key", "countBucket"} : Fitting(v, Append(p, Field(n)))

BucketEntriesAccepted(v, p) ==
    /\ ListUpTo(v, p, MaxBuckets)
    /\ \A i \in 1 .. v[p].len : BucketAccepted(v, Append(p, Item(i)))

WarningIdsAccepted(v, p) ==
    /\ ListUpTo(v, p, MaxWarnings)
    /\ \A i \in 1 .. v[p].len : Fitting(v, Append(p, Item(i)))

RequiredTexts == {"clientSessionId", "sourceProvider", "dayBucket", "confidence"}
OptionalTexts == {"timeBucket", "analyzerVersion", "parserVersion", "hashedRepositoryId",
                  "activityCategory", "changeCountBucket", "lineCountBucket", "commitCountBucket",
                  "sessionCountBucket", "interactionCountBucket", "durationBucket"}
BucketLists == {"categoryBuckets", "languageBuckets", "toolBuckets"}

\* Mutant: timeBucket is required.
EntryWithTime(v, s) ==
    /\ ~ScanRefuses(v, s)
    /\ v[s].kind = "object"
    /\ \A n \in RequiredTexts \cup {"timeBucket"} : Fitting(v, Append(s, Field(n)))

\* validateSession of the entry at s: a field that is present passes its check,
\* null included.
EntryAccepted(v, s) ==
    LET at(n) == Append(s, Field(n))
        Present(names) == {n \in names : at(n) \in DOMAIN v}
    IN  /\ ~ScanRefuses(v, s)
        /\ v[s].kind = "object"
        /\ \A n \in RequiredTexts : IsText(v, at(n))
        /\ \A n \in {"clientSessionId", "dayBucket"} \cup Present(OptionalTexts) : Fitting(v, at(n))
        /\ \A n \in Present({"warningIds"}) : WarningIdsAccepted(v, at(n))
        /\ \A n \in Present(BucketLists) : BucketEntriesAccepted(v, at(n))

=============================================================================
