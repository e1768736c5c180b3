--------------------------- MODULE ClientContract ---------------------------
(***************************************************************************)
(* The contract that the server keeps with the Unity client: a bundle with *)
(* three example requests to POST /sync/activity-sessions is published     *)
(* once scripts/validate-client-contract-bundle.ts passes, and the client  *)
(* sends what the bundle shows.  The script asks the rules of Payloads one *)
(* by one; the server applies them in the order of Intake.                 *)
(***************************************************************************)
EXTENDS Intake

CONSTANTS
    Bundles,   \* bundles that somebody tries to publish
    OpenApi,   \* providers, schemaVersions and forbidden names of the OpenAPI document
    None       \* no bundle, or no fixture of this kind in it

Fixtures == {"valid", "unsafe", "mixed"}

\* The bundle's examples are among what clients send.
ASSUME BundlesAssumption ==
    /\ None \notin Bundles
    /\ {b[f] : b \in Bundles, f \in Fixtures} \ {None} \subseteq Bodies["activity"]

VARIABLES
    bundle,    \* the published bundle, or None
    origin     \* the fixture that the request at hand carries, or "other"

contractVars == <<vars, bundle, origin>>

ContractInit == Init /\ bundle = None /\ origin = "other"

SourceProviders == {"MANUAL", "GIT", "CLAUDE", "CODEX", "UNKNOWN_AGENT"}

\* rawValuePattern.
RawMarks == {"absolutePath", "apiKey", "privateKey"}

\* collectForbiddenKeys finds nothing, nor does assertNoRawValues.
LooksSafe(v) == \A p \in DOMAIN v : ~Named(p, GuardNames) /\ ~Marked(v[p], RawMarks)

ActivityDto == Nested(SafeActivitySessionsUpsertRequest)

\* What the bundle says of itself, and agreement with the server's enums, its
\* lists of names and the OpenAPI document.
HeaderPasses(b) ==
    /\ b.bundleVersion = 1 /\ b.clientSchemaVersion = 1
    /\ b.clientName = "TokenForgeUnityClient"
    /\ b.described   \* safeSyncMapperVersion and generatedAt are strings, nothing raw in them
    /\ b.providers = SourceProviders /\ b.providers = OpenApi.providers
    /\ b.schemaVersions = {1} /\ b.schemaVersions = OpenApi.schemaVersions
    /\ b.localOnly   \* approvedLocationsAreLocalOnly
    /\ GuardNames \subseteq b.rawFields /\ b.rawFields \subseteq OpenApi.forbidden

\* Mutant: the sessions are not tried one by one.
ValidEnvelopePasses(v) ==
    /\ Conforms(v, ActivityDto) /\ ~GuardRefuses(v, {}) /\ EnvelopeAccepted(v) /\ LooksSafe(v)

ValidPasses(v) ==
    /\ Conforms(v, ActivityDto) /\ ~GuardRefuses(v, {}) /\ EnvelopeAccepted(v)
    /\ \A i \in 1 .. v[Sessions].len : EntryAccepted(v, SessionAt(i))
    /\ LooksSafe(v)

\* A bundle may have no mixed fixture.
MixedPasses(b) ==
    b.mixed # None =>
        /\ b.mixedBehavior = "WHOLE_REQUEST_REJECTED_BY_DTO_VALIDATION"
        /\ ~Conforms(b.mixed, ActivityDto) /\ LooksSafe(b.mixed)

Passes(b) ==
    HeaderPasses(b) /\ ValidPasses(b.valid) /\ GuardRefuses(b.unsafe, {}) /\ MixedPasses(b)

\* Between two requests; the server does not read the bundle.
Publish ==
    /\ bundle = None
    /\ At("idle")
    /\ bundle' \in {b \in Bundles : Passes(b)}
    /\ UNCHANGED <<vars, origin>>

\* The client follows the bundle.
SendFixture(f) ==
    /\ bundle # None
    /\ bundle[f] # None
    /\ Receive("activity", bundle[f])
    /\ origin' = f
    /\ UNCHANGED bundle

\* Anything else that a client sends.  It has nothing to do with the bundle, so
\* it is explored without one.
SendOther ==
    /\ bundle = None
    /\ At("idle")
    /\ \E h \in Handlers : \E body \in Bodies[h] : Receive(h, body)
    /\ origin' = "other"
    /\ UNCHANGED bundle

ContractNext ==
    \/ Publish
    \/ \E f \in Fixtures : SendFixture(f)
    \/ SendOther
    \/ Advance /\ UNCHANGED <<bundle, origin>>

ContractSpec == ContractInit /\ [][ContractNext]_contractVars

-----------------------------------------------------------------------------
\* The server treats the published examples as the contract says: it stores all
\* of the valid one, refuses the unsafe one for its contents, and stores nothing
\* of the mixed one (validate-client-contract-bundle.ts:250-292).
PublishedFixturesBehave ==
    At("answered") =>
        /\ origin = "valid" => reply = "ok" /\ Len(results) = Entries
        /\ origin = "unsafe" => reply = "forbidden"
        /\ origin = "mixed" => stored = {}
=============================================================================
