\* Every body that differs in one place from a plain one, for each handler, and
\* every bundle with such an example.
SPECIFICATION ContractSpec
CONSTANTS
    MaxSessions = 2
    MaxWarnings = 1
    MaxBuckets = 1
    MaxUnlocked = 1
    None = None
    Bodies <- MCBodies
    Tokens <- MCTokens
    Bundles <- MCBundles
    OpenApi <- MCOpenApi
INVARIANT TypeOK
INVARIANT OnlySafeStored
INVARIANT PlainServed
INVARIANT RejectedForOddOnly
INVARIANT PublishedFixturesBehave
