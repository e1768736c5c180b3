\* A batch of two entries, one of them with a null.
SPECIFICATION ContractSpec
CONSTANTS
    MaxSessions = 2
    MaxWarnings = 1
    MaxBuckets = 1
    MaxUnlocked = 1
    None = None
    Bodies <- MCBodies
    Tokens <- MCTokens
    Bundles <- MCBundles
    OpenApi <- MCOpenApi
INVARIANT RejectedAsAWhole
