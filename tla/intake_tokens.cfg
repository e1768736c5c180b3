\* The refresh tokens that the server can issue.
SPECIFICATION ContractSpec
CONSTANTS
    MaxSessions = 2
    MaxWarnings = 1
    MaxBuckets = 1
    MaxUnlocked = 1
    None = None
    Bodies <- MCBodies
    Tokens <- MCTokens
    Bundles <- MCBundles
    OpenApi <- MCOpenApi
INVARIANT IssuedTokensPass
