\* A push with a key and one without that share a summary, sent up to twice each, and a
\* pull whose page holds one of two summaries.
SPECIFICATION Spec
CONSTANTS
    None = None
    First = first
    Second = second
    KeyA = keyA
    KeyB = keyB
    Summary = summary
    Other = other
    Medal = medal
    Theme = theme
    OptIn = optIn
    Character = character
    Progression = progression
    Requests = {r1, r2}
    Pushes = {first, second}
    Keys = {keyA}
    Sessions = {summary, other}
    Achievements = {}
    SettingsFields = {theme, optIn}
    WithSettings = {first}
    KeyOf <- SharedKeyOf
    Items <- SharedItems
    Given <- SharedGiven
    Patches <- MCPatches
    PageSize = 1
    MaxStarts = 2
    MaxFailures = 1
    MaxPulls = 1
SYMMETRY Symmetry
CHECK_DEADLOCK FALSE
INVARIANT TypeOK
INVARIANT PullNotBehind
PROPERTY ContractKept
