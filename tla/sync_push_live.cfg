\* A client that repeats its pushes, with a failure at any step.
SPECIFICATION LiveSpec
CONSTANTS
    None = None
    First = first
    Second = second
    KeyA = keyA
    KeyB = keyB
    Summary = summary
    Other = other
    Medal = medal
    Theme = theme
    OptIn = optIn
    Character = character
    Progression = progression
    Requests = {r1, r2}
    Pushes = {first, second}
    Keys = {keyA, keyB}
    Sessions = {summary}
    Achievements = {medal}
    SettingsFields = {theme, optIn}
    WithSettings = {}
    KeyOf <- QueueKeyOf
    Items <- QueueItems
    Given <- QueueGiven
    Patches <- MCPatches
    PageSize = 1
    MaxStarts = 3
    MaxFailures = 1
    MaxPulls = 0
CHECK_DEADLOCK FALSE
PROPERTY EveryPushAnswered
