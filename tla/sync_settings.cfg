\* Two pushes of different settings.
SPECIFICATION Spec
CONSTANTS
    None = None
    First = first
    Second = second
    KeyA = keyA
    KeyB = keyB
    Summary = summary
    Other = other
    Medal = medal
    Theme = theme
    OptIn = optIn
    Character = character
    Progression = progression
    Requests = {r1, r2}
    Pushes = {first, second}
    Keys = {keyA, keyB}
    Sessions = {summary}
    Achievements = {medal}
    SettingsFields = {theme, optIn}
    WithSettings = {first, second}
    KeyOf <- SettingsKeyOf
    Items <- SettingsItems
    Given <- SettingsGiven
    Patches <- MCPatches
    PageSize = 1
    MaxStarts = 1
    MaxFailures = 0
    MaxPulls = 0
SYMMETRY Symmetry
CHECK_DEADLOCK FALSE
PROPERTY SettingsAdditive
