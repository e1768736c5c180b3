\* Two batches of the same two sessions in opposite order, deletions, a listing.
SPECIFICATION Spec
CONSTANTS
    None = None
    First = first
    Second = second
    Work = work
    Rest = rest
    Again = again
    Broken = broken
    Monday = monday
    Tuesday = tuesday
    Warnings = warnings
    Tools = tools
    Requests = {r1, r2}
    Batches = {first, second}
    Entries = {work, rest, again, broken}
    Clients = {monday, tuesday}
    Safe = {work, rest, again}
    Groups = {warnings, tools}
    Ids = {i1, i2, i3}
    EntriesOf <- MCEntriesOf
    ClientOf <- MCClientOf
    GroupsOf <- MCGroupsOf
    MaxPosts = 3
    MaxLists = 1
SYMMETRY Symmetry
CHECK_DEADLOCK FALSE
INVARIANTS
    TypeOK
    OneRowPerClientSession
    GroupsAsUploaded
    AnsweredBatchStored
    ListNotBehind
PROPERTY TableKept
