\* Requests of one kind, or of kinds that meet on the same rows.
CONSTANTS
    c1 = c1
    c2 = c2
    c3 = c3
    c4 = c4
    Calls = {c1, c2, c3, c4}
    Identities = {google, github}
    Before = Before
SPECIFICATION MCSpec
INVARIANTS
    SupersededCodeIsRefused
    ResetIsFinal
    LockedOutNeedsRace
    AvatarIsStored
    PagesTellTheTruth
CHECK_DEADLOCK FALSE
