SPECIFICATION Spec

CONSTANTS
    Records = {a1, a2}
    Hashes = {h1, h2}
    Handlers = {q1, q2}
    FileCount = 2
    MaxPermissions = 2
    Workloads <- Sessions
    None = None
    h1 = h1
    h2 = h2
    a1 = a1
    a2 = a2

SYMMETRY Interchangeable

INVARIANTS
    TypeOK
    ActsAsReviewed
    SettledIsNotRepeated
    RevokedPageIsLeftAlone
    CompletedIsApplied
    BegunIsRecorded

PROPERTIES
    UsedOnceAsRecorded

CHECK_DEADLOCK FALSE
