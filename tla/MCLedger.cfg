SPECIFICATION Spec

CONSTANTS
    Steps = {s1, s2, s3}
    Trackers = {trk, shared}
    Docs = {doc}
    TrackedDocs = {doc}
    ScopesOf <- OneScope
    ReviewIds = {c1, c2, k1, k2}
    Commits = {old, new}
    MaxRecords <- Lengths
    None = None
    Offered <- EitherLedger
    s1 = s1
    s2 = s2
    s3 = s3
    c1 = c1
    c2 = c2
    k1 = k1
    k2 = k2
    old = old
    new = new
    doc = doc
    trk = trk
    shared = shared

SYMMETRY Symmetry

INVARIANTS
    NoStageSkipped
    ReviewProvesOneStep
    TestedWhatWasReviewed

PROPERTIES
    CompletedIsFinal

CHECK_DEADLOCK FALSE
