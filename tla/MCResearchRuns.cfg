SPECIFICATION Spec

CONSTANTS
    RunIds = {r1, r2}
    Objectives = {o1}
    Connectors = {web}
    Contexts = {x1}
    NoRun = NoRun
    NoKey = NoKey
    Contents = {c1}
    Handlers = {h1, h2}
    MaxRunsPerSession = 2
    MaxRetries = 1
    MaxConcurrentChoices = {2}
    MaxAllowlistVersion = 3
    MaxImports = 1
    MaxCrashes = 0

SYMMETRY Symmetry

INVARIANTS
    TypeOK
    OneRunPerKey
    StoredRowsAreValid
    WaitingNotStarted
    SavesAreLegal
    EvidenceBehindVerdict
    LateResultDropped
    RetryChain

PROPERTIES
    RunsOnlyAdvance
    ImplementsRunLifecycle
