SPECIFICATION Spec

CONSTANTS
    None = None
    RunIds = {r1, r2}
    Folders = {f1}
    ReviewStages = 0
    Keys = {k1, k2}
    UserSteps = {u1, u2, u3}
    Handlers = {h1, h2}
    Workloads <- AllLoads
    r1 = r1
    r2 = r2
    k1 = k1
    k2 = k2
    u1 = u1

SYMMETRY Interchangeable

INVARIANTS
    TypeOK
    MergeBehindCompletion
    AppliedOnce
    CompletedWorkIsInLedger
    OneWorkerPerStage
    AskedOnceInTurn

PROPERTIES
    DeliversRuns

CHECK_DEADLOCK FALSE
