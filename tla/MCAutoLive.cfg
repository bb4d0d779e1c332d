SPECIFICATION FairSpec

CONSTANTS
    None = None
    RunIds = {r1, r2}
    Folders = {f1}
    ReviewStages = 0
    Keys = {k1, k2}
    UserSteps = {u1}
    Handlers = {h1, h2}
    Workloads <- Waits
    r1 = r1
    r2 = r2
    k1 = k1
    k2 = k2
    u1 = u1

PROPERTIES
    EveryRequestEnds

CHECK_DEADLOCK FALSE
