SPECIFICATION SyncSpec

CONSTANTS
    RunIds = {r1, r2}
    Objectives = {o1}
    Connectors = {web, papers}
    Contexts = {x1}
    NoRun = NoRun
    NoKey = NoKey
    Contents = {c1}
    Handlers = {h1, h2}
    MaxRunsPerSession = 2
    MaxRetries = 1
    MaxConcurrentChoices = {1, 2}
    MaxAllowlistVersion = 3
    MaxImports = 0
    MaxCrashes = 1

SYMMETRY Symmetry

PROPERTIES
    StartsAreAuthorized
    SweptWhenAnswered
