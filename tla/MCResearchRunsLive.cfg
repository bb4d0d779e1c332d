SPECIFICATION FairSpec

CONSTANTS
    RunIds = {r1, r2}
    Objectives = {o1}
    Connectors = {web}
    Contexts = {x1}
    NoRun = NoRun
    NoKey = NoKey
    Contents = {c1}
    Handlers = {h1, h2}
    MaxRunsPerSession = 2
    MaxRetries = 0
    MaxConcurrentChoices = {2}
    MaxAllowlistVersion = 2
    MaxImports = 1
    MaxCrashes = 0

PROPERTIES
    RequestsAreAnswered
    RunningRunsEnd
