SPECIFICATION Spec

CONSTANTS
    Seeds = {q1, q2, q3}
    ResearchOnly = {q3}
    Least <- Levels
    Bottlenecks = {q1}
    Turns = {t}
    MaxAsked = 2
    MaxFollowUps = 3
    Objectives = {o}
    Results = {good, poor}
    Poor = {poor}
    MaxVersion = 3
    Previews = {p}
    Materials = {m1, m2}
    RepeatLimits <- Limits
    BatchLimit = 5
    Answers = {once, twice}
    Branches <- Branching
    Executors = {e1, e2}
    MaxAttempts = 2
    MaxResults = 1
    MaxQuestions = 1
    Workloads <- Histories
    q1 = q1
    q2 = q2
    q3 = q3
    once = once
    twice = twice
    good = good
    poor = poor
    e1 = e1
    e2 = e2
    None = None

SYMMETRY Interchangeable

INVARIANTS
    ConflictMeansHandled

CHECK_DEADLOCK FALSE
