SPECIFICATION PolicySpec
CONSTANTS
    NoId = NoId
    None = None
    Sources = {"plan", "activities"}
    Runs = {r1, r2}
    Users = {u1}
    Terms = {termA, termB}
    PlanIds = {p1}
    Answers <- AnswersDef
    Base = 1
    Doublings = 1
    Refresh = 1
    Day = 2
    Cutoff = 3
    MaxTime = 3
    MaxFailures = 2
    MaxSources = 1
    LastOverlap = 0
SYMMETRY Symmetry
INVARIANTS ResultHasCopy PauseRespected
PROPERTY LastCopyKept
CHECK_DEADLOCK FALSE
