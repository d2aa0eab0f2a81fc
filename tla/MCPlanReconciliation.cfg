SPECIFICATION Spec
CONSTANTS
    m1 = m1
    m2 = m2
    k1 = k1
    k2 = k2
    None = None
    Day = {0, 10}
    Period = {0}
    Hours <- ClassHours
    Meeting = {m1, m2}
    Saved <- Weeks
    Asks <- Schedules
    Plans <- Portal
    Courses <- Kinds
    Edits <- Changes
    Touched <- Sessions
    Calls = {k1, k2}
    Mixes <- Races
    MaxTime = 1
INVARIANT OverlapHasCause
PROPERTIES ReconcileLossHasCause AppliedAsTold
