SPECIFICATION GuardSpec
CONSTANTS
    t1 = t1
    t2 = t2
    Requests = {r1, r2, r3}
    Tokens = {t1, t2}
    Budgets = {k1}
    ExpiresAt <- ExpiryDef
    Limit = 2
    Window = 2
    LastSecond = 3
SYMMETRY Symmetry
INVARIANTS WithinBudget TokenSpentOnce
CHECK_DEADLOCK FALSE
