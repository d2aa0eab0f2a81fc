SPECIFICATION Spec
CONSTANTS
    Runs = {r1, r2}
    Followed = {r1}
    N = 2
    MaxReviews = 1
    MaxVersion = 1
    Changing = {2}
    None = None
INVARIANT ProgressTruthful
PROPERTIES ProgressForward VisitAgrees
CHECK_DEADLOCK FALSE
