SPECIFICATION Spec
CONSTANTS
    None = None
    Calls = {c1, c2}
    Deployments <- Rotation
    Routes <- ChosenRoutes
    Life <- LifeDef
    TermLength = 1
    MaxTime = 1
    MaxIssued = 3
SYMMETRY Symmetry
INVARIANTS OneSessionPerSync DisconnectSticks
PROPERTY CredentialLostHasCause
CHECK_DEADLOCK FALSE
