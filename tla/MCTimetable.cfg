SPECIFICATION Spec
CONSTANTS
    o1 = o1
    k1 = k1
    k2 = k2
    None = None
    NCourses = 3
    Codes = {1, 2}
    Terms = {1, 2}
    ImportedId <- Imported
    Own = {o1}
    Hours <- ClassHours
    TERM = 3
    GRACE = 2
    Worlds <- Start
    Entered <- Forms
    Asks <- Wishes
    Portals <- Seen
    Calls = {k1, k2}
    Mixes <- Races
    First = 5
    Last = 6
INVARIANT NoClash
PROPERTIES SharedCodeHasRace ImportKeepsManual ImportSettles
