SPECIFICATION Spec
CONSTANTS
    m1 = m1
    m2 = m2
    m3 = m3
    u1 = u1
    d1 = d1
    p1 = p1
    t1 = t1
    t2 = t2
    k1 = k1
    k2 = k2
    None = None
    MoodleIds = {m1, m2, m3}
    DiarioIds = {d1}
    ManualIds = {u1}
    PlanIds <- OnePlan
    Terms = {t1, t2}
    DuesIn <- DuesOfTerm
    MaxImport = 2
    NCourses = 2
    Calls = {k1, k2}
    Initially <- Start
    Changing = {2}
    Edited = {1}
    Found <- Materials
    Mixes <- Races
    Answers <- Said
    Other = {"sessions", "syncState"}
    MaxCandidates = 2
    MaxBatch = 3
    MaxTime = 1
INVARIANTS RefusedHasCause CatalogListable
PROPERTIES UserDateStands GoneIfAnswered DeletedWhole
