CONSTANTS
    Keys = {k1, k2}
    k1 = k1
    k2 = k2
    s1 = s1
    NoUserKey <- MCNoUserKey
    NoKey = NoKey
    Ghost = Ghost
    Threads = {t1, t2}
    NoThread = NoThread
    MaxRecords = 2
    MaxDicts = 3
    MaxMade = 2
SYMMETRY Symmetry
SPECIFICATION Spec
INVARIANTS CacheMatchesRecords ViewsAgree
PROPERTIES FreshResultsAreClean
CHECK_DEADLOCK FALSE
