\* Two goroutines calling Stop at once.
CONSTANTS
    g1 = g1  g2 = g2  d1 = d1  d2 = d2
    Groups = {g1, g2}
    DataIds = {d1, d2}
    Vals = {v1, v2}
    WatchList <- MCWatchDistinct
    Callbacks = {c1}
    Stoppers <- MCStopTwo
    MaxPublish = 0
    MaxSync = 1
    Absent = Absent
    s1 = s1  s2 = s2
INIT Init
NEXT Next
CHECK_DEADLOCK FALSE
INVARIANTS
    NoDoubleClose
