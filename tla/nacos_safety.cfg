\* Safety of the nacos watcher under concurrent callbacks and Stop calls.
CONSTANTS
    g1 = g1  g2 = g2  d1 = d1  d2 = d2
    Groups = {g1, g2}
    DataIds = {d1, d2}
    Vals = {v1, v2}
    WatchList <- MCWatchShared
    Callbacks = {c1, c2}
    Stoppers <- MCStopTwo
    s1 = s1  s2 = s2
    MaxPublish = 3
    MaxSync = 1
    Absent = Absent
SYMMETRY MCSymmetry
INIT Init
NEXT Next
\* Publishing stops at MaxPublish; the real process then waits in Next.
CHECK_DEADLOCK FALSE
INVARIANTS
    WatchedKeysPresent
